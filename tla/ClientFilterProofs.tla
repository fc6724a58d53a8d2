------------------------- MODULE ClientFilterProofs -------------------------
(***************************************************************************)
(* Theorems of the client's side of a connection: of the two filters it    *)
(* may go through, CircuitBreaker, for any ids, thresholds and peer, and   *)
(* LegacySseClient, for any number of messages and announcements, and of   *)
(* the requests sent over it, ClientRequests, for any number of calls.     *)
(* Each has its own specification and its own invariant.                   *)
(***************************************************************************)
EXTENDS CircuitBreaker, LegacySseClient, ClientRequests, FiniteSetTheorems, SequenceTheorems,
        NaturalsInduction, WellFoundedInduction, TLAPS

-----------------------------------------------------------------------------
(* CircuitBreaker.                                                         *)

\* The tests still unanswered are among the pending requests, so those let
\* through are answered or pending, or share their id with one that is.
TestsAccountedFor ==
  /\ IsFiniteSet(pending)
  /\ state = "HALF_OPEN" =>
       /\ tested = halfOpenRequests + 1
       /\ halfOpenSuccesses < SuccessThreshold
       /\ halfOpenRequests + 1 <= halfOpenSuccesses + Cardinality(pending) + reused

IInv == TypeOK /\ ClosedBelowThreshold /\ TestsAccountedFor

-----------------------------------------------------------------------------

LEMMA WindowType ==
  ASSUME NEW success \in BOOLEAN, outcomes \in Seq(BOOLEAN), Recorded(success)
  PROVE  outcomes' \in Seq(BOOLEAN)
<1>1. PICK old \in 0..Len(outcomes) :
        outcomes' = Append(SubSeq(outcomes, old + 1, Len(outcomes)), success)
  BY DEF Recorded
<1>2. SubSeq(outcomes, old + 1, Len(outcomes)) \in Seq(BOOLEAN)
  OBVIOUS
<1> QED BY <1>1, <1>2

\* A new pending request adds one, unless its id was pending.
LEMMA PendingGrows ==
  ASSUME NEW id, IsFiniteSet(pending)
  PROVE  /\ IsFiniteSet(pending \cup {id})
         /\ Cardinality(pending) \in Nat
         /\ Cardinality(pending \cup {id}) \in Nat
         /\ Cardinality(pending \cup {id}) >= 1
         /\ id \notin pending => Cardinality(pending \cup {id}) = Cardinality(pending) + 1
<1>1. IsFiniteSet(pending \cup {id}) /\ Cardinality(pending) \in Nat
      /\ Cardinality(pending \cup {id}) \in Nat
  BY FS_AddElement, FS_CardinalityType
<1>2. Cardinality(pending \cup {id}) # 0
  BY <1>1, FS_EmptySet
<1>3. id \notin pending => Cardinality(pending \cup {id}) = Cardinality(pending) + 1
  BY FS_AddElement
<1> QED BY <1>1, <1>2, <1>3

LEMMA PendingShrinks ==
  ASSUME NEW id \in pending, IsFiniteSet(pending)
  PROVE  /\ IsFiniteSet(pending \ {id})
         /\ Cardinality(pending) \in Nat
         /\ Cardinality(pending \ {id}) = Cardinality(pending) - 1
BY FS_RemoveElement, FS_CardinalityType

-----------------------------------------------------------------------------

LEMMA InitInv == Init => IInv
BY CircuitAssumption, FS_EmptySet
   DEF Init, IInv, TypeOK, ClosedBelowThreshold, TestsAccountedFor

LEMMA RequestInv == ASSUME IInv, NEW id \in Ids, onRequest(id) PROVE IInv'
<1> USE DEF IInv, onRequest
<1>1. /\ IsFiniteSet(pending')
      /\ Cardinality(pending) \in Nat /\ Cardinality(pending') \in Nat
      /\ Cardinality(pending') >= 1
      /\ id \notin pending => Cardinality(pending') = Cardinality(pending) + 1
  BY PendingGrows DEF TestsAccountedFor
<1>2. CASE AdmitClosed
  BY <1>1, <1>2 DEF AdmitClosed, breaker, TypeOK, ClosedBelowThreshold, TestsAccountedFor
<1>3. CASE EnterHalfOpen
  BY <1>1, <1>3, CircuitAssumption
     DEF EnterHalfOpen, transitionState, TypeOK, ClosedBelowThreshold, TestsAccountedFor
<1>4. CASE AdmitTest(id)
  <2>1. Cardinality(pending') + reused' >= Cardinality(pending) + reused + 1 /\ reused' \in Nat
    <3>1. CASE id \in pending
      <4>1. pending' = pending /\ reused' = reused + 1
        BY <1>4, <3>1 DEF AdmitTest
      <4>2. Cardinality(pending') = Cardinality(pending)
        BY <4>1
      <4> HIDE DEF onRequest
      <4> QED BY <1>1, <4>1, <4>2 DEF TypeOK
    <3>2. CASE id \notin pending
      <4>1. reused' = reused + 0
        BY <1>4, <3>2 DEF AdmitTest
      <4> QED BY <1>1, <3>2, <4>1 DEF TypeOK
    <3> QED BY <3>1, <3>2
  <2> HIDE DEF onRequest
  <2>2. pending' \subseteq Ids /\ dispatching' = "request" /\ peer' = peer
    BY DEF onRequest, TypeOK
  <2>3. /\ state = "HALF_OPEN" /\ halfOpenRequests < HalfOpenMax
        /\ halfOpenRequests' = halfOpenRequests + 1 /\ tested' = tested + 1
        /\ UNCHANGED <<state, clock, outcomes, consecutive, halfOpenSuccesses>>
    BY <1>4 DEF AdmitTest
  <2>4. TypeOK' /\ ClosedBelowThreshold'
    BY <2>1, <2>2, <2>3, CircuitAssumption DEF TypeOK, ClosedBelowThreshold
  <2>5. TestsAccountedFor'
    <3>1. /\ tested = halfOpenRequests + 1 /\ halfOpenSuccesses < SuccessThreshold
          /\ halfOpenRequests + 1 <= halfOpenSuccesses + Cardinality(pending) + reused
          /\ halfOpenRequests \in Nat /\ halfOpenSuccesses \in Nat /\ reused \in Nat
      BY ONLY <2>3, TypeOK, TestsAccountedFor DEF TypeOK, TestsAccountedFor
    <3>2. halfOpenRequests' + 1 <= halfOpenSuccesses' + Cardinality(pending') + reused'
      BY ONLY <1>1, <2>1, <2>3, <3>1
    <3>3. /\ IsFiniteSet(pending') /\ tested' = halfOpenRequests' + 1
          /\ halfOpenSuccesses' < SuccessThreshold
      BY ONLY <1>1, <2>3, <3>1
    <3> QED BY ONLY <3>2, <3>3 DEF TestsAccountedFor
  <2> QED BY <2>4, <2>5
<1> QED BY <1>2, <1>3, <1>4

\* Recording a failure leaves no circuit half open, and a closed one only
\* below the threshold.
LEMMA FailureEffect ==
  ASSUME TypeOK, recordFailure
  PROVE  /\ outcomes' \in Seq(BOOLEAN)
         /\ consecutive' \in Nat
         /\ state' \in {"CLOSED", "OPEN"}
         /\ clock' \in {"running", "over"}
         /\ ClosedBelowThreshold'
<1>1. outcomes' \in Seq(BOOLEAN)
  BY WindowType DEF TypeOK, recordFailure
<1>2. consecutive \in Nat /\ consecutive' = consecutive + 1
  BY DEF TypeOK, recordFailure
<1>3. \/ state' = "OPEN" /\ clock' = "running"
      \/ state' = state /\ clock' = clock /\ state # "HALF_OPEN" /\ ~(state = "CLOSED" /\ TooManyFailures)
  BY DEF recordFailure, transitionState
<1>4. state' = "CLOSED" => consecutive' < FailureThreshold
  BY <1>2, <1>3, CircuitAssumption DEF TooManyFailures
<1> QED BY <1>1, <1>2, <1>3, <1>4 DEF TypeOK, ClosedBelowThreshold

LEMMA ResponseInv ==
  ASSUME IInv, NEW id \in Ids, NEW result, onResponse(id, result)
  PROVE  IInv'
<1> USE DEF IInv, onResponse
<1>1. CASE id \notin pending
  <2>1. pending' = pending
    BY <1>1
  <2> QED BY <1>1, <2>1 DEF breaker, TypeOK, ClosedBelowThreshold, TestsAccountedFor
<1>2. CASE id \in pending
  <2>1. /\ IsFiniteSet(pending') /\ Cardinality(pending) \in Nat
        /\ Cardinality(pending') = Cardinality(pending) - 1
    BY <1>2, PendingShrinks DEF TestsAccountedFor
  <2>2. CASE IsFailure(result)
    <3>1. recordFailure
      BY <1>2, <2>2
    <3> QED BY <2>1, <3>1, FailureEffect DEF recordFailure, TypeOK, TestsAccountedFor
  <2>3. CASE ~IsFailure(result)
    <3>1. recordSuccess
      BY <1>2, <2>3
    <3>2. outcomes' \in Seq(BOOLEAN)
      BY <3>1, WindowType DEF TypeOK, recordSuccess
    <3>3. CASE state = "HALF_OPEN"
      BY <2>1, <3>1, <3>2, <3>3, CircuitAssumption
         DEF recordSuccess, transitionState, TypeOK, ClosedBelowThreshold, TestsAccountedFor
    <3>4. CASE state # "HALF_OPEN"
      BY <2>1, <3>1, <3>2, <3>4, CircuitAssumption
         DEF recordSuccess, TypeOK, ClosedBelowThreshold, TestsAccountedFor
    <3> QED BY <3>3, <3>4
  <2> QED BY <2>2, <2>3
<1> QED BY <1>1, <1>2

LEMMA ProtocolErrorInv == ASSUME IInv, onProtocolError PROVE IInv'
<1> USE DEF IInv, onProtocolError
<1>1. CASE TrackErrors
  BY <1>1, FailureEffect DEF recordFailure, TypeOK, TestsAccountedFor
<1>2. CASE ~TrackErrors
  BY <1>2 DEF breaker, TypeOK, ClosedBelowThreshold, TestsAccountedFor
<1> QED BY <1>1, <1>2

\* The counters are in step whatever is called, in whatever order.
LEMMA StepInv == IInv /\ [Next]_vars => IInv'
<1> SUFFICES ASSUME IInv, [Next]_vars PROVE IInv'
  OBVIOUS
<1>1. ASSUME NEW id \in Ids, onRequest(id) PROVE IInv'
  BY <1>1, RequestInv
<1>2. ASSUME NEW id \in Ids, NEW result, onResponse(id, result) PROVE IInv'
  BY <1>2, ResponseInv
<1>3. CASE onProtocolError
  BY <1>3, ProtocolErrorInv
<1>4. CASE DispatchReturns
  BY <1>4 DEF DispatchReturns, breaker, IInv, TypeOK, ClosedBelowThreshold, TestsAccountedFor
<1>5. CASE TimeoutExpires
  BY <1>5 DEF TimeoutExpires, IInv, TypeOK, ClosedBelowThreshold, TestsAccountedFor
<1>6. CASE PeerRecovers
  BY <1>6 DEF PeerRecovers, breaker, IInv, TypeOK, ClosedBelowThreshold, TestsAccountedFor
<1>7. CASE UNCHANGED vars
  BY <1>7 DEF vars, breaker, IInv, TypeOK, ClosedBelowThreshold, TestsAccountedFor
<1> QED BY <1>1, <1>2, <1>3, <1>4, <1>5, <1>6, <1>7 DEF Next

LEMMA Invariant == Spec => []IInv
BY InitInv, StepInv, PTL DEF Spec

\* The state is always of its type (CircuitBreakerFilter's members).
THEOREM TypeCorrect == Spec => []TypeOK
<1>1. IInv => TypeOK
  BY DEF IInv
<1> QED BY <1>1, Invariant, PTL

\* No closed circuit has reached its failure threshold (recordFailure and
\* recordSuccess keep consecutive_failures_ and state_ in step).
THEOREM ClosedCorrect == Spec => []ClosedBelowThreshold
<1>1. IInv => ClosedBelowThreshold
  BY DEF IInv
<1> QED BY <1>1, Invariant, PTL

\* How far the code is from its comment's "Max requests in half-open state": the
\* request that makes the circuit half open is let through as well (allowRequest),
\* and never more than that one, for any thresholds.
THEOREM TestsCorrect == Spec => []TestsBounded
<1>1. IInv => TestsBounded
  BY CircuitAssumption DEF IInv, TypeOK, TestsAccountedFor, TestsBounded
<1> QED BY <1>1, Invariant, PTL

\* A half-open circuit always has a test to let through or an answer to wait
\* for, if the tests can reach the success threshold at all.
THEOREM NeverStuck == Spec => []NotStuck
<1>1. IInv => NotStuck
  <2> SUFFICES ASSUME IInv, state = "HALF_OPEN", reused = 0, pending = {}
               PROVE  halfOpenRequests < HalfOpenMax
    BY DEF NotStuck
  <2>1. Cardinality(pending) = 0
    BY FS_EmptySet
  <2> QED BY <2>1, CircuitAssumption DEF IInv, TypeOK, TestsAccountedFor
<1> QED BY <1>1, Invariant, PTL

\* The counts are those of the state the circuit is in, for any thresholds and any
\* number of ids: a closed circuit is below its failure threshold, a half-open one
\* below its success threshold (recordFailure, recordSuccess, allowRequest).
THEOREM CountsCorrect == Spec => []CountsBounded
<1>1. IInv => CountsBounded
  BY DEF IInv, TestsAccountedFor, CountsBounded, HalfOpenBelowThreshold
<1> QED BY <1>1, Invariant, PTL

-----------------------------------------------------------------------------
(* LegacySseClient: first, what its recursive function computes.           *)

\* A set of numbers with something in it has a least one.
LEMMA LeastNumber ==
  ASSUME NEW T, T \subseteq Nat, T # {}
  PROVE  \E x \in T : \A y \in T : x <= y
<1>1. \E x \in T : \A y \in T : ~ (<<y, x>> \in OpToRel(<, Nat))
  BY WFMin, NatLessThanWellFounded
<1>2. PICK x \in T : \A y \in T : ~ (<<y, x>> \in OpToRel(<, Nat))
  BY <1>1
<1>3. \A y \in T : ~(y < x)
  BY <1>2 DEF OpToRel
<1> QED BY <1>3

\* What a recursive function computes step by step: if every step g leads from
\* the good states G[n - 1] to good ones, then there is a function that takes
\* them, and it is always among the good.
GoodSteps(N, S, G, g, base) ==
  /\ N \in Nat /\ base \in G[0] /\ \A n \in 0..N : G[n] \subseteq S
  /\ \A n \in 1..N : \A x \in G[n - 1] : g[<<n, x>>] \in G[n]

LEMMA StepByStep ==
  ASSUME NEW N, NEW S, NEW G, NEW g, NEW base, GoodSteps(N, S, G, g, base)
  PROVE  \E f \in [0..N -> S] :
           /\ f[0] = base /\ \A n \in 1..N : f[n] = g[<<n, f[n - 1]>>]
           /\ \A n \in 0..N : f[n] \in G[n]
<1> USE DEF GoodSteps
<1> DEFINE Takes(f, k) == /\ f[0] = base /\ \A n \in 1..k : f[n] = g[<<n, f[n - 1]>>]
                          /\ \A n \in 0..k : f[n] \in G[n]
           Bad == {k \in 0..N : ~ \E f \in [0..k -> S] : Takes(f, k)}
<1>1. SUFFICES ASSUME Bad # {} PROVE FALSE
  <2>1. N \in 0..N
    OBVIOUS
  <2>2. \E f \in [0..N -> S] : Takes(f, N)
    BY <2>1, <1>1
  <2> QED BY <2>2
<1>2. Bad \subseteq Nat
  OBVIOUS
<1>3. PICK k \in Bad : \A j \in Bad : k <= j
  <2> HIDE DEF Bad
  <2> QED BY <1>1, <1>2, LeastNumber
<1>4. k # 0
  <2> DEFINE f == [n \in 0..0 |-> base]
  <2>1. f \in [0..0 -> S] /\ Takes(f, 0)
    OBVIOUS
  <2> QED BY <2>1
<1>5. k - 1 \in 0..N /\ k - 1 \notin Bad /\ k \in 1..N
  BY <1>3, <1>4
<1>6. PICK h \in [0..(k - 1) -> S] : Takes(h, k - 1)
  BY <1>5
<1> DEFINE f == [n \in 0..k |-> IF n = k THEN g[<<k, h[k - 1]>>] ELSE h[n]]
<1>7. g[<<k, h[k - 1]>>] \in G[k] /\ h[k - 1] \in G[k - 1]
  BY <1>5, <1>6
<1>8. \A n \in 0..(k - 1) : f[n] = h[n]
  BY <1>5
<1>9. f[k] = g[<<k, h[k - 1]>>] /\ k - 1 \in 0..(k - 1) /\ 0 \in 0..(k - 1)
  BY <1>5
<1>10. \A n \in 0..k : f[n] \in G[n]
  <2> SUFFICES ASSUME NEW n \in 0..k PROVE f[n] \in G[n]
    OBVIOUS
  <2>1. CASE n = k
    BY <2>1, <1>7
  <2>2. CASE n # k
    BY <2>2, <1>5, <1>6
  <2> QED BY <2>1, <2>2
<1>11. \A n \in 1..k : f[n] = g[<<n, f[n - 1]>>]
  <2> SUFFICES ASSUME NEW n \in 1..k PROVE f[n] = g[<<n, f[n - 1]>>]
    OBVIOUS
  <2>1. CASE n = k
    <3> HIDE DEF f
    <3> QED BY <2>1, <1>8, <1>9
  <2>2. CASE n # k
    <3>1. n \in 1..(k - 1) /\ n \in 0..(k - 1) /\ n - 1 \in 0..(k - 1)
      BY <2>2, <1>5
    <3> HIDE DEF f
    <3> QED BY <3>1, <1>6, <1>8
  <2> QED BY <2>1, <2>2
<1>12. f \in [0..k -> S]
  BY <1>5, <1>10
<1>13. Takes(f, k)
  <2> HIDE DEF f
  <2> QED BY <1>6, <1>8, <1>9, <1>10, <1>11
<1> QED BY <1>3, <1>12, <1>13

\* A function that is right to begin with and stays so at every step is right
\* all along.
LEMMA StaysGood ==
  ASSUME NEW N \in Nat, NEW G, NEW f, f[0] \in G[0],
         \A n \in 1..N : f[n - 1] \in G[n - 1] => f[n] \in G[n]
  PROVE  \A n \in 0..N : f[n] \in G[n]
<1> DEFINE Bad == {n \in 0..N : f[n] \notin G[n]}
<1>1. SUFFICES ASSUME Bad # {} PROVE FALSE
  OBVIOUS
<1>2. Bad \subseteq Nat
  OBVIOUS
<1>3. PICK k \in Bad : \A j \in Bad : k <= j
  <2> HIDE DEF Bad
  <2> QED BY <1>1, <1>2, LeastNumber
<1>4. k # 0 /\ k \in 1..N
  BY <1>3
<1>5. k - 1 \in 0..N /\ k - 1 \notin Bad
  BY <1>3, <1>4
<1> QED BY <1>3, <1>4, <1>5
-----------------------------------------------------------------------------
Posting == [post : Messages \cup {NoMessage}, fate : [Messages -> Fates]]
Sent == {"handed", "arrived", "failed", "displaced"}

\* After the first n of ms were handed over: those have been sent, the others
\* are what they were, but for the one that was displaced.
HandedOverTo(ms, n) ==
  {s \in Posting : \A k \in Messages :
     /\ s.fate[k] = "handed" <=> k = s.post
     /\ (\E i \in 1..n : ms[i] = k) => s.fate[k] \in Sent
     /\ ~(\E i \in 1..n : ms[i] = k) =>
          s.fate[k] = fate[k] \/ (fate[k] = "handed" /\ s.fate[k] = "displaced")}

Distinct(q) == \A i, j \in DOMAIN q : q[i] = q[j] => i = j

LEMMA PostsOne ==
  ASSUME NEW ms \in Seq(Messages), Distinct(ms), NEW how \in Outcomes, NEW n \in 1..Len(ms),
         \A i \in 1..Len(ms) : fate[ms[i]] \in {"written", "queued"},
         NEW s \in HandedOverTo(ms, n - 1)
  PROVE  sendHttpPost(s, ms[n], how[ms[n]]) \in HandedOverTo(ms, n)
<1> DEFINE m == ms[n]
           t == sendHttpPost(s, m, how[m])
<1>1. s \in Posting /\ m \in Messages /\ n \in DOMAIN ms
  BY DEF HandedOverTo
<1>2. ~ \E i \in 1..(n - 1) : ms[i] = m
  BY DEF Distinct
<1>3. s.fate[m] = fate[m] /\ m # s.post /\ m # NoMessage
  BY <1>1, <1>2 DEF HandedOverTo, NoMessage, Messages
<1>4. \A k \in Messages : (\E i \in 1..n : ms[i] = k) <=> (k = m \/ \E i \in 1..(n - 1) : ms[i] = k)
  OBVIOUS
<1>5. how[m] \in {"refused", "connecting", "connected"}
  BY <1>1 DEF Outcomes
<1>6. t \in Posting
  BY <1>1, <1>5 DEF sendHttpPost, Posting, Fates
<1>7. ASSUME NEW k \in Messages
      PROVE  /\ t.fate[k] = "handed" <=> k = t.post
             /\ k = m => t.fate[k] \in Sent
             /\ k # m => t.fate[k] = s.fate[k] \/ (s.fate[k] = "handed" /\ t.fate[k] = "displaced")
  <2>1. s.fate[k] = "handed" <=> k = s.post
    BY DEF HandedOverTo
  <2>2. k # NoMessage
    BY DEF NoMessage, Messages
  <2> QED BY <1>1, <1>3, <1>5, <2>1, <2>2 DEF sendHttpPost, Sent, Posting
<1>8. \A k \in Messages :
        /\ (\E i \in 1..(n - 1) : ms[i] = k) => s.fate[k] \in Sent
        /\ ~(\E i \in 1..(n - 1) : ms[i] = k) =>
             s.fate[k] = fate[k] \/ (fate[k] = "handed" /\ s.fate[k] = "displaced")
  BY DEF HandedOverTo
<1>9. t \in HandedOverTo(ms, n)
  <2> HIDE DEF t, m
  <2>1. ASSUME NEW k \in Messages
        PROVE  /\ t.fate[k] = "handed" <=> k = t.post
               /\ (\E i \in 1..n : ms[i] = k) => t.fate[k] \in Sent
               /\ ~(\E i \in 1..n : ms[i] = k) =>
                    t.fate[k] = fate[k] \/ (fate[k] = "handed" /\ t.fate[k] = "displaced")
    <3>1. CASE k = m
      BY <1>4, <1>7, <3>1
    <3>2. CASE k # m
      <4>1. t.fate[k] = s.fate[k] \/ (s.fate[k] = "handed" /\ t.fate[k] = "displaced")
        BY <1>7, <3>2
      <4>2. (\E i \in 1..n : ms[i] = k) <=> \E i \in 1..(n - 1) : ms[i] = k
        BY <1>4, <3>2
      <4>3. s.fate[k] \in Sent => t.fate[k] \in Sent
        BY <4>1 DEF Sent
      <4> QED BY <1>7, <1>8, <4>1, <4>2, <4>3
    <3> QED BY <3>1, <3>2
  <2> QED BY <1>6, <2>1 DEF HandedOverTo
<1> QED BY <1>9

LEMMA PostsAll ==
  ASSUME NEW ms \in Seq(Messages), Distinct(ms), NEW how \in Outcomes,
         \A i \in 1..Len(ms) : fate[ms[i]] \in {"written", "queued"},
         net.post \in Messages \cup {NoMessage}, fate \in [Messages -> Fates],
         \A k \in Messages : fate[k] = "handed" <=> k = net.post
  PROVE  AfterPosts(ms, how) \in HandedOverTo(ms, Len(ms))
<1> DEFINE base == [post |-> net.post, fate |-> fate]
           s[n \in 0..Len(ms)] ==
             IF n = 0 THEN base ELSE sendHttpPost(s[n - 1], ms[n], how[ms[n]])
           N == Len(ms)
           G == [n \in 0..N |-> HandedOverTo(ms, n)]
           g == [p \in (1..N) \X Posting |-> sendHttpPost(p[2], ms[p[1]], how[ms[p[1]]])]
<1>1. AfterPosts(ms, how) = s[N]
  BY DEF AfterPosts
<1>2. N \in Nat
  OBVIOUS
<1>3. base \in G[0]
  BY DEF HandedOverTo, Posting
<1>4. \A n \in 1..N : \A x \in G[n - 1] : sendHttpPost(x, ms[n], how[ms[n]]) \in G[n]
  BY PostsOne
<1>5. \A n \in 1..N : \A x \in G[n - 1] : g[<<n, x>>] = sendHttpPost(x, ms[n], how[ms[n]])
  BY DEF HandedOverTo
<1>6. \A n \in 1..N : \A x \in G[n - 1] : g[<<n, x>>] \in G[n]
  <2> HIDE DEF N, G, g
  <2> QED BY <1>4, <1>5
<1>7. PICK f \in [0..N -> Posting] :
        /\ f[0] = base /\ \A n \in 1..N : f[n] = g[<<n, f[n - 1]>>]
        /\ \A n \in 0..N : f[n] \in G[n]
  <2>1. \A n \in 0..N : G[n] \subseteq Posting
    BY DEF HandedOverTo
  <2> HIDE DEF N, G, g, base, s
  <2>2. GoodSteps(N, Posting, G, g, base)
    BY <1>2, <1>3, <1>6, <2>1 DEF GoodSteps
  <2> QED BY <2>2, StepByStep
<1>8. \A n \in 0..N : n # 0 => n \in 1..N /\ f[n] = sendHttpPost(f[n - 1], ms[n], how[ms[n]])
  <2> HIDE DEF G, g, base, N
  <2>1. \A n \in 0..N : n # 0 => n \in 1..N /\ n - 1 \in 0..N
    BY <1>2
  <2> QED BY <1>5, <1>7, <2>1
<1>9. f = [n \in 0..N |-> IF n = 0 THEN base ELSE sendHttpPost(f[n - 1], ms[n], how[ms[n]])]
  <2> HIDE DEF G, g, base, N
  <2> QED BY <1>2, <1>7, <1>8
<1>10. s = [n \in 0..N |-> IF n = 0 THEN base ELSE sendHttpPost(s[n - 1], ms[n], how[ms[n]])]
  <2> HIDE DEF base
  <2> QED BY <1>9
<1>11. s[0] \in G[0] /\ \A n \in 1..N : s[n - 1] \in G[n - 1] => s[n] \in G[n]
  <2> HIDE DEF G, s
  <2>1. s[0] = base
    BY <1>2, <1>10
  <2>2. \A n \in 1..N : s[n] = sendHttpPost(s[n - 1], ms[n], how[ms[n]])
    BY <1>2, <1>10
  <2> QED BY <1>3, <1>4, <2>1, <2>2
<1>12. \A n \in 0..N : s[n] \in G[n]
  <2> HIDE DEF G, s, N
  <2> QED BY <1>2, <1>11, StaysGood
<1>13. N \in 0..N
  BY <1>2
<1>14. s[N] \in G[N]
  <2> HIDE DEF G, s, N
  <2> QED BY <1>12, <1>13
<1>15. G[N] = HandedOverTo(ms, Len(ms))
  BY <1>13
<1> HIDE DEF s, G, N
<1> QED BY <1>1, <1>14, <1>15
-----------------------------------------------------------------------------
Tasks == {Nudge, FlushTask} \cup {WriteTask(m) : m \in Messages}

\* The range of every variable.  The endpoint is never received before the
\* stream has started, so one state of the machine is not reached.
Typed ==
  /\ filter \in [sm : States \ {"EndpointReceived"}, timer : BOOLEAN, reading : BOOLEAN,
                 endpoint : BOOLEAN, queue : Seq(Messages)]
  /\ posted \in Seq(Tasks)
  /\ net \in [stream : {"connecting", "open", "closed"},
              server : {"idle", "asked", "stream", "refusal"},
              wire : Seq({"stream", "refusal", "endpoint"}), announced : Nat,
              post : Messages \cup {NoMessage}]
  /\ fate \in [Messages -> Fates]
  /\ heard \subseteq {"error", "closed"}
  /\ handed \in Seq(Messages)

\* What the machine has got to, by what the server was asked and has said.
Negotiated ==
  /\ net.stream = "connecting" => filter.sm = "Idle"
  /\ net.wire # <<>> => net.server # "idle"
  /\ net.server # "idle" => filter.sm \in {"WaitingForEndpoint", "Active", "Error"}
  /\ filter.reading => filter.sm \in {"Active", "Error"}
  /\ filter.endpoint => filter.reading
  /\ filter.timer <=> net.stream = "open" /\ filter.sm = "WaitingForEndpoint"

\* A message is written by one task, waits in one place, and what was handed
\* over neither waits nor will be written.
Apart ==
  /\ \A i, j \in DOMAIN posted : posted[i] = posted[j] /\ posted[i].task = "write" => i = j
  /\ Distinct(filter.queue) /\ Distinct(handed)
  /\ \A i \in DOMAIN handed : fate[handed[i]] \notin {"unwritten", "written", "queued"}

LegacyInv == Typed /\ Negotiated /\ Apart /\ InOnePlace /\ QueueHasAWayOut

\* It holds at first.
LEMMA LegacyInitInv == LegacyInit => LegacyInv
<1> SUFFICES ASSUME LegacyInit PROVE LegacyInv
  OBVIOUS
<1> USE DEF LegacyInit
<1>1. Typed
  BY DEF Typed, States, Fates, Tasks, NoMessage
<1>2. Negotiated
  BY DEF Negotiated
<1>3. Apart
  BY DEF Apart, Distinct
<1>4. InOnePlace
  BY DEF InOnePlace, ToSet, Messages, NoMessage
<1>5. QueueHasAWayOut
  BY DEF QueueHasAWayOut
<1> QED BY <1>1, <1>2, <1>3, <1>4, <1>5 DEF LegacyInv

\* What the machine does with an event.
LEMMA HandleEventIs ==
  ASSUME NEW f, NEW e
  PROVE  handleEvent(f, e) =
           IF f.sm = "Idle" /\ e = "ConnectionReady" THEN enterState(f, "WaitingForGetSent")
           ELSE IF f.sm = "WaitingForGetSent" /\ e = "GetSent" THEN enterState(f, "WaitingForEndpoint")
           ELSE IF f.sm = "WaitingForEndpoint" /\ e = "EndpointReceived" THEN enterState(f, "EndpointReceived")
           ELSE IF f.sm = "WaitingForEndpoint" /\ e = "StreamStarted" THEN enterState(f, "Active")
           ELSE IF f.sm = "WaitingForEndpoint" /\ e = "NegotiationTimeout" THEN enterState(f, "Error")
           ELSE IF f.sm = "EndpointReceived" /\ e = "StreamStarted" THEN enterState(f, "Active")
           ELSE f
<1> DEFINE To == {t[3] : t \in {v \in valid_transitions : v[1] = f.sm /\ v[2] = e}}
<1>1. handleEvent(f, e) = IF To = {} THEN f ELSE enterState(f, CHOOSE to \in To : TRUE)
  BY DEF handleEvent
<1>2. To = (IF f.sm = "Idle" /\ e = "ConnectionReady" THEN {"WaitingForGetSent"}
           ELSE IF f.sm = "WaitingForGetSent" /\ e = "GetSent" THEN {"WaitingForEndpoint"}
           ELSE IF f.sm = "WaitingForEndpoint" /\ e = "EndpointReceived" THEN {"EndpointReceived"}
           ELSE IF f.sm = "WaitingForEndpoint" /\ e = "StreamStarted" THEN {"Active"}
           ELSE IF f.sm = "WaitingForEndpoint" /\ e = "NegotiationTimeout" THEN {"Error"}
           ELSE IF f.sm = "EndpointReceived" /\ e = "StreamStarted" THEN {"Active"}
           ELSE {})
  <2>1. \A to : to \in To <=> \E v \in valid_transitions : v[1] = f.sm /\ v[2] = e /\ v[3] = to
    OBVIOUS
  <2>2. \A to : to \in To <=>
          \/ f.sm = "Idle" /\ e = "ConnectionReady" /\ to = "WaitingForGetSent"
          \/ f.sm = "WaitingForGetSent" /\ e = "GetSent" /\ to = "WaitingForEndpoint"
          \/ f.sm = "WaitingForEndpoint" /\ e = "EndpointReceived" /\ to = "EndpointReceived"
          \/ f.sm = "WaitingForEndpoint" /\ e = "StreamStarted" /\ to = "Active"
          \/ f.sm = "WaitingForEndpoint" /\ e = "NegotiationTimeout" /\ to = "Error"
          \/ f.sm = "EndpointReceived" /\ e = "StreamStarted" /\ to = "Active"
    <3> HIDE DEF To
    <3> QED BY <2>1 DEF valid_transitions
  <2> HIDE DEF To
  <2> QED BY <2>2
<1>3. \A to : (CHOOSE x \in {to} : TRUE) = to
  OBVIOUS
<1> HIDE DEF To
<1> QED BY <1>1, <1>2, <1>3
-----------------------------------------------------------------------------
LEMMA AppendedSet ==
  ASSUME NEW S, NEW q \in Seq(S), NEW x \in S
  PROVE  /\ Append(q, x) \in Seq(S) /\ ToSet(Append(q, x)) = ToSet(q) \cup {x}
         /\ Distinct(q) /\ x \notin ToSet(q) => Distinct(Append(q, x))
<1>1. Append(q, x) \in Seq(S) /\ Len(Append(q, x)) = Len(q) + 1
  OBVIOUS
<1>2. \A i \in 1..(Len(q) + 1) : Append(q, x)[i] = IF i = Len(q) + 1 THEN x ELSE q[i]
  OBVIOUS
<1>3. ToSet(Append(q, x)) = ToSet(q) \cup {x}
  BY <1>1, <1>2 DEF ToSet
<1>4. ASSUME Distinct(q), x \notin ToSet(q)
      PROVE  Distinct(Append(q, x))
  <2> SUFFICES ASSUME NEW i \in 1..(Len(q) + 1), NEW j \in 1..(Len(q) + 1),
                      Append(q, x)[i] = Append(q, x)[j]
               PROVE  i = j
    BY <1>1 DEF Distinct
  <2>1. \A k \in 1..Len(q) : q[k] # x
    BY <1>4 DEF ToSet
  <2>2. (i = Len(q) + 1 \/ i \in 1..Len(q)) /\ (j = Len(q) + 1 \/ j \in 1..Len(q))
    OBVIOUS
  <2> QED BY <1>2, <1>4, <2>1, <2>2 DEF Distinct
<1> QED BY <1>1, <1>3, <1>4

LEMMA TailSet ==
  ASSUME NEW S, NEW q \in Seq(S), q # <<>>
  PROVE  /\ Head(q) \in S /\ Tail(q) \in Seq(S) /\ Len(Tail(q)) = Len(q) - 1
         /\ \A i \in 1..(Len(q) - 1) : Tail(q)[i] = q[i + 1]
         /\ ToSet(q) = ToSet(Tail(q)) \cup {Head(q)}
<1>1. Head(q) \in S /\ Tail(q) \in Seq(S) /\ Len(Tail(q)) = Len(q) - 1 /\ Len(q) \in Nat /\ Len(q) >= 1
      /\ \A i \in 1..(Len(q) - 1) : Tail(q)[i] = q[i + 1]
  OBVIOUS
<1>2. ASSUME NEW x \in ToSet(q) PROVE x \in ToSet(Tail(q)) \cup {Head(q)}
  <2>1. PICK i \in 1..Len(q) : q[i] = x
    BY DEF ToSet
  <2>2. CASE i = 1
    BY <2>1, <2>2
  <2>3. CASE i # 1
    <3>1. i - 1 \in 1..(Len(q) - 1) /\ i - 1 + 1 = i
      BY <2>3, <1>1
    <3>2. Tail(q)[i - 1] = x
      BY <1>1, <2>1, <3>1
    <3>3. DOMAIN Tail(q) = 1..(Len(q) - 1)
      BY <1>1
    <3>4. Tail(q)[i - 1] \in ToSet(Tail(q))
      BY <3>1, <3>3 DEF ToSet
    <3> QED BY <3>2, <3>4
  <2> QED BY <2>2, <2>3
<1>3. ToSet(Tail(q)) \subseteq ToSet(q)
  <2> SUFFICES ASSUME NEW i \in 1..(Len(q) - 1) PROVE Tail(q)[i] \in ToSet(q)
    BY <1>1 DEF ToSet
  <2> QED BY <1>1 DEF ToSet
<1>4. Head(q) \in ToSet(q)
  BY <1>1 DEF ToSet
<1> QED BY <1>1, <1>2, <1>3, <1>4

\* The task that runs is gone from the queue; no other writes its message.
LEMMA TaskTaken ==
  ASSUME LegacyInv, posted # <<>>
  PROVE  /\ Head(posted) \in Tasks /\ Tail(posted) \in Seq(Tasks)
         /\ ToSet(posted) = ToSet(Tail(posted)) \cup {Head(posted)}
         /\ Head(posted).task = "write" => Head(posted) \notin ToSet(Tail(posted))
         /\ \A i, j \in DOMAIN Tail(posted) :
              Tail(posted)[i] = Tail(posted)[j] /\ Tail(posted)[i].task = "write" => i = j
<1>1. posted \in Seq(Tasks)
  BY DEF LegacyInv, Typed
<1>2. /\ Head(posted) \in Tasks /\ Tail(posted) \in Seq(Tasks) /\ Len(Tail(posted)) = Len(posted) - 1
      /\ \A i \in 1..(Len(posted) - 1) : Tail(posted)[i] = posted[i + 1]
      /\ ToSet(posted) = ToSet(Tail(posted)) \cup {Head(posted)}
  BY <1>1, TailSet
<1>3. \A i, j \in 1..Len(posted) : posted[i] = posted[j] /\ posted[i].task = "write" => i = j
  BY <1>1 DEF LegacyInv, Apart
<1>4. Head(posted) = posted[1] /\ Len(posted) >= 1 /\ Len(posted) \in Nat
  BY <1>1
<1>5. ASSUME Head(posted).task = "write" PROVE Head(posted) \notin ToSet(Tail(posted))
  <2> SUFFICES ASSUME NEW i \in 1..(Len(posted) - 1), Tail(posted)[i] = Head(posted) PROVE FALSE
    BY <1>2 DEF ToSet
  <2>1. i + 1 \in 1..Len(posted) /\ 1 \in 1..Len(posted) /\ i + 1 # 1
    BY <1>4
  <2> QED BY <1>2, <1>3, <1>4, <1>5, <2>1
<1>6. ASSUME NEW i \in 1..(Len(posted) - 1), NEW j \in 1..(Len(posted) - 1),
             Tail(posted)[i] = Tail(posted)[j], Tail(posted)[i].task = "write"
      PROVE  i = j
  <2>1. i + 1 \in 1..Len(posted) /\ j + 1 \in 1..Len(posted)
    BY <1>4
  <2>2. posted[i + 1] = posted[j + 1] /\ posted[i + 1].task = "write"
    BY <1>2, <1>6
  <2>3. i + 1 = j + 1
    BY <1>3, <2>1, <2>2
  <2> QED BY <2>3
<1>7. DOMAIN Tail(posted) = 1..(Len(posted) - 1)
  BY <1>2
<1> QED BY <1>2, <1>5, <1>6, <1>7

\* A task is for the flush, or it writes one message, or asks for the stream.
LEMMA TaskKinds ==
  /\ \A m \in Messages : /\ WriteTask(m) \in Tasks /\ WriteTask(m) # Nudge /\ WriteTask(m) # FlushTask
                          /\ WriteTask(m).task = "write" /\ WriteTask(m).msg = m /\ m # NoMessage
  /\ \A t \in Tasks : t.task # "flush" =>
       (t = Nudge /\ t.msg = NoMessage) \/ (t.msg \in Messages /\ t = WriteTask(t.msg))
  /\ \A t \in Tasks : t.task = "flush" => t = FlushTask
  /\ Nudge.task # "write" /\ FlushTask.task # "write" /\ FlushTask.task = "flush"
<1>1. \A m \in Messages : /\ WriteTask(m) \in Tasks /\ WriteTask(m) # Nudge /\ WriteTask(m) # FlushTask
                          /\ WriteTask(m).task = "write" /\ WriteTask(m).msg = m /\ m # NoMessage
  <2> SUFFICES ASSUME NEW m \in Messages
               PROVE  /\ WriteTask(m) \in Tasks /\ WriteTask(m) # Nudge /\ WriteTask(m) # FlushTask
                      /\ WriteTask(m).task = "write" /\ WriteTask(m).msg = m /\ m # NoMessage
    OBVIOUS
  <2>1. WriteTask(m).task = "write" /\ WriteTask(m).msg = m
    BY DEF WriteTask
  <2>2. Nudge.task = "nudge" /\ FlushTask.task = "flush"
    BY DEF Nudge, FlushTask
  <2>3. m # NoMessage
    BY DEF Messages, NoMessage
  <2>4. WriteTask(m) \in Tasks
    BY ONLY DEF Tasks
  <2> QED BY ONLY <2>1, <2>2, <2>3, <2>4
<1>2. Nudge.task # "write" /\ FlushTask.task # "write" /\ FlushTask.task = "flush" /\ Nudge.task # "flush"
      /\ Nudge.msg = NoMessage
  BY DEF Nudge, FlushTask
<1>3. ASSUME NEW t \in Tasks
      PROVE  t = Nudge \/ t = FlushTask \/ \E m \in Messages : t = WriteTask(m)
  BY DEF Tasks
<1> QED BY <1>1, <1>2, <1>3

\* What becomes of the message of a task that runs, and of the others.
Settles(m, what) ==
  /\ posted # <<>> /\ posted' = Tail(posted) /\ Head(posted).task # "flush" /\ m = Head(posted).msg
  /\ fate' = Became(m, what) /\ handed' = handed /\ net'.post = net.post

LEMMA OthersStay ==
  ASSUME LegacyInv, NEW m, NEW what \in Fates \ {"written", "handed"}, Settles(m, what)
  PROVE  /\ m \in Messages \cup {NoMessage} /\ fate' \in [Messages -> Fates]
         /\ m \in Messages => fate[m] = "written" /\ fate'[m] = what
         /\ \A k \in Messages : k # m => fate'[k] = fate[k]
         /\ \A k \in Messages : (fate'[k] = "written") <=> (WriteTask(k) \in ToSet(posted'))
         /\ \A k \in Messages : (fate'[k] = "handed") <=> (k = net'.post)
<1>1. fate \in [Messages -> Fates]
  BY DEF LegacyInv, Typed
<1>2. /\ Head(posted) \in Tasks
      /\ ToSet(posted) = ToSet(Tail(posted)) \cup {Head(posted)}
      /\ Head(posted).task = "write" => Head(posted) \notin ToSet(Tail(posted))
  BY TaskTaken DEF Settles
<1>3. (Head(posted) = Nudge /\ m = NoMessage) \/ (m \in Messages /\ Head(posted) = WriteTask(m) /\ m # NoMessage)
  BY <1>2, TaskKinds DEF Settles
<1>4. \A k \in Messages : /\ (fate[k] = "written") <=> (WriteTask(k) \in ToSet(posted))
                          /\ (fate[k] = "handed") <=> (k = net.post)
  BY DEF LegacyInv, InOnePlace
<1>5. fate' = IF m = NoMessage THEN fate ELSE [fate EXCEPT ![m] = what]
  BY DEF Settles, Became
<1>6. \A k \in Messages : k # m => fate'[k] = fate[k]
  BY <1>1, <1>5
<1>7. m \in Messages => fate[m] = "written" /\ fate'[m] = what /\ WriteTask(m) \notin ToSet(Tail(posted))
  BY <1>1, <1>2, <1>3, <1>4, <1>5, TaskKinds
<1>8. \A k \in Messages : k # m => (WriteTask(k) \in ToSet(posted) <=> WriteTask(k) \in ToSet(Tail(posted)))
  BY <1>2, <1>3, TaskKinds
<1>9. posted' = Tail(posted) /\ net'.post = net.post
  BY DEF Settles
<1>10. fate' \in [Messages -> Fates]
  BY <1>1, <1>3, <1>5
<1>11. ASSUME NEW k \in Messages
       PROVE  /\ (fate'[k] = "written") <=> (WriteTask(k) \in ToSet(posted'))
              /\ (fate'[k] = "handed") <=> (k = net'.post)
  <2>1. CASE k = m
    BY <1>4, <1>7, <1>9, <2>1
  <2>2. CASE k # m
    BY <1>4, <1>6, <1>8, <1>9, <2>2
  <2> QED BY <2>1, <2>2
<1> QED BY <1>3, <1>6, <1>7, <1>10, <1>11

\* It waits: with a message or without.
LEMMA Waits ==
  ASSUME LegacyInv, NEW m, Settles(m, "queued"),
         filter'.queue = IF m = NoMessage THEN filter.queue ELSE Append(filter.queue, m)
  PROVE  Apart' /\ InOnePlace' /\ filter'.queue \in Seq(Messages) /\ fate' \in [Messages -> Fates]
<1>1. /\ m \in Messages \cup {NoMessage} /\ fate' \in [Messages -> Fates]
      /\ m \in Messages => fate[m] = "written" /\ fate'[m] = "queued"
      /\ \A k \in Messages : k # m => fate'[k] = fate[k]
      /\ \A k \in Messages : (fate'[k] = "written") <=> (WriteTask(k) \in ToSet(posted'))
      /\ \A k \in Messages : (fate'[k] = "handed") <=> (k = net'.post)
  BY OthersStay DEF Fates
<1>2. filter.queue \in Seq(Messages) /\ NoMessage \notin Messages /\ handed \in Seq(Messages)
  BY DEF LegacyInv, Typed, NoMessage, Messages
<1>3. \A k \in Messages : (fate[k] = "queued") <=> (k \in ToSet(filter.queue))
  BY DEF LegacyInv, InOnePlace
<1>4. /\ filter'.queue \in Seq(Messages)
      /\ ToSet(filter'.queue) = ToSet(filter.queue) \cup (IF m = NoMessage THEN {} ELSE {m})
      /\ Distinct(filter.queue) /\ m \notin ToSet(filter.queue) => Distinct(filter'.queue)
  BY <1>1, <1>2, AppendedSet
<1>5. m \notin ToSet(filter.queue)
  BY <1>1, <1>2, <1>3 DEF ToSet
<1>6. \A k \in Messages : (fate'[k] = "queued") <=> (k \in ToSet(filter'.queue))
  BY <1>1, <1>2, <1>3, <1>4
<1>7. InOnePlace'
  BY <1>1, <1>6 DEF InOnePlace
<1>8. Distinct(filter'.queue) /\ Distinct(handed')
  BY <1>4, <1>5 DEF LegacyInv, Apart, Settles
<1>9. \A i \in DOMAIN handed : fate[handed[i]] \notin {"unwritten", "written", "queued"} /\ handed[i] \in Messages
  BY <1>2 DEF LegacyInv, Apart
<1>10. \A i \in DOMAIN handed' : fate'[handed'[i]] \notin {"unwritten", "written", "queued"}
  BY <1>1, <1>9 DEF Settles
<1>11. \A i, j \in DOMAIN posted' : posted'[i] = posted'[j] /\ posted'[i].task = "write" => i = j
  BY TaskTaken DEF Settles
<1> QED BY <1>1, <1>4, <1>7, <1>8, <1>10, <1>11 DEF Apart

\* It goes another way.
LEMMA LeavesUnqueued ==
  ASSUME LegacyInv, NEW m, NEW what \in {"plain", "gone"}, Settles(m, what),
         filter'.queue = filter.queue
  PROVE  Apart' /\ InOnePlace' /\ fate' \in [Messages -> Fates]
<1>1. /\ m \in Messages \cup {NoMessage} /\ fate' \in [Messages -> Fates]
      /\ m \in Messages => fate[m] = "written" /\ fate'[m] = what
      /\ \A k \in Messages : k # m => fate'[k] = fate[k]
      /\ \A k \in Messages : (fate'[k] = "written") <=> (WriteTask(k) \in ToSet(posted'))
      /\ \A k \in Messages : (fate'[k] = "handed") <=> (k = net'.post)
  BY OthersStay DEF Fates
<1>2. \A k \in Messages : (fate[k] = "queued") <=> (k \in ToSet(filter.queue))
  BY DEF LegacyInv, InOnePlace
<1>3. \A k \in Messages : (fate'[k] = "queued") <=> (k \in ToSet(filter'.queue))
  BY <1>1, <1>2
<1>4. handed \in Seq(Messages)
  BY DEF LegacyInv, Typed
<1>5. \A i \in DOMAIN handed : fate[handed[i]] \notin {"unwritten", "written", "queued"} /\ handed[i] \in Messages
  BY <1>4 DEF LegacyInv, Apart
<1>6. \A i \in DOMAIN handed' : fate'[handed'[i]] \notin {"unwritten", "written", "queued"}
  BY <1>1, <1>5 DEF Settles
<1>7. \A i, j \in DOMAIN posted' : posted'[i] = posted'[j] /\ posted'[i].task = "write" => i = j
  BY TaskTaken DEF Settles
<1>8. Distinct(filter'.queue) /\ Distinct(handed')
  BY DEF LegacyInv, Apart, Settles
<1> QED BY <1>1, <1>3, <1>6, <1>7, <1>8 DEF Apart, InOnePlace

\* Messages handed over: each has been sent, and is in the history once.
LEMMA HandsOver ==
  ASSUME LegacyInv, NEW ms \in Seq(Messages), Distinct(ms), NEW f, NEW how \in Outcomes,
         \A i \in 1..Len(ms) : fate[ms[i]] \in {"written", "queued"}, HandOver(ms, f, how)
  PROVE  /\ filter' = f /\ heard' = heard
         /\ \E p \in Messages \cup {NoMessage} : net' = [net EXCEPT !.post = p]
         /\ fate' \in [Messages -> Fates]
         /\ \A k \in Messages : (fate'[k] = "handed") <=> (k = net'.post)
         /\ \A k \in Messages : k \in ToSet(ms) => fate'[k] \in Sent
         /\ \A k \in Messages : k \notin ToSet(ms) =>
              fate'[k] = fate[k] \/ (fate[k] = "handed" /\ fate'[k] = "displaced")
         /\ handed' \in Seq(Messages) /\ Distinct(handed')
         /\ \A i \in DOMAIN handed' : fate'[handed'[i]] \notin {"unwritten", "written", "queued"}
<1>1. /\ net.post \in Messages \cup {NoMessage} /\ fate \in [Messages -> Fates]
      /\ handed \in Seq(Messages) /\ "post" \in DOMAIN net
  BY DEF LegacyInv, Typed
<1>2. \A k \in Messages : fate[k] = "handed" <=> k = net.post
  BY DEF LegacyInv, InOnePlace
<1> DEFINE s == AfterPosts(ms, how)
<1>3. s \in HandedOverTo(ms, Len(ms))
  BY <1>1, <1>2, PostsAll
<1>4. filter' = f /\ heard' = heard /\ net' = [net EXCEPT !.post = s.post] /\ fate' = s.fate
      /\ handed' = handed \o ms
  BY DEF HandOver
<1> HIDE DEF s
<1>5. s \in Posting
  BY <1>3 DEF HandedOverTo
<1>6. net'.post = s.post
  BY <1>1, <1>4
<1>7. \A k \in Messages : k \in ToSet(ms) <=> \E i \in 1..Len(ms) : ms[i] = k
  BY DEF ToSet
<1>8. \A k \in Messages :
        /\ s.fate[k] = "handed" <=> k = s.post
        /\ k \in ToSet(ms) => s.fate[k] \in Sent
        /\ k \notin ToSet(ms) =>
             s.fate[k] = fate[k] \/ (fate[k] = "handed" /\ s.fate[k] = "displaced")
  BY <1>3, <1>7 DEF HandedOverTo
<1>9. /\ handed' \in Seq(Messages) /\ Len(handed') = Len(handed) + Len(ms)
      /\ \A i \in 1..Len(handed') : handed'[i] = IF i <= Len(handed) THEN handed[i] ELSE ms[i - Len(handed)]
  BY <1>1, <1>4
<1>10. \A i \in DOMAIN handed : fate[handed[i]] \notin {"unwritten", "written", "queued"} /\ handed[i] \in Messages
  BY <1>1 DEF LegacyInv, Apart
<1>11. \A i \in 1..Len(handed') :
         \/ i \in 1..Len(handed) /\ handed'[i] = handed[i]
         \/ i - Len(handed) \in 1..Len(ms) /\ handed'[i] = ms[i - Len(handed)]
  BY <1>1, <1>9
<1>12. Distinct(handed')
  <2> SUFFICES ASSUME NEW i \in 1..Len(handed'), NEW j \in 1..Len(handed'), handed'[i] = handed'[j]
               PROVE  i = j
    BY <1>9 DEF Distinct
  <2>1. \A a \in 1..Len(handed) : \A b \in 1..Len(ms) : handed[a] # ms[b]
    BY <1>1, <1>10
  <2>2. /\ \A a, b \in 1..Len(handed) : handed[a] = handed[b] => a = b
        /\ \A a, b \in 1..Len(ms) : ms[a] = ms[b] => a = b
    BY <1>1 DEF LegacyInv, Apart, Distinct
  <2>3. CASE i \in 1..Len(handed) /\ j \in 1..Len(handed) /\ handed'[i] = handed[i] /\ handed'[j] = handed[j]
    BY <2>2, <2>3
  <2>4. CASE /\ i - Len(handed) \in 1..Len(ms) /\ handed'[i] = ms[i - Len(handed)]
             /\ j - Len(handed) \in 1..Len(ms) /\ handed'[j] = ms[j - Len(handed)]
    <3>1. i - Len(handed) = j - Len(handed)
      BY <2>2, <2>4
    <3>2. Len(handed) \in Nat
      BY <1>1
    <3> QED BY <3>1, <3>2
  <2> QED BY <1>11, <2>1, <2>3, <2>4
<1>13. \A i \in 1..Len(handed') : fate'[handed'[i]] \notin {"unwritten", "written", "queued"}
  <2> SUFFICES ASSUME NEW i \in 1..Len(handed')
               PROVE  s.fate[handed'[i]] \notin {"unwritten", "written", "queued"}
    BY <1>4
  <2> DEFINE k == handed'[i]
  <2>1. k \in Messages
    BY <1>9
  <2>2. CASE k \in ToSet(ms)
    BY <1>8, <2>1, <2>2 DEF Sent
  <2>3. CASE k \notin ToSet(ms)
    <3>1. i \in 1..Len(handed) /\ k = handed[i]
      BY <1>11, <2>3 DEF ToSet
    <3>2. fate[k] \notin {"unwritten", "written", "queued"}
      BY <1>1, <1>10, <3>1
    <3>3. s.fate[k] = fate[k] \/ (fate[k] = "handed" /\ s.fate[k] = "displaced")
      BY <1>8, <2>1, <2>3
    <3> QED BY <3>2, <3>3
  <2> QED BY <2>2, <2>3
<1>14. DOMAIN handed' = 1..Len(handed')
  BY <1>9
<1>15. s.post \in Messages \cup {NoMessage} /\ s.fate \in [Messages -> Fates]
  BY <1>5 DEF Posting
<1>16. (\E p \in Messages \cup {NoMessage} : net' = [net EXCEPT !.post = p]) /\ fate' \in [Messages -> Fates]
  BY <1>4, <1>15
<1> QED BY <1>4, <1>6, <1>8, <1>9, <1>12, <1>13, <1>14, <1>16
-----------------------------------------------------------------------------
\* A task has run: the ones that are left are those that were behind it.
LEMMA TasksLeft ==
  ASSUME LegacyInv, RunTask
  PROVE  /\ posted' \in Seq(Tasks)
         /\ \A i, j \in DOMAIN posted' : posted'[i] = posted'[j] /\ posted'[i].task = "write" => i = j
         /\ Head(posted).task # "flush" /\ FlushTask \in ToSet(posted) => FlushTask \in ToSet(posted')
<1>1. posted # <<>> /\ posted' = Tail(posted)
  BY DEF RunTask
<1>2. /\ Tail(posted) \in Seq(Tasks)
      /\ ToSet(posted) = ToSet(Tail(posted)) \cup {Head(posted)}
      /\ \A i, j \in DOMAIN Tail(posted) :
           Tail(posted)[i] = Tail(posted)[j] /\ Tail(posted)[i].task = "write" => i = j
  BY <1>1, TaskTaken
<1> QED BY <1>1, <1>2, TaskKinds

\* The write that asks for the stream.
LEMMA WriteGetInv ==
  ASSUME LegacyInv, RunTask, Head(posted).task # "flush", net.stream = "open",
         WriteGet(Head(posted).msg)
  PROVE  LegacyInv'
<1> DEFINE m == Head(posted).msg
<1>1. Typed /\ Negotiated
  BY DEF LegacyInv
<1>2. filter.sm \in {"Idle", "WaitingForGetSent"} /\ net' = [net EXCEPT !.server = "asked"]
      /\ fate' = Became(m, "queued") /\ heard' = heard /\ handed' = handed
  BY DEF WriteGet
<1>3. /\ filter \in [sm : States \ {"EndpointReceived"}, timer : BOOLEAN, reading : BOOLEAN,
                     endpoint : BOOLEAN, queue : Seq(Messages)]
      /\ net \in [stream : {"connecting", "open", "closed"},
                  server : {"idle", "asked", "stream", "refusal"},
                  wire : Seq({"stream", "refusal", "endpoint"}), announced : Nat,
                  post : Messages \cup {NoMessage}]
  BY <1>1 DEF Typed
<1>4. Settles(m, "queued")
  BY <1>2, <1>3 DEF Settles, RunTask
<1> DEFINE q == IF m = NoMessage THEN filter.queue ELSE Append(filter.queue, m)
<1>5. Queued(filter, m) = [filter EXCEPT !.queue = q]
  BY <1>3 DEF Queued
<1>6. filter' = [filter EXCEPT !.sm = "WaitingForEndpoint", !.timer = TRUE, !.queue = q]
  <2> DEFINE f == [filter EXCEPT !.queue = q]
             g == enterState(f, "WaitingForGetSent")
  <2>1. f.sm = filter.sm
    BY <1>3
  <2>2. handleEvent(f, "ConnectionReady") = IF f.sm = "Idle" THEN g ELSE f
    <3> HIDE DEF f
    <3> QED BY HandleEventIs
  <2>3. handleEvent(f, "ConnectionReady").sm = "WaitingForGetSent"
    BY <1>2, <1>3, <2>1, <2>2 DEF enterState
  <2>4. handleEvent(handleEvent(f, "ConnectionReady"), "GetSent") =
        enterState(handleEvent(f, "ConnectionReady"), "WaitingForEndpoint")
    <3> HIDE DEF f
    <3> QED BY <2>3, HandleEventIs
  <2>5. filter' = enterState(IF f.sm = "Idle" THEN g ELSE f, "WaitingForEndpoint")
    BY <1>5, <2>2, <2>4 DEF WriteGet
  <2> QED BY <1>3, <2>5 DEF enterState
<1>7. /\ filter'.sm = "WaitingForEndpoint" /\ filter'.timer = TRUE /\ filter'.queue = q
      /\ filter'.reading = filter.reading /\ filter'.endpoint = filter.endpoint
  BY <1>3, <1>6
<1>8. Apart' /\ InOnePlace' /\ filter'.queue \in Seq(Messages) /\ fate' \in [Messages -> Fates]
  <2> HIDE DEF m
  <2> QED BY <1>4, <1>7, Waits
<1>9. Typed'
  <2>1. filter' \in [sm : States \ {"EndpointReceived"}, timer : BOOLEAN, reading : BOOLEAN,
                     endpoint : BOOLEAN, queue : Seq(Messages)]
    <3>1. q \in Seq(Messages)
      BY <1>7, <1>8
    <3> HIDE DEF q
    <3> QED BY <1>3, <1>6, <3>1 DEF States
  <2>2. net' \in [stream : {"connecting", "open", "closed"},
                  server : {"idle", "asked", "stream", "refusal"},
                  wire : Seq({"stream", "refusal", "endpoint"}), announced : Nat,
                  post : Messages \cup {NoMessage}]
    BY <1>2, <1>3
  <2> QED BY <1>1, <1>2, <1>8, <2>1, <2>2, TasksLeft DEF Typed
<1>10. Negotiated'
  BY <1>1, <1>2, <1>3, <1>7 DEF Negotiated
<1>11. QueueHasAWayOut'
  BY <1>7 DEF QueueHasAWayOut
<1> QED BY <1>8, <1>9, <1>10, <1>11 DEF LegacyInv

LEMMA WriteQueuedInv ==
  ASSUME LegacyInv, RunTask, Head(posted).task # "flush", net.stream = "open",
         WriteQueued(Head(posted).msg)
  PROVE  LegacyInv'
<1> DEFINE m == Head(posted).msg
<1>1. Typed /\ Negotiated
  BY DEF LegacyInv
<1>2. net' = net /\ fate' = Became(m, "queued") /\ heard' = heard /\ handed' = handed
  BY DEF WriteQueued
<1>3. filter \in [sm : States \ {"EndpointReceived"}, timer : BOOLEAN, reading : BOOLEAN,
                  endpoint : BOOLEAN, queue : Seq(Messages)]
  BY <1>1 DEF Typed
<1>4. Settles(m, "queued")
  BY <1>2 DEF Settles, RunTask
<1> DEFINE q == IF m = NoMessage THEN filter.queue ELSE Append(filter.queue, m)
<1>5. filter' = [filter EXCEPT !.queue = q]
  BY <1>3 DEF WriteQueued, Queued
<1>6. /\ filter'.sm = filter.sm /\ filter'.timer = filter.timer /\ filter'.queue = q
      /\ filter'.reading = filter.reading /\ filter'.endpoint = filter.endpoint
  BY <1>3, <1>5
<1>7. Apart' /\ InOnePlace' /\ filter'.queue \in Seq(Messages) /\ fate' \in [Messages -> Fates]
  <2> HIDE DEF m
  <2> QED BY <1>4, <1>6, Waits
<1>8. Typed'
  <2>1. q \in Seq(Messages)
    BY <1>6, <1>7
  <2>2. filter' \in [sm : States \ {"EndpointReceived"}, timer : BOOLEAN, reading : BOOLEAN,
                     endpoint : BOOLEAN, queue : Seq(Messages)]
    <3> HIDE DEF q
    <3> QED BY <1>3, <1>5, <2>1
  <2> QED BY <1>1, <1>2, <1>7, <2>2, TasksLeft DEF Typed
<1>9. Negotiated'
  BY <1>1, <1>2, <1>6 DEF Negotiated
<1>10. filter.sm = "WaitingForEndpoint"
  BY <1>3 DEF WriteQueued, isNegotiating
<1>11. QueueHasAWayOut'
  BY <1>1, <1>6, <1>10 DEF QueueHasAWayOut, Negotiated
<1> QED BY <1>7, <1>8, <1>9, <1>11 DEF LegacyInv

\* The plain path, and a write when the connection is gone.
LEMMA UnqueuedInv ==
  ASSUME LegacyInv, RunTask, Head(posted).task # "flush", NEW what \in {"plain", "gone"},
         fate' = Became(Head(posted).msg, what), UNCHANGED <<filter, net, heard, handed>>
  PROVE  LegacyInv'
<1>1. Settles(Head(posted).msg, what)
  BY DEF Settles, RunTask
<1>2. Apart' /\ InOnePlace' /\ fate' \in [Messages -> Fates]
  BY <1>1, LeavesUnqueued
<1>3. Typed'
  BY <1>2, TasksLeft DEF LegacyInv, Typed
<1>4. Negotiated'
  BY DEF LegacyInv, Negotiated
<1>5. QueueHasAWayOut'
  BY TasksLeft DEF LegacyInv, QueueHasAWayOut
<1> QED BY <1>2, <1>3, <1>4, <1>5 DEF LegacyInv

\* A message posted at once: its task was the only one to write it.
LEMMA WritePostInv ==
  ASSUME LegacyInv, RunTask, Head(posted).task # "flush", WritePost(Head(posted).msg)
  PROVE  LegacyInv'
<1> DEFINE m == Head(posted).msg
           ms == <<m>>
<1>1. PICK how \in Outcomes : HandOver(ms, filter, how)
  BY DEF WritePost
<1>2. /\ m \in Messages /\ Head(posted) = WriteTask(m) /\ posted' = Tail(posted)
      /\ ToSet(posted) = ToSet(Tail(posted)) \cup {WriteTask(m)}
      /\ WriteTask(m) \notin ToSet(Tail(posted))
  BY TaskTaken, TaskKinds DEF RunTask, WritePost
<1>3. \A k \in Messages : /\ (fate[k] = "written") <=> (WriteTask(k) \in ToSet(posted))
                          /\ (fate[k] = "queued") <=> (k \in ToSet(filter.queue))
  BY DEF LegacyInv, InOnePlace
<1>4. ms \in Seq(Messages) /\ Distinct(ms) /\ \A i \in 1..Len(ms) : fate[ms[i]] \in {"written", "queued"}
  BY <1>2, <1>3 DEF Distinct
<1>5. \A k \in Messages : k \in ToSet(ms) <=> k = m
  BY <1>2 DEF ToSet
<1>6. /\ filter' = filter /\ heard' = heard
      /\ \E p \in Messages \cup {NoMessage} : net' = [net EXCEPT !.post = p]
      /\ fate' \in [Messages -> Fates]
      /\ \A k \in Messages : (fate'[k] = "handed") <=> (k = net'.post)
      /\ \A k \in Messages : k \in ToSet(ms) => fate'[k] \in Sent
      /\ \A k \in Messages : k \notin ToSet(ms) =>
           fate'[k] = fate[k] \/ (fate[k] = "handed" /\ fate'[k] = "displaced")
      /\ handed' \in Seq(Messages) /\ Distinct(handed')
      /\ \A i \in DOMAIN handed' : fate'[handed'[i]] \notin {"unwritten", "written", "queued"}
  <2> HIDE DEF ms
  <2> QED BY <1>1, <1>4, HandsOver
<1>7. ASSUME NEW k \in Messages
      PROVE  /\ (fate'[k] = "written") <=> (WriteTask(k) \in ToSet(posted'))
             /\ (fate'[k] = "queued") <=> (k \in ToSet(filter'.queue))
  <2>1. CASE k = m
    <3>1. fate[k] = "written" /\ fate'[k] \in Sent
      BY <1>2, <1>3, <1>5, <1>6, <2>1
    <3> QED BY <1>2, <1>3, <1>6, <2>1, <3>1 DEF Sent
  <2>2. CASE k # m
    <3>1. WriteTask(k) # WriteTask(m)
      BY <1>2, <2>2, TaskKinds
    <3>2. (fate'[k] = "written") <=> (fate[k] = "written")
      BY <1>5, <1>6, <2>2
    <3>3. (fate'[k] = "queued") <=> (fate[k] = "queued")
      BY <1>5, <1>6, <2>2
    <3> QED BY <1>2, <1>3, <1>6, <3>1, <3>2, <3>3
  <2> QED BY <2>1, <2>2
<1>8. InOnePlace'
  BY <1>6, <1>7 DEF InOnePlace
<1>9. Apart'
  BY <1>6, TasksLeft DEF LegacyInv, Apart
<1>10. Typed /\ Negotiated /\ QueueHasAWayOut
  BY DEF LegacyInv
<1>11. PICK p \in Messages \cup {NoMessage} : net' = [net EXCEPT !.post = p]
  BY <1>6
<1>12. Typed'
  BY <1>6, <1>10, <1>11, TasksLeft DEF Typed
<1>13. /\ net'.stream = net.stream /\ net'.wire = net.wire /\ net'.server = net.server
  BY <1>10, <1>11 DEF Typed
<1>14. Negotiated'
  BY <1>6, <1>10, <1>13 DEF Negotiated
<1>15. QueueHasAWayOut'
  BY <1>6, <1>10, TasksLeft DEF QueueHasAWayOut
<1> QED BY <1>8, <1>9, <1>12, <1>14, <1>15 DEF LegacyInv

\* The flush: what waited has all been sent, and nothing waits.
LEMMA FlushInv ==
  ASSUME LegacyInv, RunTask, Head(posted).task = "flush", processPendingMessages
  PROVE  LegacyInv'
<1> DEFINE ms == filter.queue
           f == [filter EXCEPT !.queue = <<>>]
<1>1. PICK how \in Outcomes : HandOver(ms, f, how)
  BY DEF processPendingMessages
<1>2. /\ Head(posted) = FlushTask /\ posted' = Tail(posted)
      /\ ToSet(posted) = ToSet(Tail(posted)) \cup {FlushTask}
  BY TaskTaken, TaskKinds DEF RunTask
<1>3. \A k \in Messages : /\ (fate[k] = "written") <=> (WriteTask(k) \in ToSet(posted))
                          /\ (fate[k] = "queued") <=> (k \in ToSet(ms))
  BY DEF LegacyInv, InOnePlace
<1>4. Typed /\ Negotiated
  BY DEF LegacyInv
<1>5. filter \in [sm : States \ {"EndpointReceived"}, timer : BOOLEAN, reading : BOOLEAN,
                  endpoint : BOOLEAN, queue : Seq(Messages)]
  BY <1>4 DEF Typed
<1>6. ms \in Seq(Messages) /\ Distinct(ms)
  BY <1>5 DEF LegacyInv, Apart
<1>7. \A i \in 1..Len(ms) : fate[ms[i]] \in {"written", "queued"}
  BY <1>3, <1>6 DEF ToSet
<1>8. /\ filter' = f /\ heard' = heard
      /\ \E p \in Messages \cup {NoMessage} : net' = [net EXCEPT !.post = p]
      /\ fate' \in [Messages -> Fates]
      /\ \A k \in Messages : (fate'[k] = "handed") <=> (k = net'.post)
      /\ \A k \in Messages : k \in ToSet(ms) => fate'[k] \in Sent
      /\ \A k \in Messages : k \notin ToSet(ms) =>
           fate'[k] = fate[k] \/ (fate[k] = "handed" /\ fate'[k] = "displaced")
      /\ handed' \in Seq(Messages) /\ Distinct(handed')
      /\ \A i \in DOMAIN handed' : fate'[handed'[i]] \notin {"unwritten", "written", "queued"}
  <2> HIDE DEF ms, f
  <2> QED BY <1>1, <1>6, <1>7, HandsOver
<1>9. /\ filter'.queue = <<>> /\ filter'.sm = filter.sm /\ filter'.timer = filter.timer
      /\ filter'.reading = filter.reading /\ filter'.endpoint = filter.endpoint
  BY <1>5, <1>8
<1>10. ToSet(filter'.queue) = {}
  BY <1>9 DEF ToSet
<1>11. ASSUME NEW k \in Messages
       PROVE  /\ (fate'[k] = "written") <=> (WriteTask(k) \in ToSet(posted'))
              /\ (fate'[k] = "queued") <=> (k \in ToSet(filter'.queue))
  <2>1. WriteTask(k) # FlushTask
    BY TaskKinds
  <2>2. CASE k \in ToSet(ms)
    <3>1. fate[k] = "queued" /\ fate'[k] \in Sent
      BY <1>3, <1>8, <2>2
    <3> QED BY <1>2, <1>3, <1>10, <2>1, <3>1 DEF Sent
  <2>3. CASE k \notin ToSet(ms)
    <3>1. (fate'[k] = "written") <=> (fate[k] = "written")
      BY <1>8, <2>3
    <3>2. (fate'[k] = "queued") <=> (fate[k] = "queued")
      BY <1>8, <2>3
    <3> QED BY <1>2, <1>3, <1>10, <2>1, <2>3, <3>1, <3>2
  <2> QED BY <2>2, <2>3
<1>12. InOnePlace'
  BY <1>8, <1>11 DEF InOnePlace
<1>13. Apart'
  BY <1>8, <1>9, TasksLeft DEF Apart, Distinct
<1>14. PICK p \in Messages \cup {NoMessage} : net' = [net EXCEPT !.post = p]
  BY <1>8
<1>15. filter' \in [sm : States \ {"EndpointReceived"}, timer : BOOLEAN, reading : BOOLEAN,
                    endpoint : BOOLEAN, queue : Seq(Messages)]
  <2>1. <<>> \in Seq(Messages)
    OBVIOUS
  <2>2. filter' = [filter EXCEPT !.queue = <<>>]
    BY <1>8
  <2> QED BY ONLY <1>5, <2>1, <2>2
<1>16. Typed'
  BY <1>4, <1>8, <1>14, <1>15, TasksLeft DEF Typed
<1>17. /\ net'.stream = net.stream /\ net'.wire = net.wire /\ net'.server = net.server
  BY <1>4, <1>14 DEF Typed
<1>18. Negotiated'
  BY <1>4, <1>9, <1>17 DEF Negotiated
<1>19. QueueHasAWayOut'
  BY <1>9 DEF QueueHasAWayOut
<1> QED BY <1>12, <1>13, <1>16, <1>18, <1>19 DEF LegacyInv

LEMMA RunTaskInv ==
  ASSUME LegacyInv, RunTask
  PROVE  LegacyInv'
<1>1. CASE Head(posted).task = "flush"
  BY <1>1, FlushInv DEF RunTask
<1>2. CASE Head(posted).task # "flush"
  <2> DEFINE m == Head(posted).msg
  <2>1. onWrite(m)
    BY <1>2 DEF RunTask
  <2>2. CASE net.stream # "open"
    BY <1>2, <2>1, <2>2, UnqueuedInv DEF onWrite
  <2>3. CASE net.stream = "open"
    <3>1. WriteGet(m) \/ WriteQueued(m) \/ WritePost(m) \/ WritePlain(m)
      BY <2>1, <2>3 DEF onWrite
    <3>2. CASE WritePlain(m)
      BY <1>2, <3>2, UnqueuedInv DEF WritePlain
    <3> QED BY <1>2, <2>3, <3>1, <3>2, WriteGetInv, WriteQueuedInv, WritePostInv
  <2> QED BY <2>2, <2>3
<1> QED BY <1>1, <1>2
-----------------------------------------------------------------------------
\* Actions that leave the tasks, the queue and the fates alone.
LEMMA OnlyTheNet ==
  ASSUME LegacyInv, UNCHANGED <<posted, fate, handed>>, filter'.queue = filter.queue,
         net'.post = net.post
  PROVE  Apart' /\ InOnePlace'
<1>1. Apart'
  BY DEF LegacyInv, Apart
<1>2. InOnePlace'
  BY DEF LegacyInv, InOnePlace
<1> QED BY <1>1, <1>2

\* Actions that only hand the dispatcher a task which writes no message.
LEMMA AnotherTask ==
  ASSUME LegacyInv, NEW t \in {Nudge, FlushTask}, posted' = Append(posted, t),
         UNCHANGED <<fate, handed>>, filter'.queue = filter.queue, net'.post = net.post
  PROVE  /\ Apart' /\ InOnePlace' /\ posted' \in Seq(Tasks)
         /\ ToSet(posted') = ToSet(posted) \cup {t}
<1>1. posted \in Seq(Tasks) /\ t \in Tasks
  BY DEF LegacyInv, Typed, Tasks
<1>2. posted' \in Seq(Tasks) /\ ToSet(posted') = ToSet(posted) \cup {t}
  BY <1>1, AppendedSet
<1>3. t.task # "write" /\ \A m \in Messages : WriteTask(m) # t
  BY TaskKinds
<1>4. \A i, j \in 1..Len(posted) : posted[i] = posted[j] /\ posted[i].task = "write" => i = j
  BY <1>1 DEF LegacyInv, Apart
<1>5. \A i \in 1..(Len(posted) + 1) :
        posted'[i] = t \/ (i \in 1..Len(posted) /\ posted'[i] = posted[i])
  BY <1>1
<1>6. \A i \in 1..(Len(posted) + 1) : posted'[i].task = "write" => i \in 1..Len(posted) /\ posted'[i] = posted[i]
  BY <1>3, <1>5
<1>7. DOMAIN posted' = 1..(Len(posted) + 1)
  BY <1>1
<1>8. Apart'
  <2>1. \A i, j \in DOMAIN posted' : posted'[i] = posted'[j] /\ posted'[i].task = "write" => i = j
    BY <1>4, <1>6, <1>7
  <2> QED BY <2>1 DEF LegacyInv, Apart
<1>9. InOnePlace'
  BY <1>2, <1>3 DEF LegacyInv, InOnePlace
<1> QED BY <1>2, <1>8, <1>9

LEMMA SendInv ==
  ASSUME LegacyInv, NEW m \in Messages, Send(m)
  PROVE  LegacyInv'
<1>1. /\ fate[m] = "unwritten" /\ fate' = [fate EXCEPT ![m] = "written"]
      /\ posted' = Append(posted, WriteTask(m)) /\ UNCHANGED <<filter, net, heard, handed>>
  BY DEF Send
<1>2. Typed /\ Negotiated
  BY DEF LegacyInv
<1>3. posted \in Seq(Tasks) /\ WriteTask(m) \in Tasks /\ fate \in [Messages -> Fates]
  BY <1>2, TaskKinds DEF Typed
<1>4. posted' \in Seq(Tasks) /\ ToSet(posted') = ToSet(posted) \cup {WriteTask(m)}
  BY <1>1, <1>3, AppendedSet
<1>5. \A k \in Messages : /\ (fate[k] = "written") <=> (WriteTask(k) \in ToSet(posted))
                          /\ (fate[k] = "queued") <=> (k \in ToSet(filter.queue))
                          /\ (fate[k] = "handed") <=> (k = net.post)
  BY DEF LegacyInv, InOnePlace
<1>6. \A k \in Messages : k # m => fate'[k] = fate[k] /\ WriteTask(k) # WriteTask(m)
  BY <1>1, <1>3, TaskKinds
<1>7. fate'[m] = "written" /\ fate' \in [Messages -> Fates]
  BY <1>1, <1>3 DEF Fates
<1>8. InOnePlace'
  <2> SUFFICES ASSUME NEW k \in Messages
               PROVE  /\ (fate'[k] = "written") <=> (WriteTask(k) \in ToSet(posted'))
                      /\ (fate'[k] = "queued") <=> (k \in ToSet(filter'.queue))
                      /\ (fate'[k] = "handed") <=> (k = net'.post)
    BY DEF InOnePlace
  <2>1. CASE k = m
    BY <1>1, <1>4, <1>5, <1>7, <2>1
  <2>2. CASE k # m
    BY <1>1, <1>4, <1>5, <1>6, <2>2
  <2> QED BY <2>1, <2>2
<1>9. Apart'
  <2>1. WriteTask(m) \notin ToSet(posted)
    BY <1>1, <1>5
  <2>2. \A i \in 1..Len(posted) : posted[i] # WriteTask(m)
    BY <1>3, <2>1 DEF ToSet
  <2>3. \A i, j \in 1..Len(posted) : posted[i] = posted[j] /\ posted[i].task = "write" => i = j
    BY <1>3 DEF LegacyInv, Apart
  <2>4. \A i \in 1..(Len(posted) + 1) :
          \/ i = Len(posted) + 1 /\ posted'[i] = WriteTask(m)
          \/ i \in 1..Len(posted) /\ posted'[i] = posted[i]
    BY <1>1, <1>3
  <2>5. DOMAIN posted' = 1..(Len(posted) + 1)
    BY <1>1, <1>3
  <2>6. \A i, j \in DOMAIN posted' : posted'[i] = posted'[j] /\ posted'[i].task = "write" => i = j
    BY <2>2, <2>3, <2>4, <2>5
  <2>7. handed \in Seq(Messages) /\ handed' = handed
    BY <1>1, <1>2 DEF Typed
  <2>8. \A i \in DOMAIN handed : fate[handed[i]] \notin {"unwritten", "written", "queued"} /\ handed[i] \in Messages
    BY <2>7 DEF LegacyInv, Apart
  <2>9. \A i \in DOMAIN handed' : fate'[handed'[i]] \notin {"unwritten", "written", "queued"}
    BY <1>1, <1>6, <2>7, <2>8
  <2> QED BY <1>1, <2>6, <2>9 DEF LegacyInv, Apart
<1>10. Typed'
  BY <1>1, <1>2, <1>4, <1>7 DEF Typed
<1>11. Negotiated'
  BY <1>1, <1>2 DEF Negotiated
<1>12. QueueHasAWayOut'
  BY <1>1, <1>4 DEF LegacyInv, QueueHasAWayOut
<1> QED BY <1>8, <1>9, <1>10, <1>11, <1>12 DEF LegacyInv

LEMMA ConnectedInv ==
  ASSUME LegacyInv, Connected
  PROVE  LegacyInv'
<1>1. /\ net.stream = "connecting" /\ net' = [net EXCEPT !.stream = "open"]
      /\ posted' = Append(posted, Nudge) /\ UNCHANGED <<fate, heard, handed>>
      /\ filter' = handleEvent(filter, "ConnectionReady")
  BY DEF Connected
<1>2. Typed /\ Negotiated
  BY DEF LegacyInv
<1>3. /\ filter \in [sm : States \ {"EndpointReceived"}, timer : BOOLEAN, reading : BOOLEAN,
                     endpoint : BOOLEAN, queue : Seq(Messages)]
      /\ net \in [stream : {"connecting", "open", "closed"},
                  server : {"idle", "asked", "stream", "refusal"},
                  wire : Seq({"stream", "refusal", "endpoint"}), announced : Nat,
                  post : Messages \cup {NoMessage}]
  BY <1>2 DEF Typed
<1>4. filter.sm = "Idle"
  BY <1>1, <1>2 DEF Negotiated
<1>5. filter' = [filter EXCEPT !.sm = "WaitingForGetSent", !.timer = FALSE]
  BY <1>1, <1>4, HandleEventIs DEF enterState
<1>6. /\ filter'.sm = "WaitingForGetSent" /\ filter'.timer = FALSE /\ filter'.queue = filter.queue
      /\ filter'.reading = filter.reading /\ filter'.endpoint = filter.endpoint
      /\ net'.stream = "open" /\ net'.post = net.post /\ net'.wire = net.wire /\ net'.server = net.server
  BY <1>1, <1>3, <1>5
<1>7. /\ Apart' /\ InOnePlace' /\ posted' \in Seq(Tasks) /\ ToSet(posted') = ToSet(posted) \cup {Nudge}
  BY <1>1, <1>6, AnotherTask
<1>8. filter' \in [sm : States \ {"EndpointReceived"}, timer : BOOLEAN, reading : BOOLEAN,
                   endpoint : BOOLEAN, queue : Seq(Messages)]
  BY <1>3, <1>5 DEF States
<1>9. Typed'
  BY <1>1, <1>2, <1>7, <1>8 DEF Typed
<1>10. Negotiated'
  BY <1>2, <1>4, <1>6 DEF Negotiated
<1>11. QueueHasAWayOut'
  <2>1. filter.timer = FALSE /\ filter.sm # "Active"
    BY <1>1, <1>2, <1>3, <1>4 DEF Negotiated
  <2> QED BY <1>6, <1>7, <2>1 DEF LegacyInv, QueueHasAWayOut
<1> QED BY <1>7, <1>9, <1>10, <1>11 DEF LegacyInv

\* Messages that waited, or were under way, and are settled by the way: they
\* are nowhere any more, the others are where they were.
LEMMA Settled ==
  ASSUME LegacyInv, NEW L \in SUBSET Messages, NEW what \in {"discarded", "gone", "arrived", "failed"},
         \A m \in L : fate[m] \in {"queued", "handed"},
         fate' = [m \in Messages |-> IF m \in L THEN what ELSE fate[m]],
         UNCHANGED <<posted, handed>>, Distinct(filter'.queue),
         \A m \in Messages : m \in ToSet(filter'.queue) <=> m \in ToSet(filter.queue) /\ m \notin L,
         \A m \in Messages : m = net'.post <=> m = net.post /\ m \notin L
  PROVE  Apart' /\ InOnePlace' /\ fate' \in [Messages -> Fates]
<1>1. fate \in [Messages -> Fates] /\ handed \in Seq(Messages)
  BY DEF LegacyInv, Typed
<1>2. fate' \in [Messages -> Fates]
  BY <1>1 DEF Fates
<1>3. \A m \in Messages : fate'[m] = IF m \in L THEN what ELSE fate[m]
  OBVIOUS
<1>4. InOnePlace'
  BY <1>3 DEF LegacyInv, InOnePlace
<1>5. \A i \in DOMAIN handed : fate[handed[i]] \notin {"unwritten", "written", "queued"} /\ handed[i] \in Messages
  BY <1>1 DEF LegacyInv, Apart
<1>6. \A i \in DOMAIN handed' : fate'[handed'[i]] \notin {"unwritten", "written", "queued"}
  BY <1>3, <1>5
<1>7. Apart'
  BY <1>6 DEF LegacyInv, Apart
<1> QED BY <1>2, <1>4, <1>7

LEMMA onHeadersInv ==
  ASSUME LegacyInv, onHeaders
  PROVE  LegacyInv'
<1>1. /\ net.stream = "open" /\ net.wire # <<>> /\ net' = [net EXCEPT !.wire = Tail(@)]
      /\ UNCHANGED <<posted, fate, heard, handed>>
  BY DEF onHeaders
<1>2. Typed /\ Negotiated
  BY DEF LegacyInv
<1>3. /\ filter \in [sm : States \ {"EndpointReceived"}, timer : BOOLEAN, reading : BOOLEAN,
                     endpoint : BOOLEAN, queue : Seq(Messages)]
      /\ net \in [stream : {"connecting", "open", "closed"},
                  server : {"idle", "asked", "stream", "refusal"},
                  wire : Seq({"stream", "refusal", "endpoint"}), announced : Nat,
                  post : Messages \cup {NoMessage}]
  BY <1>2 DEF Typed
<1>4. filter.sm \in {"WaitingForEndpoint", "Active", "Error"} /\ net.server # "idle"
  BY <1>1, <1>2 DEF Negotiated
<1> DEFINE f == [filter EXCEPT !.reading = TRUE]
<1>5. \/ filter' = filter
      \/ filter.sm # "WaitingForEndpoint" /\ filter' = f
      \/ filter.sm = "WaitingForEndpoint" /\ filter' = [f EXCEPT !.sm = "Active", !.timer = FALSE]
  <2>1. filter' = filter \/ filter' = handleEvent(f, "StreamStarted")
    BY DEF onHeaders
  <2>2. f.sm = filter.sm
    BY <1>3
  <2>3. f.sm # "WaitingForEndpoint" => handleEvent(f, "StreamStarted") = f
    <3> HIDE DEF f
    <3> QED BY <1>4, <2>2, HandleEventIs
  <2>4. f.sm = "WaitingForEndpoint" => handleEvent(f, "StreamStarted") = enterState(f, "Active")
    <3> HIDE DEF f
    <3> QED BY HandleEventIs
  <2>5. enterState(f, "Active") = [f EXCEPT !.sm = "Active", !.timer = FALSE]
    BY DEF enterState
  <2> HIDE DEF f
  <2> QED BY <2>1, <2>2, <2>3, <2>4, <2>5
<1>6. /\ net'.stream = net.stream /\ net'.post = net.post /\ net'.server = net.server
      /\ net'.wire \in Seq({"stream", "refusal", "endpoint"})
  <2>1. Tail(net.wire) \in Seq({"stream", "refusal", "endpoint"})
    BY <1>1, <1>3
  <2> QED BY <1>1, <1>3, <2>1
<1>7. /\ filter'.queue = filter.queue /\ filter'.endpoint = filter.endpoint
      /\ filter' \in [sm : States \ {"EndpointReceived"}, timer : BOOLEAN, reading : BOOLEAN,
                      endpoint : BOOLEAN, queue : Seq(Messages)]
      /\ \/ filter' = filter
         \/ filter.sm # "WaitingForEndpoint" /\ filter'.sm = filter.sm /\ filter'.timer = filter.timer
         \/ filter.sm = "WaitingForEndpoint" /\ filter'.sm = "Active" /\ filter'.timer = FALSE
      /\ filter'.reading \in {TRUE, filter.reading}
  BY <1>3, <1>5 DEF States
<1>8. Apart' /\ InOnePlace'
  BY <1>1, <1>6, <1>7, OnlyTheNet
<1>9. Typed'
  BY <1>1, <1>2, <1>3, <1>6, <1>7 DEF Typed
<1>10. Negotiated'
  BY <1>1, <1>2, <1>4, <1>6, <1>7 DEF Negotiated
<1>11. QueueHasAWayOut'
  <2>1. filter.sm = "WaitingForEndpoint" => ~filter.endpoint
    BY <1>2 DEF Negotiated
  <2> QED BY <1>1, <1>2, <1>7, <2>1 DEF LegacyInv, QueueHasAWayOut, Negotiated
<1> QED BY <1>8, <1>9, <1>10, <1>11 DEF LegacyInv

LEMMA onEventInv ==
  ASSUME LegacyInv, onEvent
  PROVE  LegacyInv'
<1>1. /\ net.stream = "open" /\ net.wire # <<>> /\ filter.reading
      /\ net' = [net EXCEPT !.wire = Tail(@)] /\ posted' = Append(posted, FlushTask)
      /\ UNCHANGED <<fate, heard, handed>>
  BY DEF onEvent
<1>2. Typed /\ Negotiated
  BY DEF LegacyInv
<1>3. /\ filter \in [sm : States \ {"EndpointReceived"}, timer : BOOLEAN, reading : BOOLEAN,
                     endpoint : BOOLEAN, queue : Seq(Messages)]
      /\ net \in [stream : {"connecting", "open", "closed"},
                  server : {"idle", "asked", "stream", "refusal"},
                  wire : Seq({"stream", "refusal", "endpoint"}), announced : Nat,
                  post : Messages \cup {NoMessage}]
  BY <1>2 DEF Typed
<1> DEFINE f == [filter EXCEPT !.endpoint = TRUE]
<1>4. filter' = f
  <2>1. f.sm = filter.sm /\ filter.sm \in {"Active", "Error"}
    BY <1>1, <1>2, <1>3 DEF Negotiated
  <2>2. filter' = handleEvent(f, "EndpointReceived")
    BY DEF onEvent
  <2> HIDE DEF f
  <2> QED BY <2>1, <2>2, HandleEventIs
<1>5. /\ filter'.sm = filter.sm /\ filter'.timer = filter.timer /\ filter'.queue = filter.queue
      /\ filter'.reading = filter.reading
      /\ filter' \in [sm : States \ {"EndpointReceived"}, timer : BOOLEAN, reading : BOOLEAN,
                      endpoint : BOOLEAN, queue : Seq(Messages)]
  BY <1>3, <1>4
<1>6. /\ net'.stream = net.stream /\ net'.post = net.post /\ net'.server = net.server
      /\ net'.wire \in Seq({"stream", "refusal", "endpoint"})
  <2>1. Tail(net.wire) \in Seq({"stream", "refusal", "endpoint"})
    BY <1>1, <1>3
  <2> QED BY <1>1, <1>3, <2>1
<1>7. Apart' /\ InOnePlace' /\ posted' \in Seq(Tasks) /\ ToSet(posted') = ToSet(posted) \cup {FlushTask}
  BY <1>1, <1>5, <1>6, AnotherTask
<1>8. Typed'
  BY <1>1, <1>2, <1>3, <1>5, <1>6, <1>7 DEF Typed
<1>9. Negotiated'
  BY <1>1, <1>2, <1>5, <1>6 DEF Negotiated
<1>10. QueueHasAWayOut'
  BY <1>7 DEF QueueHasAWayOut
<1> QED BY <1>7, <1>8, <1>9, <1>10 DEF LegacyInv

\* What waited when the wait was given up is discarded, all of it.
LEMMA onNegotiationTimeoutInv ==
  ASSUME LegacyInv, onNegotiationTimeout
  PROVE  LegacyInv'
<1> DEFINE L == ToSet(filter.queue)
<1>1. /\ filter.sm = "WaitingForEndpoint" /\ heard' = heard \cup {"error"}
      /\ fate' = [m \in Messages |-> IF m \in L THEN "discarded" ELSE fate[m]]
      /\ UNCHANGED <<posted, net, handed>>
  BY DEF onNegotiationTimeout
<1>2. Typed /\ Negotiated
  BY DEF LegacyInv
<1>3. filter \in [sm : States \ {"EndpointReceived"}, timer : BOOLEAN, reading : BOOLEAN,
                  endpoint : BOOLEAN, queue : Seq(Messages)]
  BY <1>2 DEF Typed
<1>4. filter' = [filter EXCEPT !.sm = "Error", !.timer = FALSE, !.queue = <<>>]
  <2>1. handleEvent(filter, "NegotiationTimeout") = enterState(filter, "Error")
    BY <1>1, HandleEventIs
  <2> QED BY <1>3, <2>1 DEF onNegotiationTimeout, enterState
<1>5. /\ filter'.sm = "Error" /\ filter'.timer = FALSE /\ filter'.queue = <<>>
      /\ filter'.reading = filter.reading /\ filter'.endpoint = filter.endpoint
  BY <1>3, <1>4
<1>6. filter' \in [sm : States \ {"EndpointReceived"}, timer : BOOLEAN, reading : BOOLEAN,
                   endpoint : BOOLEAN, queue : Seq(Messages)]
  <2>1. <<>> \in Seq(Messages)
    OBVIOUS
  <2> QED BY <1>3, <1>4, <2>1 DEF States
<1>7. L \in SUBSET Messages
  BY <1>3 DEF ToSet
<1>8. \A m \in Messages : /\ (fate[m] = "queued") <=> m \in L
                          /\ (fate[m] = "handed") <=> m = net.post
  BY DEF LegacyInv, InOnePlace
<1>9. ToSet(filter'.queue) = {} /\ Distinct(filter'.queue)
  BY <1>5 DEF ToSet, Distinct
<1>10. Apart' /\ InOnePlace' /\ fate' \in [Messages -> Fates]
  <2>1. \A m \in L : fate[m] \in {"queued", "handed"}
    BY <1>7, <1>8
  <2>2. \A m \in Messages : m = net'.post <=> m = net.post /\ m \notin L
    BY <1>1, <1>8
  <2> HIDE DEF L
  <2>3. \A m \in Messages : m \in ToSet(filter'.queue) <=> m \in L /\ m \notin L
    BY <1>9
  <2>4. \A m \in Messages : m \in ToSet(filter'.queue) <=> m \in ToSet(filter.queue) /\ m \notin L
    BY <2>3 DEF L
  <2> QED BY <1>1, <1>7, <1>9, <2>1, <2>2, <2>4, Settled
<1>11. Typed'
  BY <1>1, <1>2, <1>6, <1>10 DEF Typed
<1>12. Negotiated'
  BY <1>1, <1>2, <1>5 DEF Negotiated
<1>13. QueueHasAWayOut'
  BY <1>5 DEF QueueHasAWayOut
<1> QED BY <1>10, <1>11, <1>12, <1>13 DEF LegacyInv

LEMMA EndedInv ==
  ASSUME LegacyInv, NEW byUs \in BOOLEAN, Ended(byUs)
  PROVE  LegacyInv'
<1> DEFINE L == {m \in Messages : m \in ToSet(filter.queue) \/ (byUs /\ m = net.post)}
<1>1. /\ net.stream = "open" /\ heard' = heard \cup {"closed"} /\ UNCHANGED <<posted, handed>>
      /\ net' = [net EXCEPT !.stream = "closed", !.wire = <<>>, !.post = IF byUs THEN NoMessage ELSE @]
      /\ filter' = [filter EXCEPT !.queue = <<>>, !.timer = FALSE]
      /\ fate' = [m \in Messages |-> IF m \in L THEN "gone" ELSE fate[m]]
  BY DEF Ended
<1>2. Typed /\ Negotiated
  BY DEF LegacyInv
<1>3. /\ filter \in [sm : States \ {"EndpointReceived"}, timer : BOOLEAN, reading : BOOLEAN,
                     endpoint : BOOLEAN, queue : Seq(Messages)]
      /\ net \in [stream : {"connecting", "open", "closed"},
                  server : {"idle", "asked", "stream", "refusal"},
                  wire : Seq({"stream", "refusal", "endpoint"}), announced : Nat,
                  post : Messages \cup {NoMessage}]
  BY <1>2 DEF Typed
<1>4. /\ filter'.sm = filter.sm /\ filter'.timer = FALSE /\ filter'.queue = <<>>
      /\ filter'.reading = filter.reading /\ filter'.endpoint = filter.endpoint
      /\ net'.stream = "closed" /\ net'.wire = <<>> /\ net'.server = net.server
      /\ net'.post = IF byUs THEN NoMessage ELSE net.post
  BY <1>1, <1>3
<1>5. filter' \in [sm : States \ {"EndpointReceived"}, timer : BOOLEAN, reading : BOOLEAN,
                   endpoint : BOOLEAN, queue : Seq(Messages)]
  <2>1. <<>> \in Seq(Messages)
    OBVIOUS
  <2> QED BY <1>1, <1>3, <2>1
<1>6. net' \in [stream : {"connecting", "open", "closed"},
                server : {"idle", "asked", "stream", "refusal"},
                wire : Seq({"stream", "refusal", "endpoint"}), announced : Nat,
                post : Messages \cup {NoMessage}]
  <2>1. <<>> \in Seq({"stream", "refusal", "endpoint"})
    OBVIOUS
  <2>2. (IF byUs THEN NoMessage ELSE net.post) \in Messages \cup {NoMessage}
    BY <1>3
  <2> QED BY <1>1, <1>3, <2>1, <2>2
<1>7. \A m \in Messages : /\ (fate[m] = "queued") <=> m \in ToSet(filter.queue)
                          /\ (fate[m] = "handed") <=> m = net.post
                          /\ m # NoMessage
  BY DEF LegacyInv, InOnePlace, Messages, NoMessage
<1>8. ToSet(filter'.queue) = {} /\ Distinct(filter'.queue)
  BY <1>4 DEF ToSet, Distinct
<1>9. Apart' /\ InOnePlace' /\ fate' \in [Messages -> Fates]
  <2>1. \A m \in L : fate[m] \in {"queued", "handed"}
    BY <1>7
  <2>2. \A m \in Messages : m = net'.post <=> m = net.post /\ m \notin L
    <3> SUFFICES ASSUME NEW m \in Messages
                 PROVE  m = net'.post <=> m = net.post /\ m \notin L
      OBVIOUS
    <3>1. m = net.post => m \notin ToSet(filter.queue)
      BY <1>7
    <3>2. m \in L <=> m \in ToSet(filter.queue) \/ (byUs /\ m = net.post)
      OBVIOUS
    <3> HIDE DEF L
    <3> QED BY <1>4, <1>7, <3>1, <3>2
  <2>3. \A m \in Messages : m \in ToSet(filter'.queue) <=> m \in ToSet(filter.queue) /\ m \notin L
    BY <1>8
  <2>4. L \in SUBSET Messages
    OBVIOUS
  <2> HIDE DEF L
  <2> QED BY <1>1, <1>8, <2>1, <2>2, <2>3, <2>4, Settled
<1>10. Typed'
  BY <1>1, <1>2, <1>5, <1>6, <1>9 DEF Typed
<1>11. Negotiated'
  BY <1>1, <1>2, <1>4 DEF Negotiated
<1>12. QueueHasAWayOut'
  BY <1>4 DEF QueueHasAWayOut
<1> QED BY <1>9, <1>10, <1>11, <1>12 DEF LegacyInv

\* The POST's connection is made, or fails.
LEMMA PostEndsInv ==
  ASSUME LegacyInv, PostConnected \/ PostFailed
  PROVE  LegacyInv'
<1> DEFINE L == {net.post}
<1>1. PICK what \in {"arrived", "failed"} : fate' = [fate EXCEPT ![net.post] = what]
  BY DEF PostConnected, PostFailed
<1>2. /\ net.post # NoMessage /\ net' = [net EXCEPT !.post = NoMessage]
      /\ UNCHANGED <<filter, posted, heard, handed>>
  BY DEF PostConnected, PostFailed
<1>3. Typed /\ Negotiated
  BY DEF LegacyInv
<1>4. /\ net \in [stream : {"connecting", "open", "closed"},
                  server : {"idle", "asked", "stream", "refusal"},
                  wire : Seq({"stream", "refusal", "endpoint"}), announced : Nat,
                  post : Messages \cup {NoMessage}]
      /\ fate \in [Messages -> Fates]
  BY <1>3 DEF Typed
<1>5. net.post \in Messages /\ net'.post = NoMessage /\ net'.stream = net.stream
      /\ net'.wire = net.wire /\ net'.server = net.server
  BY <1>2, <1>4
<1>6. \A m \in Messages : /\ (fate[m] = "queued") <=> m \in ToSet(filter.queue)
                          /\ (fate[m] = "handed") <=> m = net.post
                          /\ m # NoMessage
  BY DEF LegacyInv, InOnePlace, Messages, NoMessage
<1>7. fate' = [m \in Messages |-> IF m \in L THEN what ELSE fate[m]]
  BY <1>1, <1>4
<1>8. Apart' /\ InOnePlace' /\ fate' \in [Messages -> Fates]
  <2>1. /\ \A m \in L : fate[m] \in {"queued", "handed"}
        /\ \A m \in Messages : m \in ToSet(filter'.queue) <=> m \in ToSet(filter.queue) /\ m \notin L
        /\ \A m \in Messages : m = net'.post <=> m = net.post /\ m \notin L
        /\ L \in SUBSET Messages /\ Distinct(filter'.queue)
    BY <1>2, <1>5, <1>6 DEF LegacyInv, Apart
  <2> HIDE DEF L
  <2> QED BY <1>2, <1>7, <2>1, Settled
<1>9. Typed'
  BY <1>2, <1>3, <1>8 DEF Typed
<1>10. Negotiated'
  BY <1>2, <1>3, <1>5 DEF Negotiated
<1>11. QueueHasAWayOut'
  BY <1>2 DEF LegacyInv, QueueHasAWayOut
<1> QED BY <1>8, <1>9, <1>10, <1>11 DEF LegacyInv

LEMMA ServerInv ==
  ASSUME LegacyInv, ServerAnswers \/ ServerAnnounces
  PROVE  LegacyInv'
<1>1. UNCHANGED <<filter, posted, fate, heard, handed>> /\ net.server \in {"asked", "stream"}
  BY DEF ServerAnswers, ServerAnnounces
<1>2. Typed /\ Negotiated
  BY DEF LegacyInv
<1>3. net \in [stream : {"connecting", "open", "closed"},
               server : {"idle", "asked", "stream", "refusal"},
               wire : Seq({"stream", "refusal", "endpoint"}), announced : Nat,
               post : Messages \cup {NoMessage}]
  BY <1>2 DEF Typed
<1>4. \A a \in {"stream", "refusal", "endpoint"} :
        Append(net.wire, a) \in Seq({"stream", "refusal", "endpoint"})
  BY <1>3
<1>5. /\ net'.stream = net.stream /\ net'.post = net.post /\ net'.server # "idle"
      /\ net' \in [stream : {"connecting", "open", "closed"},
                   server : {"idle", "asked", "stream", "refusal"},
                   wire : Seq({"stream", "refusal", "endpoint"}), announced : Nat,
                   post : Messages \cup {NoMessage}]
  <2>1. CASE ServerAnswers
    <3>1. PICK a \in {"stream", "refusal"} : net' = [net EXCEPT !.server = a, !.wire = Append(@, a)]
      BY <2>1 DEF ServerAnswers
    <3>2. Append(net.wire, a) \in Seq({"stream", "refusal", "endpoint"})
      BY <1>4
    <3> QED BY ONLY <1>3, <3>1, <3>2
  <2>2. CASE ServerAnnounces
    <3>1. /\ net' = [net EXCEPT !.announced = @ + 1, !.wire = Append(@, "endpoint")]
          /\ net.server = "stream"
      BY <2>2 DEF ServerAnnounces
    <3>2. Append(net.wire, "endpoint") \in Seq({"stream", "refusal", "endpoint"})
      BY <1>4
    <3>3. net.announced + 1 \in Nat
      BY <1>3
    <3> QED BY ONLY <1>3, <3>1, <3>2, <3>3
  <2> QED BY <1>1, <2>1, <2>2
<1>6. Apart' /\ InOnePlace'
  BY <1>1, <1>5, OnlyTheNet
<1>7. Typed'
  BY <1>1, <1>2, <1>5 DEF Typed
<1>8. Negotiated'
  BY <1>1, <1>2, <1>5 DEF Negotiated
<1>9. QueueHasAWayOut'
  BY <1>1 DEF LegacyInv, QueueHasAWayOut
<1> QED BY <1>6, <1>7, <1>8, <1>9 DEF LegacyInv

LEMMA LegacyNextInv == LegacyInv /\ [LegacyNext]_legacyVars => LegacyInv'
<1> SUFFICES ASSUME LegacyInv, [LegacyNext]_legacyVars PROVE LegacyInv'
  OBVIOUS
<1>1. CASE RunTask
  BY <1>1, RunTaskInv
<1>2. CASE \E m \in Messages : Send(m)
  BY <1>2, SendInv
<1>3. CASE Connected
  BY <1>3, ConnectedInv
<1>4. CASE onHeaders \/ onEvent
  BY <1>4, onHeadersInv, onEventInv
<1>5. CASE onNegotiationTimeout
  BY <1>5, onNegotiationTimeoutInv
<1>6. CASE close \/ RemoteClose
  BY <1>6, EndedInv DEF close, RemoteClose
<1>7. CASE PostConnected \/ PostFailed
  BY <1>7, PostEndsInv
<1>8. CASE ServerAnswers \/ ServerAnnounces
  BY <1>8, ServerInv
<1>9. CASE UNCHANGED legacyVars
  BY <1>9 DEF legacyVars, LegacyInv, Typed, Negotiated, Apart, InOnePlace, QueueHasAWayOut
<1> QED BY <1>1, <1>2, <1>3, <1>4, <1>5, <1>6, <1>7, <1>8, <1>9 DEF LegacyNext

\* QueueSound is an invariant, however many messages the application writes and
\* however often the server announces where to post: the queue of
\* processPendingMessages and the timer of onStateEnter agree with the tasks and
\* the POST under way, nothing is handed over twice, and nothing waits without
\* a way out.
THEOREM LegacyQueueCorrect == LegacySpec => []QueueSound
<1>1. LegacyInv => QueueSound
  <2> SUFFICES ASSUME LegacyInv PROVE QueueSound
    OBVIOUS
  <2>1. LegacyTypeOK
    <3>1. /\ filter \in [sm : States \ {"EndpointReceived"}, timer : BOOLEAN, reading : BOOLEAN,
                         endpoint : BOOLEAN, queue : Seq(Messages)]
          /\ net \in [stream : {"connecting", "open", "closed"},
                      server : {"idle", "asked", "stream", "refusal"},
                      wire : Seq({"stream", "refusal", "endpoint"}), announced : Nat,
                      post : Messages \cup {NoMessage}]
      BY DEF LegacyInv, Typed
    <3>2. /\ filter.sm \in States /\ {filter.reading, filter.endpoint} \subseteq BOOLEAN
          /\ filter.queue \in Seq(Messages) /\ net.post \in Messages \cup {NoMessage}
      BY <3>1
    <3> QED BY <3>2 DEF LegacyInv, Typed, Negotiated, LegacyTypeOK
  <2>2. HandedOnce
    BY DEF LegacyInv, Apart, Distinct, HandedOnce
  <2> QED BY <2>1, <2>2 DEF LegacyInv, QueueSound
<1>2. LegacySpec => []LegacyInv
  BY LegacyInitInv, LegacyNextInv, PTL DEF LegacySpec
<1> QED BY <1>1, <1>2, PTL
-----------------------------------------------------------------------------
(* ClientRequests: what is true of client between two callbacks, in parts. *)

live(S, i) == S.request[i].work # "none" /\ ~S.request[i].settled
calling(S, i) == live(S, i) /\ S.request[i].work = "call"
shaking(S, i) == live(S, i) /\ S.request[i].work = "initialize"

\* j asks how the task of the call i is.
polls(S, j, i) == live(S, j) /\ S.request[j].work = "poll" /\ S.request[j].after = i

\* The tools are listed for i before it is sent again.
Awaited(S, i) ==
  \E k \in RequestIds : live(S, k) /\ S.request[k].work = "list" /\ S.request[k].after = i

Posts(S) == {S.queue[n] : n \in 1..Len(S.queue)}
Does(S, do, i) == [do |-> do, of |-> i] \in Posts(S)
Holds(S) == {S.held[n] : n \in 1..Len(S.held)}
SendsOnce(S) ==
  \A m, n \in 1..Len(S.queue) : S.queue[m].do = "send" /\ S.queue[n] = S.queue[m] => m = n

\* How a promise may be kept.
Hows == Answers \ {"unsent", "waiting"}

\* Work is done under the ids, and for the calls, that it can be.
Called(S) ==
  /\ \A i \in RequestIds :
       /\ S.request[i].work = "call" =>
            S.request[i].origin \in Calls /\ S.answer[S.request[i].origin] # "unsent"
       /\ S.request[i].work # "call" => S.request[i].origin = i
       /\ S.request[i].work \in {"poll", "list"} => S.request[i].after \in RequestIds
       /\ S.request[i].work \notin {"poll", "list"} => S.request[i].after = 0
       /\ live(S, i) /\ S.request[i].after # 0 => S.request[S.request[i].after].work = "call"
       /\ S.request[i].task /\ ~S.request[i].settled => S.request[i].work = "call" /\ Modern
  /\ \A c \in Calls :
       /\ S.request[c].work \in {"none", "call"}
       /\ S.request[c].work = "none" <=> S.answer[c] = "unsent"
       /\ S.answer[c] = "unsent" => S.age[c] = 0
  /\ \A i \in S.polling : S.request[i].work = "call"

\* A caller waits for exactly the calls that go on.
Promised(S) ==
  /\ \A i \in RequestIds : calling(S, i) => S.answer[S.request[i].origin] = "waiting"
  /\ \A i, j \in RequestIds :
       calling(S, i) /\ calling(S, j) /\ S.request[i].origin = S.request[j].origin => i = j
  /\ \A c \in Calls :
       S.answer[c] = "waiting" => \E i \in RequestIds : calling(S, i) /\ S.request[i].origin = c

\* Nothing knows of the call c yet.
Unnamed(S, c) ==
  /\ c \notin S.tracked \cup S.wire \cup S.own \cup S.waiting \cup S.polling \cup Holds(S)
  /\ ~Does(S, "send", c)
  /\ \A j \in RequestIds : live(S, j) => S.request[j].after # c

\* What goes on is tracked, but for x, or about to be.
Tied(S, x) ==
  /\ \A i \in S.tracked : live(S, i)
  /\ \A i \in RequestIds : live(S, i) /\ i # x => i \in S.tracked \/ i \in S.begun
  /\ \A c \in S.begun : /\ calling(S, c) /\ S.request[c].origin = c /\ ~S.request[c].task
                        /\ Unnamed(S, c)
  /\ S.begun # {} => world.threads
  /\ \A i \in S.wire \cup S.own \cup S.waiting \cup S.polling \cup Holds(S) :
       S.request[i].work # "none"
  /\ \A p \in Posts(S) : S.request[p.of].work # "none"

\* No clock goes on past the longest a call may wait, and calls made on the
\* dispatcher have a clock, or one is asked for.
Timed(S, x) ==
  \A o \in RequestIds :
    /\ S.clock[o] # Off => S.age[o] + S.clock[o] <= MaxTime
    /\ Does(S, "start", o) => S.age[o] = 0
    /\ Does(S, "stop", o) => \A i \in RequestIds : live(S, i) => S.request[i].origin # o
    /\ ~world.threads =>
         (calling(S, o) /\ o # x /\ ~S.request[o].task =>
            S.clock[S.request[o].origin] # Off \/ Does(S, "start", S.request[o].origin))

Owned(S) ==
  \A i \in S.own : (live(S, i) /\ S.request[i].sent_apart) \/ Does(S, "close", i)

\* Requests are held for one handshake, each once.
Shaken(S, x) ==
  /\ \A i, j \in RequestIds : shaking(S, i) /\ shaking(S, j) => i = j
  /\ \A i \in RequestIds :
       shaking(S, i) =>
         S.reinitializing /\ (x # 0 /\ S.request[x].work = "initialize" => i = x)
  /\ S.held # <<>> => S.reinitializing
  /\ \A m, n \in 1..Len(S.held) : S.held[m] = S.held[n] => m = n
  /\ \A i \in Holds(S) :
       /\ live(S, i) => S.request[i].session_retried
       /\ world.steady => S.request[i].work = "call"

ShakingGoesOn(S, x) ==
  world.steady /\ S.reinitializing =>
    (\E i \in RequestIds : shaking(S, i)) \/ (x # 0 /\ S.request[x].work = "initialize")

\* While connections hold, what is carried on with is heard of, and a task is
\* asked about or will be.
Carried(S, x) ==
  world.steady =>
    /\ S.net = "up" /\ S.waiting = {}
    /\ \A i \in RequestIds :
         /\ S.request[i].settled /\ S.request[i].work \in {"initialize", "poll", "list"} /\ i # x =>
              S.request[i].told
         /\ live(S, i) /\ S.request[i].task /\ i # x =>
              \/ i \in S.polling \/ \E j \in RequestIds : polls(S, j, i)
              \/ x # 0 /\ S.request[x].work = "poll" /\ S.request[x].after = i

\* While connections hold, a call is sent, listed for or a task, one at a time.
OneWay(S) ==
  world.steady /\ Modern =>
    /\ S.held = <<>> /\ SendsOnce(S)
    /\ \A i \in RequestIds : live(S, i) =>
         /\ i \in S.wire => ~Does(S, "send", i) /\ ~S.request[i].task /\ ~Awaited(S, i)
         /\ Does(S, "send", i) => ~S.request[i].task /\ ~Awaited(S, i)
         /\ S.request[i].task => ~Awaited(S, i)

\* All of it, while x, if any, is being ended.
Nearly(S, x) ==
  /\ S \in Client /\ x \in RequestIds \cup {0}
  /\ Called(S) /\ Promised(S) /\ Tied(S, x) /\ Timed(S, x) /\ Owned(S)
  /\ Shaken(S, x) /\ Carried(S, x) /\ OneWay(S)

Sound(S, x) == Nearly(S, x) /\ ShakingGoesOn(S, x)

-----------------------------------------------------------------------------
(* How the parts of a callback change it.                                  *)

\* T may come after S: nothing begins, and what is over stays over.
Leads(S, T) ==
  /\ S \in Client /\ T \in Client
  /\ \A k \in RequestIds :
       /\ T.request[k].work = S.request[k].work
       /\ T.request[k].origin = S.request[k].origin
       /\ T.request[k].after = S.request[k].after
       /\ S.request[k].settled => T.request[k].settled
       /\ S.request[k].told => T.request[k].told
       /\ ~T.request[k].settled =>
            /\ T.request[k].task = S.request[k].task
            /\ S.request[k].sent_apart => T.request[k].sent_apart
            /\ S.request[k].session_retried => T.request[k].session_retried
  /\ \A c \in Calls :
       /\ S.answer[c] \in Hows => T.answer[c] = S.answer[c]
       /\ S.answer[c] = "unsent" <=> T.answer[c] = "unsent"
  /\ T.begun = S.begun
  /\ \A k \in T.wire \ S.wire : ~S.request[k].settled

\* A request that may be put on the wire.
Clear(S, i) ==
  /\ S.request[i].work # "none" /\ i \notin S.begun
  /\ world.steady /\ Modern /\ live(S, i) =>
       ~Does(S, "send", i) /\ ~S.request[i].task /\ ~Awaited(S, i)

\* T comes after S by ending some, sending some and posting some, and no work
\* is left undone for it but x's.
Calm(S, T, x) ==
  /\ Leads(S, T)
  /\ T.age = S.age /\ T.clock = S.clock /\ T.held = S.held
  /\ T.reinitializing = S.reinitializing
  /\ \A c \in Calls : T.answer[c] # S.answer[c] =>
       \A k \in RequestIds : ~(calling(T, k) /\ T.request[k].origin = c)
  /\ \A k \in RequestIds : live(S, k) /\ ~live(T, k) =>
       /\ k \notin S.begun
       /\ S.request[k].work = "call" => T.answer[S.request[k].origin] # "waiting"
       /\ world.steady => k = x \/ S.request[k].work = "call"
  /\ \A k \in T.tracked : k \in S.tracked /\ live(T, k)
  /\ \A k \in S.tracked : live(T, k) /\ k # x => k \in T.tracked
  /\ \A k \in T.wire : k \in S.wire \/ Clear(S, k)
  /\ \A k \in T.own : k \in S.own \/ (live(T, k) /\ T.request[k].sent_apart /\ k \notin S.begun)
  /\ \A k \in T.own : live(S, k) /\ S.request[k].sent_apart =>
       live(T, k) \/ Does(T, "close", k)
  /\ \A k \in T.waiting \ S.waiting : S.request[k].work # "none" /\ k \notin S.begun
  /\ \A k \in T.polling \ S.polling : S.request[k].work = "call" /\ k \notin S.begun
  /\ Posts(S) \subseteq Posts(T)
  /\ \A p \in Posts(T) \ Posts(S) :
       /\ S.request[p.of].work # "none" /\ p.do \in {"stop", "close", "send"}
       /\ p.do = "stop" => \A k \in RequestIds : live(T, k) => T.request[k].origin # p.of
       /\ p.do = "send" => p.of \notin S.begun /\ ~world.steady
  /\ world.steady =>
       /\ T.net = S.net /\ T.waiting \subseteq S.waiting
       /\ \A k \in S.polling : live(T, k) => k \in T.polling \/ k = x
       /\ SendsOnce(S) => SendsOnce(T)

\* The same requests, asked otherwise.
Alike(S, T) ==
  /\ S \in Client /\ T \in Client
  /\ \A k \in RequestIds :
       /\ T.request[k].work = S.request[k].work
       /\ T.request[k].origin = S.request[k].origin
       /\ T.request[k].after = S.request[k].after
       /\ T.request[k].settled = S.request[k].settled
       /\ S.request[k].told => T.request[k].told
       /\ T.request[k].task = S.request[k].task
       /\ S.request[k].sent_apart => T.request[k].sent_apart
       /\ S.request[k].session_retried => T.request[k].session_retried
  /\ T.answer = S.answer /\ T.age = S.age /\ T.clock = S.clock /\ T.held = S.held
  /\ T.reinitializing = S.reinitializing /\ T.begun = S.begun /\ T.tracked = S.tracked

\* The same requests; a callback has been taken, or a clock has moved.
Moved(S, T, x) ==
  /\ S \in Client /\ T \in Client
  /\ T.request = S.request /\ T.tracked = S.tracked /\ T.answer = S.answer
  /\ T.held = S.held /\ T.reinitializing = S.reinitializing /\ T.begun = S.begun
  /\ T.wire \subseteq S.wire /\ T.waiting \subseteq S.waiting
  /\ T.polling \subseteq S.polling /\ T.own \subseteq S.own
  /\ \A c \in Calls : S.answer[c] = "unsent" => T.age[c] = 0
  /\ \A p \in Posts(T) \ Posts(S) : S.request[p.of].work # "none" /\ p.do # "send"
  /\ world.steady =>
       /\ T.net = S.net /\ (SendsOnce(S) => SendsOnce(T))
       /\ \A i \in S.polling \ T.polling : live(S, i) /\ S.request[i].task /\ i # x =>
            \E j \in RequestIds : polls(S, j, i)

\* What the properties of a step ask of it.
Follows(S, T) ==
  /\ \A c \in Calls : S.answer[c] \in Hows => T.answer[c] = S.answer[c]
  /\ \A k \in T.wire \ S.wire : ~S.request[k].settled \/ ~T.request[k].settled

\* The client's own request j, as it begins; and when it may.
Asked(S, work, j, after) ==
  [S EXCEPT !.request[j] = NewContext(work, j, after), !.tracked = @ \cup {j}, !.age[j] = 0]

Askable(S, x, work, after) ==
  /\ work \in {"initialize", "poll", "list", "cancel"}
  /\ work \in {"initialize", "cancel"} => after = 0
  /\ work \in {"poll", "list"} =>
       after \in RequestIds /\ calling(S, after) /\ after \notin S.begun
  /\ work = "initialize" =>
       /\ S.reinitializing /\ \A i \in RequestIds : ~shaking(S, i)
       /\ x # 0 => S.request[x].work # "initialize"
  /\ work = "list" /\ world.steady /\ Modern =>
       after \notin S.wire /\ ~Does(S, "send", after) /\ ~S.request[after].task

-----------------------------------------------------------------------------
LEMMA Constants ==
  /\ Calls \subseteq RequestIds /\ RequestIds \subseteq Nat /\ 0 \notin RequestIds
  /\ 0 \in 0..MaxRedials + 1 /\ 1 \in 0..MaxRedials + 1
  /\ 0 \in 0..MaxRounds /\ 0 \in 0..MaxResumes
  /\ Off \in Nat /\ 0 \in 0..Off /\ Off \in 0..Off /\ \A n \in 0..MaxTime : n \in 0..Off /\ n # Off
BY RequestsAssumption DEF Calls, RequestIds, Off

\* A context by its fields.
LEMMA ContextIs ==
  ASSUME NEW r \in Context
  PROVE  /\ r.work \in Works /\ r.origin \in RequestIds /\ r.after \in RequestIds \cup {0}
         /\ r.apart \in BOOLEAN /\ r.sent_apart \in BOOLEAN /\ r.extends \in BOOLEAN
         /\ r.settled \in BOOLEAN /\ r.told \in BOOLEAN
         /\ r.retries \in 0..MaxRedials + 1
         /\ r.session_retried \in BOOLEAN /\ r.header_retried \in BOOLEAN
         /\ r.rounds \in 0..MaxRounds /\ r.resumes \in 0..MaxResumes /\ r.task \in BOOLEAN
BY DEF Context

LEMMA NewContextIs ==
  \A w \in Works, o \in RequestIds, a \in RequestIds \cup {0} :
    /\ NewContext(w, o, a) \in Context
    /\ NewContext(w, o, a).work = w /\ NewContext(w, o, a).origin = o
    /\ NewContext(w, o, a).after = a
    /\ ~NewContext(w, o, a).settled /\ ~NewContext(w, o, a).told
    /\ ~NewContext(w, o, a).task /\ ~NewContext(w, o, a).sent_apart
    /\ ~NewContext(w, o, a).session_retried /\ ~NewContext(w, o, a).apart
    /\ NewContext(w, o, a).retries = 0
BY Constants DEF NewContext, Context

LEMMA OverIs ==
  \A r \in Context :
    /\ Over(r) \in Context
    /\ Over(r).work = r.work /\ Over(r).origin = r.origin /\ Over(r).after = r.after
    /\ Over(r).settled /\ Over(r).told = r.told /\ ~Over(r).task /\ ~Over(r).sent_apart
<1> SUFFICES ASSUME NEW r \in Context
             PROVE  /\ Over(r) \in Context
                    /\ Over(r).work = r.work /\ Over(r).origin = r.origin
                    /\ Over(r).after = r.after
                    /\ Over(r).settled /\ Over(r).told = r.told
                    /\ ~Over(r).task /\ ~Over(r).sent_apart
  OBVIOUS
<1> DEFINE n == NewContext(r.work, r.origin, r.after)
<1>1. /\ n \in Context /\ n.work = r.work /\ n.origin = r.origin /\ n.after = r.after
      /\ ~n.task /\ ~n.sent_apart /\ r.told \in BOOLEAN
  BY ContextIs, NewContextIs
<1>2. Over(r) = [n EXCEPT !.settled = TRUE, !.told = r.told]
  BY DEF Over
<1> HIDE DEF n
<1> QED BY <1>1, <1>2 DEF Context

\* A client by its fields.
LEMMA ClientIs ==
  ASSUME NEW S \in Client
  PROVE  /\ S.request \in [RequestIds -> Context] /\ S.tracked \subseteq RequestIds
         /\ S.answer \in [Calls -> Answers] /\ S.age \in [RequestIds -> 0..Off]
         /\ S.clock \in [RequestIds -> 0..Off] /\ S.queue \in Seq(Post)
         /\ S.waiting \subseteq RequestIds /\ S.polling \subseteq RequestIds
         /\ S.net \in {"up", "down", "dialing"}
         /\ S.wire \subseteq RequestIds /\ S.own \subseteq RequestIds
         /\ S.held \in Seq(RequestIds) /\ S.session \in BOOLEAN
         /\ S.reinitializing \in BOOLEAN /\ S.begun \subseteq Calls
         /\ \A p \in Posts(S) : p \in Post /\ p.of \in RequestIds
         /\ Holds(S) \subseteq RequestIds
<1>1. /\ S.queue \in Seq(Post) /\ S.held \in Seq(RequestIds)
  BY DEF Client
<1>2. \A n \in 1..Len(S.queue) : S.queue[n] \in Post
  BY <1>1, ElementOfSeq
<1>3. \A p \in Post : p.of \in RequestIds
  BY DEF Post
<1>4. \A n \in 1..Len(S.held) : S.held[n] \in RequestIds
  BY <1>1, ElementOfSeq
<1> QED BY <1>1, <1>2, <1>3, <1>4 DEF Client, Posts, Holds

LEMMA PutIs ==
  ASSUME NEW S \in Client, NEW do \in {"start", "stop", "send", "abandon", "close"},
         NEW i \in RequestIds, NEW T, T = Put(S, do, i)
  PROVE  /\ T \in Client
         /\ T = [S EXCEPT !.queue = T.queue]
         /\ Posts(T) = Posts(S) \cup {[do |-> do, of |-> i]}
         /\ SendsOnce(S) /\ do # "send" => SendsOnce(T)
         /\ SendsOnce(S) /\ ~Does(S, "send", i) => SendsOnce(T)
<1> DEFINE p == [do |-> do, of |-> i]
<1>1. p \in Post /\ S.queue \in Seq(Post) /\ p.do = do /\ p.of = i
  BY ClientIs DEF Post
<1>2. T = [S EXCEPT !.queue = Append(S.queue, p)]
  BY DEF Put
<1>3. Does(S, do, i) <=> p \in Posts(S)
  BY DEF Does
<1> HIDE DEF p
<1>4. T \in Client /\ T.queue = Append(S.queue, p)
  <2>1. Append(S.queue, p) \in Seq(Post)
    BY <1>1
  <2> QED BY <1>2, <2>1 DEF Client
<1>5. /\ Len(T.queue) = Len(S.queue) + 1 /\ T.queue[Len(S.queue) + 1] = p
      /\ \A n \in 1..Len(S.queue) : T.queue[n] = S.queue[n] /\ n \in 1..Len(T.queue)
      /\ Len(S.queue) \in Nat
      /\ \A n \in 1..Len(T.queue) : n \in 1..Len(S.queue) \/ n = Len(S.queue) + 1
      /\ Len(S.queue) + 1 \in 1..Len(T.queue)
  BY <1>1, <1>4
<1>6. Posts(T) = Posts(S) \cup {p}
  BY <1>5 DEF Posts
<1>7. T = [S EXCEPT !.queue = T.queue]
  BY <1>2, <1>4
<1>8. SendsOnce(S) /\ (do # "send" \/ ~Does(S, "send", i)) => SendsOnce(T)
  <2> SUFFICES ASSUME SendsOnce(S), do = "send" => p \notin Posts(S),
                      NEW m \in 1..Len(T.queue), NEW n \in 1..Len(T.queue),
                      T.queue[m].do = "send", T.queue[n] = T.queue[m]
               PROVE  m = n
    BY <1>3 DEF SendsOnce
  <2>1. CASE m \in 1..Len(S.queue) /\ n \in 1..Len(S.queue)
    BY <2>1, <1>5 DEF SendsOnce
  <2>2. CASE m \in 1..Len(S.queue) /\ n = Len(S.queue) + 1
    BY <2>2, <1>1, <1>5 DEF Posts
  <2>3. CASE n \in 1..Len(S.queue) /\ m = Len(S.queue) + 1
    BY <2>3, <1>1, <1>5 DEF Posts
  <2> QED BY <2>1, <2>2, <2>3, <1>5
<1> QED BY <1>4, <1>6, <1>7, <1>8 DEF p

\* The callbacks that are posted.
LEMMA StartIs ==
  ASSUME NEW S \in Client, NEW i \in RequestIds, NEW T, T = Put(S, "start", i)
  PROVE  /\ T \in Client /\ T = [S EXCEPT !.queue = T.queue]
         /\ Posts(T) = Posts(S) \cup {[do |-> "start", of |-> i]}
         /\ SendsOnce(S) => SendsOnce(T)
<1>1. T \in Client
  BY PutIs, ZenonT(30)
<1>2. T = [S EXCEPT !.queue = T.queue]
  BY PutIs, ZenonT(30)
<1>3. Posts(T) = Posts(S) \cup {[do |-> "start", of |-> i]}
  BY PutIs, ZenonT(30)
<1>4. SendsOnce(S) => SendsOnce(T)
  BY PutIs, ZenonT(30)
<1> QED BY <1>1, <1>2, <1>3, <1>4

LEMMA StopIs ==
  ASSUME NEW S \in Client, NEW i \in RequestIds, NEW T, T = Put(S, "stop", i)
  PROVE  /\ T \in Client /\ T = [S EXCEPT !.queue = T.queue]
         /\ Posts(T) = Posts(S) \cup {[do |-> "stop", of |-> i]}
         /\ SendsOnce(S) => SendsOnce(T)
<1>1. T \in Client
  BY PutIs, ZenonT(30)
<1>2. T = [S EXCEPT !.queue = T.queue]
  BY PutIs, ZenonT(30)
<1>3. Posts(T) = Posts(S) \cup {[do |-> "stop", of |-> i]}
  BY PutIs, ZenonT(30)
<1>4. SendsOnce(S) => SendsOnce(T)
  BY PutIs, ZenonT(30)
<1> QED BY <1>1, <1>2, <1>3, <1>4

LEMMA AbandonIs ==
  ASSUME NEW S \in Client, NEW i \in RequestIds, NEW T, T = Put(S, "abandon", i)
  PROVE  /\ T \in Client /\ T = [S EXCEPT !.queue = T.queue]
         /\ Posts(T) = Posts(S) \cup {[do |-> "abandon", of |-> i]}
         /\ SendsOnce(S) => SendsOnce(T)
<1>1. T \in Client
  BY PutIs, ZenonT(30)
<1>2. T = [S EXCEPT !.queue = T.queue]
  BY PutIs, ZenonT(30)
<1>3. Posts(T) = Posts(S) \cup {[do |-> "abandon", of |-> i]}
  BY PutIs, ZenonT(30)
<1>4. SendsOnce(S) => SendsOnce(T)
  BY PutIs, ZenonT(30)
<1> QED BY <1>1, <1>2, <1>3, <1>4

LEMMA CloseIs ==
  ASSUME NEW S \in Client, NEW i \in RequestIds, NEW T, T = Put(S, "close", i)
  PROVE  /\ T \in Client /\ T = [S EXCEPT !.queue = T.queue]
         /\ Posts(T) = Posts(S) \cup {[do |-> "close", of |-> i]}
         /\ SendsOnce(S) => SendsOnce(T)
<1>1. T \in Client
  BY PutIs, ZenonT(30)
<1>2. T = [S EXCEPT !.queue = T.queue]
  BY PutIs, ZenonT(30)
<1>3. Posts(T) = Posts(S) \cup {[do |-> "close", of |-> i]}
  BY PutIs, ZenonT(30)
<1>4. SendsOnce(S) => SendsOnce(T)
  BY PutIs, ZenonT(30)
<1> QED BY <1>1, <1>2, <1>3, <1>4

LEMMA SendPostIs ==
  ASSUME NEW S \in Client, NEW i \in RequestIds, NEW T, T = Put(S, "send", i)
  PROVE  /\ T \in Client /\ T = [S EXCEPT !.queue = T.queue]
         /\ Posts(T) = Posts(S) \cup {[do |-> "send", of |-> i]}
         /\ SendsOnce(S) /\ ~Does(S, "send", i) => SendsOnce(T)
<1>1. T \in Client
  BY PutIs, ZenonT(30)
<1>2. T = [S EXCEPT !.queue = T.queue]
  BY PutIs, ZenonT(30)
<1>3. Posts(T) = Posts(S) \cup {[do |-> "send", of |-> i]}
  BY PutIs, ZenonT(30)
<1>4. SendsOnce(S) /\ ~Does(S, "send", i) => SendsOnce(T)
  BY PutIs, ZenonT(30)
<1> QED BY <1>1, <1>2, <1>3, <1>4

\* An id that nothing refers to.
LEMMA FreeIs ==
  ASSUME NEW S \in Client, NEW i
  PROVE  i \in Free(S) <=>
           /\ i \in RequestIds \ Calls
           /\ S.request[i].work = "none" \/ S.request[i].settled
           /\ i \notin S.tracked \cup S.wire \cup S.own \cup S.waiting \cup S.polling
           /\ S.clock[i] = Off
           /\ \A p \in Posts(S) : p.of # i
           /\ i \notin Holds(S)
           /\ \A j \in RequestIds : S.request[j].after = i => S.request[j].settled
BY DEF Free, Posts, Holds

LEMMA FreshIs ==
  ASSUME NEW S, Free(S) # {}
  PROVE  Fresh(S) \in Free(S) /\ Fresh(S) \in RequestIds
<1>1. Free(S) \subseteq Nat /\ Free(S) \subseteq RequestIds
  BY Constants DEF Free
<1>2. \E x \in Free(S) : \A y \in Free(S) : x <= y
  BY <1>1, LeastNumber
<1> QED BY <1>1, <1>2 DEF Fresh

LEMMA TwoFree ==
  ASSUME NEW S, Cardinality(Free(S)) >= 2
  PROVE  Free(S) # {}
BY FS_EmptySet

LEMMA Leading ==
  ASSUME NEW S, NEW T, Leads(S, T)
  PROVE  /\ \A k \in RequestIds : live(T, k) => live(S, k)
         /\ \A k \in RequestIds : calling(T, k) => calling(S, k)
         /\ \A k \in RequestIds : shaking(T, k) => shaking(S, k)
         /\ \A k, i \in RequestIds : polls(T, k, i) => polls(S, k, i)
         /\ \A k \in RequestIds : Awaited(T, k) => Awaited(S, k)
         /\ \A k \in RequestIds :
              live(T, k) => T.request[k].task = S.request[k].task
BY DEF Leads, live, calling, shaking, polls, Awaited

LEMMA LeadsOn ==
  ASSUME NEW S, NEW T, NEW U, Leads(S, T), Leads(T, U)
  PROVE  Leads(S, U)
<1>1. /\ S \in Client /\ U \in Client /\ U.begun = S.begun
      /\ \A c \in Calls :
           /\ S.answer[c] \in Hows => U.answer[c] = S.answer[c]
           /\ S.answer[c] = "unsent" <=> U.answer[c] = "unsent"
  BY DEF Leads
<1>2. \A k \in RequestIds :
       /\ U.request[k].work = S.request[k].work
       /\ U.request[k].origin = S.request[k].origin
       /\ U.request[k].after = S.request[k].after
       /\ S.request[k].settled => U.request[k].settled
       /\ S.request[k].told => U.request[k].told
       /\ ~U.request[k].settled =>
            /\ U.request[k].task = S.request[k].task
            /\ S.request[k].sent_apart => U.request[k].sent_apart
            /\ S.request[k].session_retried => U.request[k].session_retried
  BY DEF Leads
<1>3. \A k \in U.wire \ S.wire : ~S.request[k].settled
  <2>1. U.wire \subseteq RequestIds
    BY ClientIs DEF Leads
  <2> QED BY <2>1 DEF Leads
<1> QED BY <1>1, <1>2, <1>3 DEF Leads

LEMMA CalmCalled ==
  ASSUME NEW S, NEW T, NEW x, Calm(S, T, x), Called(S)
  PROVE  Called(T)
<1>1. Leads(S, T) /\ T.age = S.age
  BY DEF Calm
<1>2. \A i \in RequestIds :
       /\ T.request[i].work = "call" =>
            T.request[i].origin \in Calls /\ T.answer[T.request[i].origin] # "unsent"
       /\ T.request[i].work # "call" => T.request[i].origin = i
       /\ T.request[i].work \in {"poll", "list"} => T.request[i].after \in RequestIds
       /\ T.request[i].work \notin {"poll", "list"} => T.request[i].after = 0
       /\ T.request[i].task /\ ~T.request[i].settled => T.request[i].work = "call" /\ Modern
  BY <1>1 DEF Called, Leads
<1>3. \A i \in RequestIds :
        live(T, i) /\ T.request[i].after # 0 => T.request[T.request[i].after].work = "call"
  <2> SUFFICES ASSUME NEW i \in RequestIds, live(T, i), T.request[i].after # 0
               PROVE  T.request[T.request[i].after].work = "call"
    OBVIOUS
  <2>1. live(S, i) /\ T.request[i].after = S.request[i].after
    BY <1>1, Leading DEF Leads
  <2>2. S.request[i].after \in RequestIds
    BY <2>1 DEF Called
  <2> QED BY <1>1, <2>1, <2>2 DEF Called, Leads
<1>4. \A c \in Calls :
       /\ T.request[c].work \in {"none", "call"}
       /\ T.request[c].work = "none" <=> T.answer[c] = "unsent"
       /\ T.answer[c] = "unsent" => T.age[c] = 0
  BY <1>1, Constants DEF Called, Leads
<1>5. \A i \in T.polling : T.request[i].work = "call"
  BY <1>1, ClientIs DEF Called, Leads, Calm
<1> QED BY <1>2, <1>3, <1>4, <1>5 DEF Called

LEMMA CalmPromised ==
  ASSUME NEW S, NEW T, NEW x, Calm(S, T, x), Called(S), Promised(S)
  PROVE  Promised(T)
<1>1. Leads(S, T)
  BY DEF Calm
<1>2. \A i \in RequestIds : calling(T, i) =>
        /\ calling(S, i) /\ T.request[i].origin = S.request[i].origin
        /\ T.request[i].origin \in Calls
  BY <1>1, Leading DEF Leads, Called, calling
<1>3. \A i \in RequestIds : calling(T, i) => T.answer[T.request[i].origin] = "waiting"
  BY <1>2 DEF Calm, Promised
<1>4. \A i, j \in RequestIds :
       calling(T, i) /\ calling(T, j) /\ T.request[i].origin = T.request[j].origin => i = j
  BY <1>2 DEF Promised
<1>5. ASSUME NEW c \in Calls, T.answer[c] = "waiting"
      PROVE  \E i \in RequestIds : calling(T, i) /\ T.request[i].origin = c
  <2>1. S.answer[c] \in Answers
    BY <1>1, ClientIs DEF Leads
  <2>2. S.answer[c] = "waiting"
    BY <1>1, <1>5, <2>1 DEF Leads, Hows
  <2>3. PICK i \in RequestIds : calling(S, i) /\ S.request[i].origin = c
    BY <2>2 DEF Promised
  <2>4. live(T, i)
    BY <1>5, <2>3 DEF Calm, calling
  <2> QED BY <1>1, <2>3, <2>4 DEF calling, Leads
<1> QED BY <1>3, <1>4, <1>5 DEF Promised

LEMMA CalmTied ==
  ASSUME NEW S, NEW T, NEW x, Calm(S, T, x), Tied(S, x)
  PROVE  Tied(T, x)
<1>1. /\ Leads(S, T) /\ T.held = S.held /\ Holds(T) = Holds(S) /\ T.begun = S.begun
      /\ S \in Client /\ T \in Client
  BY DEF Calm, Leads, Holds
<1>2. \A i \in T.tracked : live(T, i)
  BY DEF Calm
<1>3. \A i \in RequestIds : live(T, i) /\ i # x => i \in T.tracked \/ i \in T.begun
  BY <1>1, Leading DEF Calm, Tied
<1>4. ASSUME NEW c \in T.begun
      PROVE  /\ calling(T, c) /\ T.request[c].origin = c /\ ~T.request[c].task /\ Unnamed(T, c)
  <2>1. /\ c \in S.begun /\ c \in Calls /\ c \in RequestIds
        /\ calling(S, c) /\ S.request[c].origin = c /\ ~S.request[c].task /\ Unnamed(S, c)
    BY <1>1, <1>4, ClientIs, Constants DEF Tied
  <2>2. live(T, c)
    BY <2>1 DEF Calm, calling
  <2>3. calling(T, c) /\ T.request[c].origin = c /\ ~T.request[c].task
    BY <1>1, <2>1, <2>2, Leading DEF Leads, calling
  <2>4. c \notin T.tracked \cup T.wire \cup T.own \cup T.waiting \cup T.polling \cup Holds(T)
    BY <1>1, <2>1 DEF Calm, Unnamed, Clear
  <2>5. ~Does(T, "send", c)
    <3> DEFINE p == [do |-> "send", of |-> c]
    <3>1. p.do = "send" /\ p.of = c
      OBVIOUS
    <3>2. p \notin Posts(S)
      BY <2>1 DEF Unnamed, Does
    <3>3. SUFFICES p \notin Posts(T)
      BY DEF Does
    <3> HIDE DEF p
    <3> QED BY <2>1, <3>1, <3>2 DEF Calm
  <2>6. \A j \in RequestIds : live(T, j) => T.request[j].after # c
    BY <1>1, <2>1, Leading DEF Leads, Unnamed
  <2> QED BY <2>3, <2>4, <2>5, <2>6 DEF Unnamed
<1>5. T.begun # {} => world.threads
  BY <1>1 DEF Tied
<1>6. \A i \in T.wire \cup T.own \cup T.waiting \cup T.polling \cup Holds(T) :
        T.request[i].work # "none"
  <2> SUFFICES ASSUME NEW i \in T.wire \cup T.own \cup T.waiting \cup T.polling \cup Holds(T)
               PROVE  T.request[i].work # "none"
    OBVIOUS
  <2>1. i \in RequestIds
    BY <1>1, ClientIs
  <2>2. S.request[i].work # "none" \/ T.request[i].work # "none"
    BY <1>1 DEF Calm, Tied, Clear, live
  <2> QED BY <1>1, <2>1, <2>2 DEF Leads
<1>7. \A p \in Posts(T) : T.request[p.of].work # "none"
  <2> SUFFICES ASSUME NEW p \in Posts(T) PROVE T.request[p.of].work # "none"
    OBVIOUS
  <2>1. p.of \in RequestIds
    BY <1>1, ClientIs
  <2>2. S.request[p.of].work # "none"
    BY DEF Calm, Tied
  <2> QED BY <1>1, <2>1, <2>2 DEF Leads
<1> QED BY <1>2, <1>3, <1>4, <1>5, <1>6, <1>7 DEF Tied

LEMMA CalmTimed ==
  ASSUME NEW S, NEW T, NEW x, Calm(S, T, x), Timed(S, x)
  PROVE  Timed(T, x)
<1>1. Leads(S, T) /\ T.age = S.age /\ T.clock = S.clock /\ Posts(S) \subseteq Posts(T)
  BY DEF Calm
<1>2. ASSUME NEW o \in RequestIds, Does(T, "start", o)
      PROVE  Does(S, "start", o)
  <2> DEFINE p == [do |-> "start", of |-> o]
  <2>1. p.do = "start" /\ p \in Posts(T)
    BY <1>2 DEF Does
  <2>2. SUFFICES p \in Posts(S)
    BY DEF Does
  <2> HIDE DEF p
  <2> QED BY <2>1 DEF Calm
<1>3. ASSUME NEW o \in RequestIds, Does(T, "stop", o), NEW i \in RequestIds, live(T, i)
      PROVE  T.request[i].origin # o
  <2> DEFINE p == [do |-> "stop", of |-> o]
  <2>1. p.do = "stop" /\ p.of = o /\ p \in Posts(T)
    BY <1>3 DEF Does
  <2>2. p \in Posts(S) => Does(S, "stop", o)
    BY DEF Does
  <2> HIDE DEF p
  <2>3. CASE p \in Posts(S)
    BY <1>1, <1>3, <2>2, <2>3, Leading DEF Timed, Leads
  <2>4. CASE p \notin Posts(S)
    BY <1>3, <2>1, <2>4 DEF Calm
  <2> QED BY <2>3, <2>4
<1>4. ASSUME ~world.threads,
             NEW o \in RequestIds, calling(T, o), o # x, ~T.request[o].task
      PROVE  T.clock[T.request[o].origin] # Off \/ Does(T, "start", T.request[o].origin)
  <2>1. /\ calling(S, o) /\ ~S.request[o].task /\ S.request[o].origin = T.request[o].origin
    BY <1>1, <1>4, Leading DEF Leads, calling
  <2> QED BY <1>1, <1>4, <2>1 DEF Timed, Does
<1> QED BY <1>1, <1>2, <1>3, <1>4 DEF Timed

LEMMA CalmOwned ==
  ASSUME NEW S, NEW T, NEW x, Calm(S, T, x), Owned(S)
  PROVE  Owned(T)
<1> SUFFICES ASSUME NEW i \in T.own
             PROVE  (live(T, i) /\ T.request[i].sent_apart) \/ Does(T, "close", i)
  BY DEF Owned
<1>1. Leads(S, T) /\ Posts(S) \subseteq Posts(T) /\ i \in RequestIds
  BY ClientIs DEF Calm, Leads
<1>2. CASE i \notin S.own
  BY <1>2 DEF Calm
<1>3. CASE i \in S.own /\ Does(S, "close", i)
  BY <1>1, <1>3 DEF Does
<1>4. CASE live(S, i) /\ S.request[i].sent_apart
  BY <1>1, <1>4 DEF Calm, Leads, live
<1> QED BY <1>2, <1>3, <1>4 DEF Owned

LEMMA CalmShaken ==
  ASSUME NEW S, NEW T, NEW x, x \in RequestIds \cup {0}, Calm(S, T, x), Shaken(S, x)
  PROVE  Shaken(T, x)
<1>1. /\ Leads(S, T) /\ T.held = S.held /\ Holds(T) = Holds(S)
      /\ T.reinitializing = S.reinitializing /\ S \in Client
  BY DEF Calm, Leads, Holds
<1>2. \A i, j \in RequestIds : shaking(T, i) /\ shaking(T, j) => i = j
  BY <1>1, Leading DEF Shaken
<1>3. \A i \in RequestIds : shaking(T, i) =>
        T.reinitializing /\ (x # 0 /\ T.request[x].work = "initialize" => i = x)
  BY <1>1, Leading DEF Shaken, Leads
<1>4. \A i \in Holds(T) : /\ live(T, i) => T.request[i].session_retried
                          /\ world.steady => T.request[i].work = "call"
  <2>1. Holds(S) \subseteq RequestIds
    BY <1>1, ClientIs
  <2> QED BY <1>1, <2>1, Leading DEF Shaken, Leads, live
<1> QED BY <1>1, <1>2, <1>3, <1>4 DEF Shaken

LEMMA CalmShakingGoesOn ==
  ASSUME NEW S, NEW T, NEW x, x \in RequestIds \cup {0}, Calm(S, T, x), ShakingGoesOn(S, x)
  PROVE  ShakingGoesOn(T, x)
<1> SUFFICES ASSUME world.steady, T.reinitializing
             PROVE  (\E i \in RequestIds : shaking(T, i)) \/ (x # 0 /\ T.request[x].work = "initialize")
  BY DEF ShakingGoesOn
<1>1. Leads(S, T) /\ S.reinitializing
  BY DEF Calm
<1>2. CASE x # 0 /\ S.request[x].work = "initialize"
  BY <1>1, <1>2 DEF Leads
<1>3. ASSUME NEW i \in RequestIds, shaking(S, i)
      PROVE  shaking(T, i) \/ (x # 0 /\ T.request[x].work = "initialize")
  <2>1. live(T, i) \/ i = x
    BY <1>3 DEF Calm, shaking
  <2> QED BY <1>1, <1>3, <2>1, Constants DEF Leads, shaking
<1> QED BY <1>1, <1>2, <1>3 DEF ShakingGoesOn

LEMMA CalmCarried ==
  ASSUME NEW S, NEW T, NEW x, x \in RequestIds \cup {0}, Calm(S, T, x), Carried(S, x),
         \A i \in RequestIds : S.request[i].work \in Works
  PROVE  Carried(T, x)
<1> SUFFICES ASSUME world.steady
             PROVE  /\ T.net = "up" /\ T.waiting = {}
                    /\ \A i \in RequestIds :
                         /\ T.request[i].settled
                            /\ T.request[i].work \in {"initialize", "poll", "list"} /\ i # x =>
                              T.request[i].told
                         /\ live(T, i) /\ T.request[i].task /\ i # x =>
                              \/ i \in T.polling \/ \E j \in RequestIds : polls(T, j, i)
                              \/ x # 0 /\ T.request[x].work = "poll" /\ T.request[x].after = i
  BY DEF Carried
<1>1. Leads(S, T) /\ T.net = "up" /\ T.waiting = {}
  BY DEF Calm, Carried
<1>2. ASSUME NEW i \in RequestIds, T.request[i].settled,
             T.request[i].work \in {"initialize", "poll", "list"}, i # x
      PROVE  T.request[i].told
  <2>1. S.request[i].work \in {"initialize", "poll", "list"}
    BY <1>1, <1>2 DEF Leads
  <2>2. S.request[i].settled
    BY <1>2, <2>1 DEF Calm, live
  <2> QED BY <1>1, <1>2, <2>1, <2>2 DEF Leads, Carried
<1>3. ASSUME NEW i \in RequestIds, live(T, i), T.request[i].task, i # x
      PROVE  \/ i \in T.polling \/ \E j \in RequestIds : polls(T, j, i)
             \/ x # 0 /\ T.request[x].work = "poll" /\ T.request[x].after = i
  <2>1. live(S, i) /\ S.request[i].task
    BY <1>1, <1>3, Leading
  <2>2. CASE i \in S.polling
    BY <1>3, <2>2 DEF Calm
  <2>3. ASSUME NEW j \in RequestIds, polls(S, j, i)
        PROVE  \/ polls(T, j, i)
               \/ x # 0 /\ T.request[x].work = "poll" /\ T.request[x].after = i
    <3>1. live(T, j) \/ j = x
      BY <2>3 DEF Calm, polls
    <3> QED BY <1>1, <2>3, <3>1, Constants DEF Leads, polls
  <2>4. CASE x # 0 /\ S.request[x].work = "poll" /\ S.request[x].after = i
    BY <1>1, <2>4 DEF Leads
  <2> QED BY <1>3, <2>1, <2>2, <2>3, <2>4 DEF Carried
<1> QED BY <1>1, <1>2, <1>3

LEMMA CalmOneWay ==
  ASSUME NEW S, NEW T, NEW x, Calm(S, T, x), OneWay(S)
  PROVE  OneWay(T)
<1> SUFFICES ASSUME world.steady, Modern
             PROVE  /\ T.held = <<>> /\ SendsOnce(T)
                    /\ \A i \in RequestIds : live(T, i) =>
                         /\ i \in T.wire =>
                              ~Does(T, "send", i) /\ ~T.request[i].task /\ ~Awaited(T, i)
                         /\ Does(T, "send", i) => ~T.request[i].task /\ ~Awaited(T, i)
                         /\ T.request[i].task => ~Awaited(T, i)
  BY DEF OneWay
<1>1. Leads(S, T) /\ T.held = <<>> /\ SendsOnce(T)
  BY DEF Calm, OneWay
<1>2. \A i \in RequestIds : Does(T, "send", i) => Does(S, "send", i)
  <2> SUFFICES ASSUME NEW i \in RequestIds, Does(T, "send", i) PROVE Does(S, "send", i)
    OBVIOUS
  <2> DEFINE p == [do |-> "send", of |-> i]
  <2>1. p.do = "send" /\ p \in Posts(T)
    BY DEF Does
  <2>2. SUFFICES p \in Posts(S)
    BY DEF Does
  <2> HIDE DEF p
  <2> QED BY <2>1 DEF Calm
<1>3. ASSUME NEW i \in RequestIds, live(T, i)
      PROVE  /\ i \in T.wire => ~Does(T, "send", i) /\ ~T.request[i].task /\ ~Awaited(T, i)
             /\ Does(T, "send", i) => ~T.request[i].task /\ ~Awaited(T, i)
             /\ T.request[i].task => ~Awaited(T, i)
  <2>1. live(S, i) /\ S.request[i].task = T.request[i].task /\ (Awaited(T, i) => Awaited(S, i))
    BY <1>1, <1>3, Leading
  <2>2. i \in T.wire => i \in S.wire \/ Clear(S, i)
    BY DEF Calm
  <2> QED BY <1>2, <2>1, <2>2 DEF OneWay, Clear
<1> QED BY <1>1, <1>3

\* What is true between two callbacks stays so.
LEMMA CalmSound ==
  ASSUME NEW S, NEW T, NEW x, Nearly(S, x), Calm(S, T, x)
  PROVE  Nearly(T, x) /\ (Sound(S, x) => Sound(T, x))
<1>1. T \in Client /\ S \in Client
  BY DEF Calm, Leads
<1>2. \A i \in RequestIds : S.request[i].work \in Works
  BY <1>1, ClientIs, ContextIs
<1>3. Called(T) /\ Promised(T) /\ Tied(T, x) /\ Timed(T, x) /\ Owned(T) /\ OneWay(T)
  BY CalmCalled, CalmPromised, CalmTied, CalmTimed, CalmOwned, CalmOneWay DEF Nearly
<1>4. Shaken(T, x) /\ Carried(T, x)
  BY <1>2, CalmShaken, CalmCarried DEF Nearly
<1>5. ShakingGoesOn(S, x) => ShakingGoesOn(T, x)
  BY CalmShakingGoesOn DEF Nearly
<1> QED BY <1>1, <1>3, <1>4, <1>5 DEF Nearly, Sound

LEMMA Singled ==
  ASSUME NEW S, NEW x \in RequestIds, Sound(S, 0), live(S, x)
  PROVE  Sound(S, x)
<1>1. x # 0
  BY Constants
<1>2. Tied(S, x) /\ Timed(S, x)
  <2>1. \A k \in RequestIds : k # 0
    BY Constants
  <2>2. Tied(S, x)
    BY <2>1 DEF Sound, Nearly, Tied
  <2>3. Timed(S, x)
    BY <2>1 DEF Sound, Nearly, Timed
  <2> QED BY <2>2, <2>3
<1>3. Shaken(S, x)
  BY <1>1 DEF Sound, Nearly, Shaken, shaking
<1>4. Carried(S, x) /\ ShakingGoesOn(S, x)
  BY <1>1, Constants DEF Sound, Nearly, Carried, ShakingGoesOn
<1> QED BY <1>2, <1>3, <1>4 DEF Sound, Nearly

LEMMA UntrackedIs ==
  ASSUME NEW S \in Client, NEW i \in RequestIds, NEW T, T = Untracked(S, i)
  PROVE  /\ T \in Client /\ T.request = S.request /\ T.tracked = S.tracked \ {i}
         /\ T.answer = S.answer /\ T.age = S.age /\ T.clock = S.clock /\ T.queue = S.queue
         /\ T.waiting = S.waiting \ {i} /\ T.polling = S.polling \ {i} /\ T.net = S.net
         /\ T.wire = S.wire /\ T.own = S.own /\ T.held = S.held /\ T.session = S.session
         /\ T.reinitializing = S.reinitializing /\ T.begun = S.begun
         /\ Posts(T) = Posts(S)
<1>1. /\ T \in Client /\ T.request = S.request /\ T.tracked = S.tracked \ {i}
      /\ T.answer = S.answer /\ T.age = S.age /\ T.clock = S.clock /\ T.queue = S.queue
      /\ T.waiting = S.waiting \ {i} /\ T.polling = S.polling \ {i} /\ T.net = S.net
      /\ T.wire = S.wire /\ T.own = S.own /\ T.held = S.held /\ T.session = S.session
      /\ T.reinitializing = S.reinitializing /\ T.begun = S.begun
  BY DEF Client, Untracked
<1> QED BY <1>1 DEF Posts

LEMMA UntrackedCalm ==
  ASSUME NEW S, NEW x, Nearly(S, x), NEW i \in RequestIds, i = x \/ ~live(S, i),
         NEW T, T = Untracked(S, i)
  PROVE  Calm(S, T, x)
<1>1. /\ S \in Client /\ Tied(S, x)
  BY DEF Nearly
<1>2. /\ T \in Client /\ T.request = S.request /\ T.tracked = S.tracked \ {i}
      /\ T.answer = S.answer /\ T.age = S.age /\ T.clock = S.clock /\ T.queue = S.queue
      /\ T.waiting = S.waiting \ {i} /\ T.polling = S.polling \ {i} /\ T.net = S.net
      /\ T.wire = S.wire /\ T.own = S.own /\ T.held = S.held
      /\ T.reinitializing = S.reinitializing /\ T.begun = S.begun
      /\ Posts(T) = Posts(S)
  BY <1>1, UntrackedIs
<1>3. Leads(S, T)
  BY <1>1, <1>2 DEF Leads
<1>4. \A k \in T.tracked : k \in S.tracked /\ live(T, k)
  BY <1>1, <1>2 DEF Tied, live
<1>5. SendsOnce(S) => SendsOnce(T)
  BY <1>2 DEF SendsOnce
<1> QED BY <1>1, <1>2, <1>3, <1>4, <1>5 DEF Calm, live, Does

LEMMA OnSettledIs ==
  ASSUME NEW S \in Client, NEW i \in RequestIds, NEW T, T = OnSettled(S, i)
  PROVE  /\ T \in Client /\ T = [S EXCEPT !.queue = T.queue]
         /\ Posts(S) \subseteq Posts(T)
         /\ Posts(T) \subseteq Posts(S) \cup {[do |-> "stop", of |-> S.request[i].origin],
                                              [do |-> "close", of |-> i]}
         /\ S.request[i].sent_apart => Does(T, "close", i)
         /\ SendsOnce(S) => SendsOnce(T)
<1>1. PICK o \in RequestIds : o = S.request[i].origin
  BY ClientIs, ContextIs
<1>2. PICK U : U = IF S.request[i].work \in {"call", "poll", "cancel"} THEN Put(S, "stop", o) ELSE S
  OBVIOUS
<1>3. T = IF S.request[i].sent_apart THEN Put(U, "close", i) ELSE U
  BY <1>1, <1>2 DEF OnSettled
<1>4. /\ U \in Client /\ U = [S EXCEPT !.queue = U.queue]
      /\ Posts(S) \subseteq Posts(U)
      /\ Posts(U) \subseteq Posts(S) \cup {[do |-> "stop", of |-> o]}
      /\ SendsOnce(S) => SendsOnce(U)
  <2>1. CASE U = S
    <3>1. S = [S EXCEPT !.queue = S.queue]
      BY DEF Client
    <3> QED BY <2>1, <3>1
  <2>2. CASE U = Put(S, "stop", o)
    <3>1. /\ U \in Client /\ U = [S EXCEPT !.queue = U.queue]
          /\ Posts(U) = Posts(S) \cup {[do |-> "stop", of |-> o]}
      BY <2>2, StopIs
    <3>2. ASSUME SendsOnce(S) PROVE SendsOnce(U)
      BY <2>2, <3>2, StopIs
    <3> QED BY <3>1, <3>2
  <2> QED BY <1>2, <2>1, <2>2
<1>5. CASE S.request[i].sent_apart
  <2>1. T = Put(U, "close", i) /\ U \in Client
    BY <1>3, <1>4, <1>5
  <2>2. /\ T \in Client /\ T = [U EXCEPT !.queue = T.queue]
        /\ Posts(T) = Posts(U) \cup {[do |-> "close", of |-> i]}
    BY <2>1, CloseIs
  <2>3. ASSUME SendsOnce(U) PROVE SendsOnce(T)
    BY <2>1, <2>3, CloseIs
  <2>4. T = [S EXCEPT !.queue = T.queue]
    BY <1>4, <2>2
  <2> QED BY <1>1, <1>4, <1>5, <2>2, <2>3, <2>4 DEF Does
<1>6. CASE ~S.request[i].sent_apart
  BY <1>1, <1>3, <1>4, <1>6
<1> QED BY <1>5, <1>6

LEMMA EndedIs ==
  ASSUME NEW S \in Client, NEW i \in RequestIds, NEW how \in Hows,
         NEW T, T = EndedWith(S, i, how)
  PROVE  /\ T \in Client /\ T.tracked = S.tracked \ {i}
         /\ T.waiting = S.waiting \ {i} /\ T.polling = S.polling \ {i}
         /\ T.age = S.age /\ T.clock = S.clock /\ T.net = S.net
         /\ T.wire = S.wire /\ T.own = S.own /\ T.held = S.held /\ T.session = S.session
         /\ T.reinitializing = S.reinitializing /\ T.begun = S.begun
         /\ \A k \in RequestIds : k # i => T.request[k] = S.request[k]
         /\ T.request[i] = IF S.request[i].settled THEN S.request[i] ELSE Over(S.request[i])
         /\ \A c \in Calls : T.answer[c] =
              IF ~S.request[i].settled /\ S.request[i].work = "call" /\ c = S.request[i].origin
              THEN how ELSE S.answer[c]
         /\ S.request[i].settled => T.queue = S.queue
         /\ Posts(S) \subseteq Posts(T)
         /\ Posts(T) \subseteq Posts(S) \cup {[do |-> "stop", of |-> S.request[i].origin],
                                              [do |-> "close", of |-> i]}
         /\ ~S.request[i].settled /\ S.request[i].sent_apart => Does(T, "close", i)
         /\ SendsOnce(S) => SendsOnce(T)
<1> DEFINE r == S.request[i]
           F == Finish(S, i, how)
           O == OnSettled(S, i)
<1>1. /\ r \in Context /\ how \in Answers /\ S.request \in [RequestIds -> Context]
      /\ S.answer \in [Calls -> Answers]
  BY ClientIs DEF Hows
<1>2. /\ F \in Client /\ F = [S EXCEPT !.queue = F.queue, !.request = F.request,
                                       !.answer = F.answer]
      /\ \A k \in RequestIds : k # i => F.request[k] = S.request[k]
      /\ F.request[i] = IF r.settled THEN r ELSE Over(r)
      /\ \A c \in Calls : F.answer[c] =
           IF ~r.settled /\ r.work = "call" /\ c = r.origin THEN how ELSE S.answer[c]
      /\ r.settled => F.queue = S.queue
      /\ ~r.settled => F.queue = O.queue
  <2>1. CASE r.settled
    <3>1. F = S
      BY <2>1 DEF Finish
    <3>2. S = [S EXCEPT !.queue = S.queue, !.request = S.request, !.answer = S.answer]
      BY DEF Client
    <3> HIDE DEF F
    <3> QED BY <2>1, <3>1, <3>2
  <2>2. CASE ~r.settled
    <3>1. O \in Client /\ O = [S EXCEPT !.queue = O.queue]
      BY OnSettledIs
    <3>2. Over(r) \in Context
      BY <1>1, OverIs
    <3> DEFINE G == [O EXCEPT !.request[i] = Over(@)]
    <3> HIDE DEF O
    <3>3. /\ O.request = S.request /\ O.answer = S.answer
      BY <3>1 DEF Client
    <3>4. /\ G \in Client /\ G = [S EXCEPT !.queue = G.queue, !.request = G.request]
          /\ G.answer = S.answer /\ G.queue = O.queue
          /\ \A k \in RequestIds : k # i => G.request[k] = S.request[k]
          /\ G.request[i] = Over(r)
      BY <1>1, <3>1, <3>2, <3>3 DEF Client
    <3>5. F = IF r.work = "call" THEN [G EXCEPT !.answer[r.origin] = how] ELSE G
      BY <2>2 DEF Finish, O
    <3> HIDE DEF F, G
    <3>6. CASE r.work = "call"
      <4>1. F = [G EXCEPT !.answer[r.origin] = how]
        BY <3>5, <3>6
      <4>2. /\ F \in Client /\ F.request = G.request /\ F.queue = G.queue
            /\ \A c \in Calls : F.answer[c] = IF c = r.origin THEN how ELSE S.answer[c]
        BY <1>1, <3>4, <4>1 DEF Client
      <4>3. F = [S EXCEPT !.queue = F.queue, !.request = F.request, !.answer = F.answer]
        BY <3>4, <4>1 DEF Client
      <4> QED BY <2>2, <3>4, <3>6, <4>2, <4>3
    <3>7. CASE r.work # "call"
      <4>1. F = G
        BY <3>5, <3>7
      <4>2. F = [S EXCEPT !.queue = F.queue, !.request = F.request, !.answer = F.answer]
        BY <3>4, <4>1 DEF Client
      <4> QED BY <2>2, <3>4, <3>7, <4>1, <4>2
    <3> QED BY <3>6, <3>7
  <2> QED BY <2>1, <2>2
<1>3. T = Untracked(F, i)
  BY DEF EndedWith
<1>4. /\ Posts(S) \subseteq Posts(O)
      /\ Posts(O) \subseteq Posts(S) \cup {[do |-> "stop", of |-> r.origin],
                                           [do |-> "close", of |-> i]}
      /\ r.sent_apart => Does(O, "close", i)
      /\ SendsOnce(S) => SendsOnce(O)
  BY OnSettledIs
<1> HIDE DEF F, O
<1>5. /\ T \in Client /\ T.request = F.request /\ T.answer = F.answer /\ T.queue = F.queue
      /\ T.tracked = S.tracked \ {i}
      /\ T.waiting = S.waiting \ {i} /\ T.polling = S.polling \ {i}
      /\ T.age = S.age /\ T.clock = S.clock /\ T.net = S.net
      /\ T.wire = S.wire /\ T.own = S.own /\ T.held = S.held /\ T.session = S.session
      /\ T.reinitializing = S.reinitializing /\ T.begun = S.begun
  <2>1. /\ F.tracked = S.tracked /\ F.waiting = S.waiting /\ F.polling = S.polling
        /\ F.age = S.age /\ F.clock = S.clock /\ F.net = S.net
        /\ F.wire = S.wire /\ F.own = S.own /\ F.held = S.held /\ F.session = S.session
        /\ F.reinitializing = S.reinitializing /\ F.begun = S.begun
    BY <1>2 DEF Client
  <2> QED BY <1>2, <1>3, <2>1, UntrackedIs
<1>6. /\ r.settled => Posts(T) = Posts(S)
      /\ ~r.settled => Posts(T) = Posts(O) /\ (Does(O, "close", i) => Does(T, "close", i))
      /\ r.settled /\ SendsOnce(S) => SendsOnce(T)
      /\ ~r.settled /\ SendsOnce(O) => SendsOnce(T)
  BY <1>2, <1>5 DEF Posts, SendsOnce, Does
<1> QED BY <1>2, <1>4, <1>5, <1>6

LEMMA EndedCalm ==
  ASSUME NEW S, NEW x, Nearly(S, x), NEW i \in RequestIds, NEW how \in Hows,
         S.request[i].work # "none", i \notin S.begun,
         world.steady /\ live(S, i) => i = x \/ S.request[i].work = "call",
         NEW T, T = EndedWith(S, i, how)
  PROVE  Calm(S, T, x) /\ T.request[i].settled
<1>1. /\ S \in Client /\ Called(S) /\ Promised(S) /\ Tied(S, x)
  BY DEF Nearly
<1>2. /\ T \in Client /\ T.tracked = S.tracked \ {i}
      /\ T.waiting = S.waiting \ {i} /\ T.polling = S.polling \ {i}
      /\ T.age = S.age /\ T.clock = S.clock /\ T.net = S.net
      /\ T.wire = S.wire /\ T.own = S.own /\ T.held = S.held
      /\ T.reinitializing = S.reinitializing /\ T.begun = S.begun
      /\ \A k \in RequestIds : k # i => T.request[k] = S.request[k]
      /\ T.request[i] = IF S.request[i].settled THEN S.request[i] ELSE Over(S.request[i])
      /\ \A c \in Calls : T.answer[c] =
           IF ~S.request[i].settled /\ S.request[i].work = "call" /\ c = S.request[i].origin
           THEN how ELSE S.answer[c]
      /\ S.request[i].settled => T.queue = S.queue
      /\ Posts(S) \subseteq Posts(T)
      /\ Posts(T) \subseteq Posts(S) \cup {[do |-> "stop", of |-> S.request[i].origin],
                                           [do |-> "close", of |-> i]}
      /\ ~S.request[i].settled /\ S.request[i].sent_apart => Does(T, "close", i)
      /\ SendsOnce(S) => SendsOnce(T)
  BY <1>1, EndedIs
<1>3. S.request[i] \in Context
  BY <1>1, ClientIs
<1>4. /\ T.request[i].settled /\ T.request[i].work = S.request[i].work
      /\ T.request[i].origin = S.request[i].origin /\ T.request[i].after = S.request[i].after
      /\ T.request[i].told = S.request[i].told
  BY <1>2, <1>3, OverIs
<1>5. /\ S.request[i].work = "call" =>
           /\ S.request[i].origin \in Calls
           /\ ~S.request[i].settled => S.answer[S.request[i].origin] = "waiting"
      /\ how \in Hows /\ how # "unsent" /\ how # "waiting"
  BY <1>1 DEF Called, Promised, calling, live, Hows
<1>6. Leads(S, T)
  <2>1. \A k \in RequestIds :
       /\ T.request[k].work = S.request[k].work
       /\ T.request[k].origin = S.request[k].origin
       /\ T.request[k].after = S.request[k].after
       /\ S.request[k].settled => T.request[k].settled
       /\ S.request[k].told => T.request[k].told
       /\ ~T.request[k].settled =>
            /\ T.request[k].task = S.request[k].task
            /\ S.request[k].sent_apart => T.request[k].sent_apart
            /\ S.request[k].session_retried => T.request[k].session_retried
    BY <1>2, <1>4
  <2>2. \A c \in Calls :
       /\ S.answer[c] \in Hows => T.answer[c] = S.answer[c]
       /\ S.answer[c] = "unsent" <=> T.answer[c] = "unsent"
    BY <1>2, <1>5 DEF Hows
  <2> QED BY <1>1, <1>2, <2>1, <2>2 DEF Leads
<1>7. \A k \in RequestIds : live(T, k) => k # i /\ live(S, k) /\ T.request[k] = S.request[k]
  BY <1>2, <1>4 DEF live
<1>8. ASSUME ~S.request[i].settled, NEW k \in RequestIds, live(T, k)
      PROVE  T.request[k].origin # S.request[i].origin
  <2>1. k # i /\ live(S, k) /\ T.request[k] = S.request[k]
    BY <1>7, <1>8
  <2>2. CASE S.request[i].work = "call" /\ S.request[k].work = "call"
    BY <1>1, <1>8, <2>1, <2>2 DEF Promised, calling, live
  <2>3. CASE S.request[i].work = "call" /\ S.request[k].work # "call"
    <3>1. S.request[k].origin = k /\ S.request[i].origin \in Calls
      BY <1>1, <2>3 DEF Called
    <3>2. k \notin Calls
      BY <1>1, <2>1, <2>3 DEF Called, live
    <3> QED BY <2>1, <3>1, <3>2
  <2>4. CASE S.request[i].work # "call" /\ S.request[k].work = "call"
    <3>1. S.request[i].origin = i /\ S.request[k].origin \in Calls
      BY <1>1, <2>4 DEF Called
    <3>2. i \notin Calls
      BY <1>1, <2>4 DEF Called
    <3> QED BY <2>1, <3>1, <3>2
  <2>5. CASE S.request[i].work # "call" /\ S.request[k].work # "call"
    BY <1>1, <2>1, <2>5 DEF Called
  <2> QED BY <2>2, <2>3, <2>4, <2>5
<1>9. \A c \in Calls : T.answer[c] # S.answer[c] =>
        \A k \in RequestIds : ~(calling(T, k) /\ T.request[k].origin = c)
  BY <1>2, <1>8 DEF calling
<1>10. \A k \in RequestIds : live(S, k) /\ ~live(T, k) => k = i
  BY <1>2 DEF live
<1>11. \A k \in RequestIds : live(S, k) /\ ~live(T, k) =>
       /\ k \notin S.begun
       /\ S.request[k].work = "call" => T.answer[S.request[k].origin] # "waiting"
       /\ world.steady => k = x \/ S.request[k].work = "call"
  BY <1>2, <1>5, <1>10 DEF live
<1>12. \A k \in T.tracked : k \in S.tracked /\ live(T, k)
  BY <1>1, <1>2, ClientIs DEF Tied, live
<1>13. \A k \in S.tracked : live(T, k) /\ k # x => k \in T.tracked
  BY <1>1, <1>2, <1>7, ClientIs
<1>14. \A k \in T.own : live(S, k) /\ S.request[k].sent_apart =>
         live(T, k) \/ Does(T, "close", k)
  BY <1>1, <1>2, <1>10, ClientIs DEF live
<1>15. ASSUME NEW p \in Posts(T) \ Posts(S)
       PROVE  /\ S.request[p.of].work # "none" /\ p.do \in {"stop", "close", "send"}
              /\ p.do = "stop" => \A k \in RequestIds : live(T, k) => T.request[k].origin # p.of
              /\ p.do = "send" => p.of \notin S.begun /\ ~world.steady
  <2>1. ~S.request[i].settled
    BY <1>2, <1>15 DEF Posts
  <2>2. S.request[S.request[i].origin].work # "none"
    BY <1>1, <1>5 DEF Called
  <2>3. CASE p = [do |-> "stop", of |-> S.request[i].origin]
    BY <1>8, <2>1, <2>2, <2>3
  <2>4. CASE p = [do |-> "close", of |-> i]
    BY <2>4
  <2> QED BY <1>2, <1>15, <2>3, <2>4
<1>16. \A k \in S.polling : live(T, k) => k \in T.polling \/ k = x
  BY <1>1, <1>2, <1>7, ClientIs
<1>17. /\ T.wire = S.wire /\ T.own = S.own /\ T.waiting \subseteq S.waiting
       /\ T.polling \subseteq S.polling
  BY <1>2
<1> QED BY <1>2, <1>4, <1>6, <1>9, <1>11, <1>12, <1>13, <1>14, <1>15, <1>16, <1>17 DEF Calm

\* Connections that are lost take nothing with them but what is on the wire.
LEMMA LostCalm ==
  ASSUME NEW S, NEW x, Nearly(S, x), ~world.steady,
         NEW T \in Client, T = [S EXCEPT !.net = T.net, !.wire = T.wire, !.own = T.own],
         T.wire \subseteq S.wire, T.own \subseteq S.own
  PROVE  Calm(S, T, x)
<1>1. S \in Client /\ Tied(S, x)
  BY DEF Nearly
<1>2. /\ T.request = S.request /\ T.tracked = S.tracked /\ T.answer = S.answer
      /\ T.age = S.age /\ T.clock = S.clock /\ T.queue = S.queue /\ T.waiting = S.waiting
      /\ T.polling = S.polling /\ T.held = S.held
      /\ T.reinitializing = S.reinitializing /\ T.begun = S.begun
  BY <1>1 DEF Client
<1>3. Leads(S, T)
  BY <1>1, <1>2 DEF Leads
<1>4. \A k \in T.tracked : k \in S.tracked /\ live(T, k)
  BY <1>1, <1>2 DEF Tied, live
<1>5. Posts(T) = Posts(S)
  BY <1>2 DEF Posts
<1> QED BY <1>2, <1>3, <1>4, <1>5 DEF Calm, live

\* What is kept while those that waited long are failed by a close.
Failing(S, x) ==
  {U \in Client : /\ Nearly(U, x) /\ (Sound(S, x) => Sound(U, x)) /\ Leads(S, U)
                  /\ U.wire = S.wire}

LEMMA FailedByCloseIs ==
  ASSUME NEW S, NEW x, Nearly(S, x), ~world.steady, NEW T, T = FailedByClose(S)
  PROVE  T \in Failing(S, x)
<1> DEFINE old == {i \in S.tracked : S.age[S.request[i].origin] >= Timeout}
           failed[n \in 0..MaxIds] ==
             IF n = 0 THEN S
             ELSE IF n \in old THEN EndedWith(failed[n - 1], n, "failed") ELSE failed[n - 1]
           Good == Failing(S, x)
           G == [n \in 0..MaxIds |-> Good]
           g == [p \in (1..MaxIds) \X Client |->
                   IF p[1] \in old THEN EndedWith(p[2], p[1], "failed") ELSE p[2]]
<1>1. T = failed[MaxIds]
  BY DEF FailedByClose
<1>2. MaxIds \in Nat /\ S \in Client
  BY RequestsAssumption DEF Nearly
<1>3. S \in Good /\ Good \subseteq Client
  <2>1. Leads(S, S)
    BY <1>2 DEF Leads
  <2> QED BY <1>2, <2>1 DEF Failing
<1>4. ASSUME NEW n \in 1..MaxIds, NEW U \in Good, n \in old
      PROVE  EndedWith(U, n, "failed") \in Good
  <2>1. /\ Nearly(U, x) /\ (Sound(S, x) => Sound(U, x)) /\ Leads(S, U) /\ U.wire = S.wire
        /\ U \in Client
    BY DEF Failing
  <2>2. n \in RequestIds /\ n \in S.tracked /\ "failed" \in Hows
    BY <1>4 DEF RequestIds, Hows, Answers
  <2>3. S.request[n].work # "none" /\ n \notin S.begun
    BY <2>2 DEF Nearly, Tied, live, Unnamed
  <2>4. U.request[n].work # "none" /\ n \notin U.begun
    BY <2>1, <2>2, <2>3 DEF Leads
  <2> DEFINE V == EndedWith(U, n, "failed")
  <2>5. Calm(U, V, x)
    BY <2>1, <2>2, <2>4, EndedCalm
  <2>6. V.wire = U.wire /\ V \in Client
    BY <2>1, <2>2, EndedIs
  <2> HIDE DEF V
  <2>7. Nearly(V, x) /\ (Sound(U, x) => Sound(V, x))
    BY <2>1, <2>5, CalmSound
  <2>8. Leads(S, V)
    BY <2>1, <2>5, LeadsOn DEF Calm
  <2>9. V \in Good
    BY <2>1, <2>6, <2>7, <2>8 DEF Failing
  <2> QED BY <2>9 DEF V
<1> HIDE DEF Good
<1>5. \A n \in 1..MaxIds : \A U \in G[n - 1] : g[<<n, U>>] \in G[n]
  <2>0. \A k \in 0..MaxIds : G[k] = Good
    OBVIOUS
  <2>2. \A n \in 1..MaxIds : n \in 0..MaxIds /\ n - 1 \in 0..MaxIds
    BY <1>2
  <2> SUFFICES ASSUME NEW n \in 1..MaxIds, NEW U \in Good PROVE g[<<n, U>>] \in Good
    <3> HIDE DEF G, g
    <3> QED BY <2>0, <2>2
  <2>1. g[<<n, U>>] = IF n \in old THEN EndedWith(U, n, "failed") ELSE U
    BY <1>3
  <2> HIDE DEF g, old
  <2> QED BY <1>4, <2>1
<1>6. PICK f \in [0..MaxIds -> Client] :
        /\ f[0] = S /\ \A n \in 1..MaxIds : f[n] = g[<<n, f[n - 1]>>]
        /\ \A n \in 0..MaxIds : f[n] \in G[n]
  <2>1. \A n \in 0..MaxIds : G[n] \subseteq Client
    BY <1>3
  <2>2. S \in G[0]
    BY <1>2, <1>3
  <2> HIDE DEF G, g, failed
  <2>3. GoodSteps(MaxIds, Client, G, g, S)
    BY <1>2, <1>5, <2>1, <2>2 DEF GoodSteps
  <2> QED BY <2>3, StepByStep
<1>7. \A n \in 0..MaxIds : n # 0 =>
        /\ n \in 1..MaxIds
        /\ f[n] = IF n \in old THEN EndedWith(f[n - 1], n, "failed") ELSE f[n - 1]
  <2> SUFFICES ASSUME NEW n \in 0..MaxIds, n # 0
               PROVE  /\ n \in 1..MaxIds
                      /\ f[n] = IF n \in old THEN EndedWith(f[n - 1], n, "failed") ELSE f[n - 1]
    OBVIOUS
  <2>1. n \in 1..MaxIds /\ n - 1 \in 0..MaxIds
    BY <1>2
  <2>2. f[n - 1] \in Client /\ f[n] = g[<<n, f[n - 1]>>]
    BY <1>6, <2>1
  <2> QED BY <2>1, <2>2
<1>8. f = [n \in 0..MaxIds |->
             IF n = 0 THEN S
             ELSE IF n \in old THEN EndedWith(f[n - 1], n, "failed") ELSE f[n - 1]]
  <2> HIDE DEF G, g, old
  <2> QED BY <1>2, <1>6, <1>7
<1>9. failed = [n \in 0..MaxIds |->
                  IF n = 0 THEN S
                  ELSE IF n \in old THEN EndedWith(failed[n - 1], n, "failed") ELSE failed[n - 1]]
  <2> HIDE DEF old
  <2> QED BY <1>8
<1>10. /\ failed[0] \in G[0]
       /\ \A n \in 1..MaxIds : failed[n - 1] \in G[n - 1] => failed[n] \in G[n]
  <2> HIDE DEF failed
  <2>1. failed[0] = S
    BY <1>2, <1>9
  <2>2. \A n \in 1..MaxIds : failed[n] =
          IF n \in old THEN EndedWith(failed[n - 1], n, "failed") ELSE failed[n - 1]
    BY <1>2, <1>9
  <2> HIDE DEF old
  <2> QED BY <1>2, <1>3, <1>4, <2>1, <2>2
<1>11. \A n \in 0..MaxIds : failed[n] \in G[n]
  <2> HIDE DEF G, failed
  <2> QED BY <1>2, <1>10, StaysGood
<1>12. failed[MaxIds] \in Good
  <2> HIDE DEF failed
  <2> QED BY <1>2, <1>11
<1> QED BY <1>1, <1>12 DEF Good

LEMMA ClosedIs ==
  ASSUME NEW S, NEW x, Nearly(S, x), ~world.steady,
         NEW to \in {"up", "down", "dialing"}, NEW T, T = Closed(S, to)
  PROVE  /\ Nearly(T, x) /\ (Sound(S, x) => Sound(T, x)) /\ Leads(S, T)
         /\ T.wire \subseteq S.wire
<1> DEFINE wire == IF S.net = "down" THEN S.wire ELSE S.wire \cap S.own
           U == [S EXCEPT !.net = to, !.wire = wire]
<1>1. S \in Client
  BY DEF Nearly
<1>2. /\ U \in Client /\ U = [S EXCEPT !.net = U.net, !.wire = U.wire, !.own = U.own]
      /\ U.wire \subseteq S.wire /\ U.own = S.own
  <2>1. wire \subseteq RequestIds /\ wire \subseteq S.wire
    BY <1>1, ClientIs
  <2> HIDE DEF wire
  <2> QED BY <1>1, <2>1 DEF Client
<1>3. T = IF S.net = "down" THEN U ELSE FailedByClose(U)
  <2>1. CASE S.net = "down"
    <3>1. T = [S EXCEPT !.net = to] /\ wire = S.wire
      BY <2>1 DEF Closed
    <3> HIDE DEF wire
    <3>2. [S EXCEPT !.net = to, !.wire = wire] = [S EXCEPT !.net = to]
      BY <1>1, <3>1 DEF Client
    <3> QED BY <2>1, <3>1, <3>2
  <2>2. CASE S.net # "down"
    BY <2>2 DEF Closed
  <2> QED BY <2>1, <2>2
<1> HIDE DEF U
<1>4. Calm(S, U, x)
  BY <1>1, <1>2, LostCalm
<1>5. Nearly(U, x) /\ (Sound(S, x) => Sound(U, x)) /\ Leads(S, U)
  BY <1>4, CalmSound DEF Calm
<1>6. CASE S.net = "down"
  BY <1>2, <1>3, <1>5, <1>6
<1>7. CASE S.net # "down"
  <2>1. T \in Failing(U, x)
    BY <1>3, <1>5, <1>7, FailedByCloseIs
  <2>2. Nearly(T, x) /\ (Sound(U, x) => Sound(T, x)) /\ Leads(U, T) /\ T.wire = U.wire
    BY <2>1 DEF Failing
  <2> QED BY <1>2, <1>5, <2>2, LeadsOn
<1> QED BY <1>6, <1>7

LEMMA RedialledIs ==
  ASSUME NEW S, NEW x, Nearly(S, x), ~world.steady, NEW T, T = Redialled(S)
  PROVE  /\ Nearly(T, x) /\ (Sound(S, x) => Sound(T, x)) /\ Leads(S, T) /\ T.wire = {}
<1>1. PICK U : U = Closed(S, "dialing")
  OBVIOUS
<1>2. /\ Nearly(U, x) /\ (Sound(S, x) => Sound(U, x)) /\ Leads(S, U)
  BY <1>1, ClosedIs
<1>3. T = [U EXCEPT !.own = {}, !.wire = {}] /\ U \in Client
  BY <1>1, <1>2 DEF Redialled, Nearly
<1>4. /\ T \in Client /\ T = [U EXCEPT !.net = T.net, !.wire = T.wire, !.own = T.own]
      /\ T.wire = {} /\ T.own = {}
  BY <1>3 DEF Client
<1>5. Calm(U, T, x)
  BY <1>2, <1>4, LostCalm
<1> QED BY <1>2, <1>4, <1>5, CalmSound, LeadsOn DEF Calm

LEMMA AlikeCalm ==
  ASSUME NEW S, NEW x, Nearly(S, x), NEW T, Alike(S, T),
         \A k \in T.wire : k \in S.wire \/ (Clear(S, k) /\ ~S.request[k].settled),
         \A k \in T.own : k \in S.own \/ (live(T, k) /\ T.request[k].sent_apart /\ k \notin S.begun),
         \A k \in T.waiting \ S.waiting :
           S.request[k].work # "none" /\ k \notin S.begun /\ ~world.steady,
         S.polling \subseteq T.polling,
         \A k \in T.polling \ S.polling : S.request[k].work = "call" /\ k \notin S.begun,
         Posts(S) \subseteq Posts(T),
         \A p \in Posts(T) \ Posts(S) :
           S.request[p.of].work # "none" /\ p.do = "send" /\ p.of \notin S.begun /\ ~world.steady,
         world.steady => T.net = S.net /\ (SendsOnce(S) => SendsOnce(T))
  PROVE  Calm(S, T, x)
<1>1. S \in Client /\ T \in Client /\ Tied(S, x) /\ T.tracked = S.tracked
  BY DEF Nearly, Alike
<1>2. \A k \in RequestIds : live(T, k) <=> live(S, k)
  BY DEF Alike, live
<1>3. Leads(S, T)
  BY DEF Alike, Leads
<1>4. \A k \in T.tracked : k \in S.tracked /\ live(T, k)
  BY <1>1, <1>2, ClientIs DEF Tied
<1>5. world.steady => T.waiting \subseteq S.waiting
  OBVIOUS
<1>6. \A k \in T.own : live(S, k) => live(T, k)
  BY <1>1, <1>2, ClientIs
<1>7. /\ T.age = S.age /\ T.clock = S.clock /\ T.held = S.held
      /\ T.reinitializing = S.reinitializing /\ T.answer = S.answer
  BY DEF Alike
<1>8. \A p \in Posts(T) \ Posts(S) :
        S.request[p.of].work # "none" /\ p.do = "send" /\ p.of \notin S.begun /\ ~world.steady
  OBVIOUS
<1>9. \A k \in S.tracked : live(T, k) /\ k # x => k \in T.tracked
  BY <1>1
<1>10. \A k \in T.waiting \ S.waiting : S.request[k].work # "none" /\ k \notin S.begun
  OBVIOUS
<1>11. \A k \in RequestIds : live(S, k) => live(T, k)
  BY <1>2
<1>12. \A k \in T.polling \ S.polling : S.request[k].work = "call" /\ k \notin S.begun
  OBVIOUS
<1> QED BY <1>3, <1>4, <1>5, <1>6, <1>7, <1>8, <1>9, <1>10, <1>11, <1>12 DEF Calm

LEMMA LucksAre ==
  ASSUME NEW luck \in Lucks
  PROVE  /\ luck.stale \in BOOLEAN /\ luck.dials \in BOOLEAN /\ luck.takes \in BOOLEAN
         /\ world.steady => ~luck.stale /\ luck.takes
<1> DEFINE a == Luck(TRUE, TRUE, TRUE)
           b == Luck(TRUE, FALSE, TRUE)
           c == Luck(FALSE, TRUE, FALSE)
<1>1. Lucks = {Lucky} \cup (IF world.steady THEN {} ELSE {a, b})
               \cup (IF world.steady \/ ~(Modern \/ world.threads) THEN {} ELSE {c})
  BY DEF Lucks
<1>2. /\ ~Lucky.stale /\ Lucky.dials /\ Lucky.takes /\ a.stale /\ a.dials /\ a.takes
      /\ b.stale /\ ~b.dials /\ b.takes /\ ~c.stale /\ c.dials /\ ~c.takes
  BY DEF Lucky, Luck
<1>3. \A l \in {Lucky, a, b, c} :
        l.stale \in BOOLEAN /\ l.dials \in BOOLEAN /\ l.takes \in BOOLEAN
  <2>1. Lucky.stale \in BOOLEAN /\ Lucky.dials \in BOOLEAN /\ Lucky.takes \in BOOLEAN
    BY DEF Lucky, Luck
  <2>2. a.stale \in BOOLEAN /\ a.dials \in BOOLEAN /\ a.takes \in BOOLEAN
    BY DEF Luck
  <2>3. b.stale \in BOOLEAN /\ b.dials \in BOOLEAN /\ b.takes \in BOOLEAN
    BY DEF Luck
  <2>4. c.stale \in BOOLEAN /\ c.dials \in BOOLEAN /\ c.takes \in BOOLEAN
    BY DEF Luck
  <2> HIDE DEF a, b, c
  <2> QED BY <2>1, <2>2, <2>3, <2>4
<1> HIDE DEF a, b, c
<1>4. luck = Lucky \/ (~world.steady /\ luck \in {a, b, c})
  BY <1>1
<1> QED BY <1>2, <1>3, <1>4

\* One request's context changes.
LEMMA ContextPut ==
  ASSUME NEW S \in Client, NEW i \in RequestIds, NEW r \in Context,
         NEW T, T = [S EXCEPT !.request[i] = r]
  PROVE  /\ T \in Client /\ T.request[i] = r
         /\ \A k \in RequestIds : k # i => T.request[k] = S.request[k]
         /\ T.tracked = S.tracked /\ T.answer = S.answer /\ T.age = S.age
         /\ T.clock = S.clock /\ T.queue = S.queue /\ T.waiting = S.waiting
         /\ T.polling = S.polling /\ T.net = S.net /\ T.wire = S.wire /\ T.own = S.own
         /\ T.held = S.held /\ T.session = S.session
         /\ T.reinitializing = S.reinitializing /\ T.begun = S.begun
         /\ Posts(T) = Posts(S) /\ (SendsOnce(S) => SendsOnce(T))
<1>1. /\ T \in Client /\ T.request[i] = r
      /\ \A k \in RequestIds : k # i => T.request[k] = S.request[k]
      /\ T.tracked = S.tracked /\ T.answer = S.answer /\ T.age = S.age
      /\ T.clock = S.clock /\ T.queue = S.queue /\ T.waiting = S.waiting
      /\ T.polling = S.polling /\ T.net = S.net /\ T.wire = S.wire /\ T.own = S.own
      /\ T.held = S.held /\ T.session = S.session
      /\ T.reinitializing = S.reinitializing /\ T.begun = S.begun
  BY DEF Client
<1> QED BY <1>1 DEF Posts, SendsOnce

LEMMA WrittenIs ==
  ASSUME NEW S, NEW x, Nearly(S, x), NEW i \in RequestIds, Clear(S, i), ~S.request[i].settled,
         NEW luck \in Lucks, NEW T, T = Written(S, i, luck)
  PROVE  /\ Calm(S, T, x)
         /\ \A k \in T.wire \ S.wire : k = i /\ ~T.request[i].settled
<1>1. S \in Client /\ S.request[i] \in Context /\ live(S, i) /\ i \notin S.begun
  BY ClientIs DEF Nearly, Clear, live
<1>2. CASE T = EndedWith(S, i, "failed") /\ ~luck.takes
  <2>1. "failed" \in Hows /\ ~world.steady
    BY <1>2, LucksAre DEF Hows, Answers
  <2>2. Calm(S, T, x)
    BY <1>2, <2>1, EndedCalm DEF Clear
  <2>3. T.wire = S.wire
    BY <1>1, <1>2, <2>1, EndedIs
  <2> QED BY <2>2, <2>3
<1>3. CASE T = [[S EXCEPT !.wire = @ \cup {i}] EXCEPT !.own = @ \cup {i},
                                                      !.request[i].sent_apart = TRUE]
  <2> DEFINE r == [S.request[i] EXCEPT !.sent_apart = TRUE]
  <2>1. /\ r \in Context /\ r.work = S.request[i].work /\ r.origin = S.request[i].origin
        /\ r.after = S.request[i].after /\ r.settled = S.request[i].settled
        /\ r.told = S.request[i].told /\ r.task = S.request[i].task /\ r.sent_apart
        /\ r.session_retried = S.request[i].session_retried
    BY <1>1 DEF Context
  <2>2. T = [S EXCEPT !.wire = S.wire \cup {i}, !.own = S.own \cup {i}, !.request[i] = r]
    BY <1>1, <1>3 DEF Client
  <2> HIDE DEF r
  <2>0. T \in Client
    <3>1. S.wire \cup {i} \subseteq RequestIds /\ S.own \cup {i} \subseteq RequestIds
      BY <1>1, ClientIs
    <3>2. [S.request EXCEPT ![i] = r] \in [RequestIds -> Context]
      BY <1>1, <2>1, ClientIs
    <3>3. T = [S EXCEPT !.wire = S.wire \cup {i}, !.own = S.own \cup {i},
                        !.request = [S.request EXCEPT ![i] = r]]
      BY <1>1, <2>2 DEF Client
    <3> QED BY ZenonT(30), <1>1, <3>1, <3>2, <3>3 DEF Client
  <2>3. /\ T \in Client /\ T.wire = S.wire \cup {i} /\ T.own = S.own \cup {i}
        /\ T.request[i] = r /\ \A k \in RequestIds : k # i => T.request[k] = S.request[k]
        /\ T.answer = S.answer /\ T.age = S.age /\ T.clock = S.clock /\ T.held = S.held
        /\ T.reinitializing = S.reinitializing /\ T.begun = S.begun /\ T.tracked = S.tracked
        /\ T.queue = S.queue /\ T.waiting = S.waiting /\ T.polling = S.polling /\ T.net = S.net
    BY <1>1, <2>2, <2>0 DEF Client
  <2>4. Alike(S, T)
    BY <1>1, <2>1, <2>3 DEF Alike
  <2>5. live(T, i) /\ T.request[i].sent_apart
    BY <1>1, <2>1, <2>3 DEF live
  <2>6. Posts(T) = Posts(S) /\ (SendsOnce(S) => SendsOnce(T))
    BY <2>3 DEF Posts, SendsOnce
  <2>7. Calm(S, T, x)
    BY <1>1, <2>3, <2>4, <2>5, <2>6, AlikeCalm
  <2> QED BY <2>3, <2>5, <2>7 DEF live
<1>4. CASE T = [S EXCEPT !.wire = @ \cup {i}]
  <2>0. T \in Client
    <3>1. S.wire \cup {i} \subseteq RequestIds
      BY <1>1, ClientIs
    <3> QED BY <1>1, <1>4, <3>1 DEF Client
  <2>1. /\ T \in Client /\ T.wire = S.wire \cup {i} /\ T.own = S.own
        /\ T.request = S.request
        /\ T.answer = S.answer /\ T.age = S.age /\ T.clock = S.clock /\ T.held = S.held
        /\ T.reinitializing = S.reinitializing /\ T.begun = S.begun /\ T.tracked = S.tracked
        /\ T.queue = S.queue /\ T.waiting = S.waiting /\ T.polling = S.polling /\ T.net = S.net
    BY <1>1, <1>4, <2>0 DEF Client
  <2>2. Alike(S, T)
    BY <1>1, <2>1 DEF Alike
  <2>3. Posts(T) = Posts(S) /\ (SendsOnce(S) => SendsOnce(T))
    BY <2>1 DEF Posts, SendsOnce
  <2>4. Calm(S, T, x)
    BY <1>1, <2>1, <2>2, <2>3, AlikeCalm
  <2> QED BY <2>1, <2>4
<1> QED BY <1>2, <1>3, <1>4 DEF Written

\* sendRequestInternal, whatever becomes of the connection: nothing is lost, and
\* nothing but the request itself goes out.
LEMMA SendIs ==
  ASSUME NEW S, NEW x, Nearly(S, x), NEW i \in RequestIds, Clear(S, i),
         NEW luck \in Lucks, NEW T, T = sendRequestInternal(S, i, luck)
  PROVE  /\ Nearly(T, x) /\ (Sound(S, x) => Sound(T, x)) /\ Leads(S, T)
         /\ \A k \in T.wire \ S.wire : k = i /\ ~T.request[i].settled
<1>1. S \in Client /\ S.request[i] \in Context /\ i \notin S.begun /\ S.request[i].work # "none"
  BY ClientIs DEF Nearly, Clear
<1>2. S.request[i].retries \in 0..MaxRedials + 1 /\ MaxRedials \in Nat \ {0}
  BY <1>1, ContextIs, RequestsAssumption
<1>3. luck.stale \in BOOLEAN /\ (world.steady => ~luck.stale /\ S.net = "up")
  BY LucksAre DEF Nearly, Carried
<1>4. "failed" \in Hows
  BY DEF Hows, Answers
<1>5. ASSUME Calm(S, T, x), \A k \in T.wire \ S.wire : k = i /\ ~T.request[i].settled
      PROVE  /\ Nearly(T, x) /\ (Sound(S, x) => Sound(T, x)) /\ Leads(S, T)
             /\ \A k \in T.wire \ S.wire : k = i /\ ~T.request[i].settled
  BY <1>5, CalmSound DEF Calm
<1>6. CASE S.request[i].settled
  <2>1. T = S
    BY <1>6 DEF sendRequestInternal
  <2>2. Leads(S, T)
    BY <1>1, <2>1 DEF Leads
  <2> QED BY <2>1, <2>2
<1>7. CASE ~S.request[i].settled /\ T = Written(S, i, luck)
  BY <1>5, <1>7, WrittenIs
<1>8. CASE /\ ~S.request[i].settled /\ S.net # "up" /\ S.request[i].retries \in 1..MaxRedials
           /\ T = [S EXCEPT !.request[i].retries = @ + 1, !.waiting = @ \cup {i}]
  <2> DEFINE r == [S.request[i] EXCEPT !.retries = @ + 1]
  <2>1. /\ r \in Context /\ r.work = S.request[i].work /\ r.origin = S.request[i].origin
        /\ r.after = S.request[i].after /\ r.settled = S.request[i].settled
        /\ r.told = S.request[i].told /\ r.task = S.request[i].task
        /\ r.sent_apart = S.request[i].sent_apart
        /\ r.session_retried = S.request[i].session_retried
    <3>1. S.request[i].retries + 1 \in 0..MaxRedials + 1
      BY <1>2, <1>8
    <3> QED BY <1>1, <3>1 DEF Context
  <2>2. T = [S EXCEPT !.request[i] = r, !.waiting = S.waiting \cup {i}]
    BY <1>1, <1>8 DEF Client
  <2> HIDE DEF r
  <2>0. T \in Client
    <3>1. S.waiting \cup {i} \subseteq RequestIds
      BY <1>1, ClientIs
    <3>2. [S.request EXCEPT ![i] = r] \in [RequestIds -> Context]
      BY <1>1, <2>1, ClientIs
    <3>3. T = [S EXCEPT !.request = [S.request EXCEPT ![i] = r], !.waiting = S.waiting \cup {i}]
      BY <1>1, <2>2 DEF Client
    <3> QED BY <1>1, <3>1, <3>2, <3>3 DEF Client
  <2>3. /\ T \in Client /\ T.wire = S.wire /\ T.own = S.own
        /\ T.request[i] = r /\ \A k \in RequestIds : k # i => T.request[k] = S.request[k]
        /\ T.answer = S.answer /\ T.age = S.age /\ T.clock = S.clock /\ T.held = S.held
        /\ T.reinitializing = S.reinitializing /\ T.begun = S.begun /\ T.tracked = S.tracked
        /\ T.queue = S.queue /\ T.waiting = S.waiting \cup {i} /\ T.polling = S.polling
        /\ T.net = S.net
    BY <1>1, <2>2, <2>0 DEF Client
  <2>4. Alike(S, T)
    BY <1>1, <2>1, <2>3 DEF Alike
  <2>5. Posts(T) = Posts(S) /\ (SendsOnce(S) => SendsOnce(T))
    BY <2>3 DEF Posts, SendsOnce
  <2>6. Calm(S, T, x)
    BY <1>1, <1>3, <1>8, <2>3, <2>4, <2>5, AlikeCalm
  <2> QED BY <1>5, <2>3, <2>6
<1>9. CASE ~world.steady /\ T = EndedWith(S, i, "failed")
  <2>1. Calm(S, T, x) /\ T.wire = S.wire
    BY <1>1, <1>4, <1>9, EndedCalm, EndedIs
  <2> QED BY <1>5, <2>1
<1>10. CASE /\ ~world.steady
            /\ T = LET t == Redialled(S)
                   IN IF luck.dials THEN Put([t EXCEPT !.request[i].retries = 1], "send", i)
                      ELSE EndedWith(t, i, "failed")
  <2>1. PICK U : U = Redialled(S)
    OBVIOUS
  <2>2. Nearly(U, x) /\ (Sound(S, x) => Sound(U, x)) /\ Leads(S, U) /\ U.wire = {}
    BY <1>10, <2>1, RedialledIs
  <2>3. /\ U \in Client /\ U.request[i] \in Context /\ U.request[i].work # "none"
        /\ i \notin U.begun
    BY <1>1, <2>2, ClientIs DEF Leads
  <2>4. ASSUME Calm(U, T, x), T.wire = U.wire
        PROVE  /\ Nearly(T, x) /\ (Sound(S, x) => Sound(T, x)) /\ Leads(S, T)
               /\ \A k \in T.wire \ S.wire : k = i /\ ~T.request[i].settled
    BY <2>2, <2>4, CalmSound, LeadsOn DEF Calm
  <2>5. CASE T = EndedWith(U, i, "failed")
    <3>1. Calm(U, T, x) /\ T.wire = U.wire
      BY <1>4, <1>10, <2>2, <2>3, <2>5, EndedCalm, EndedIs
    <3> QED BY <2>4, <3>1
  <2>6. CASE T = Put([U EXCEPT !.request[i].retries = 1], "send", i)
    <3> DEFINE r == [U.request[i] EXCEPT !.retries = 1]
    <3>1. /\ r \in Context /\ r.work = U.request[i].work /\ r.origin = U.request[i].origin
          /\ r.after = U.request[i].after /\ r.settled = U.request[i].settled
          /\ r.told = U.request[i].told /\ r.task = U.request[i].task
          /\ r.sent_apart = U.request[i].sent_apart
          /\ r.session_retried = U.request[i].session_retried
      BY <2>3, Constants DEF Context
    <3>2. PICK V : V = [U EXCEPT !.request[i] = r]
      OBVIOUS
    <3>3. T = Put(V, "send", i)
      BY <2>3, <2>6, <3>2 DEF Client
    <3> HIDE DEF r
    <3>4. /\ V \in Client /\ V.request[i] = r
          /\ \A k \in RequestIds : k # i => V.request[k] = U.request[k]
          /\ V.tracked = U.tracked /\ V.answer = U.answer /\ V.age = U.age
          /\ V.clock = U.clock /\ V.waiting = U.waiting
          /\ V.polling = U.polling /\ V.wire = U.wire /\ V.own = U.own
          /\ V.held = U.held /\ V.reinitializing = U.reinitializing /\ V.begun = U.begun
          /\ Posts(V) = Posts(U)
      BY <2>3, <3>1, <3>2, ContextPut
    <3>5. /\ T \in Client /\ T = [V EXCEPT !.queue = T.queue]
          /\ Posts(T) = Posts(V) \cup {[do |-> "send", of |-> i]}
      BY <3>3, <3>4, SendPostIs
    <3>0. /\ T.request = V.request /\ T.tracked = V.tracked /\ T.answer = V.answer
          /\ T.age = V.age /\ T.clock = V.clock /\ T.waiting = V.waiting
          /\ T.polling = V.polling /\ T.wire = V.wire /\ T.own = V.own
          /\ T.held = V.held /\ T.reinitializing = V.reinitializing /\ T.begun = V.begun
      <4>1. V \in Client /\ T = [V EXCEPT !.queue = T.queue]
        BY <3>4, <3>5
      <4> QED BY ONLY <4>1 DEF Client
    <3>6. /\ T.request[i] = r
          /\ \A k \in RequestIds : k # i => T.request[k] = U.request[k]
          /\ T.tracked = U.tracked /\ T.answer = U.answer /\ T.age = U.age
          /\ T.clock = U.clock /\ T.waiting = U.waiting
          /\ T.polling = U.polling /\ T.wire = U.wire /\ T.own = U.own
          /\ T.held = U.held /\ T.reinitializing = U.reinitializing /\ T.begun = U.begun
      BY <3>4, <3>0
    <3>7. Alike(U, T)
      BY <2>3, <3>1, <3>5, <3>6 DEF Alike
    <3>8. Calm(U, T, x)
      BY <1>10, <2>2, <2>3, <3>4, <3>5, <3>6, <3>7, AlikeCalm
    <3> QED BY <2>4, <3>6, <3>8
  <2> QED BY <1>10, <2>1, <2>5, <2>6
<1>11. \/ S.request[i].settled
       \/ ~S.request[i].settled /\ T = Written(S, i, luck)
       \/ /\ ~S.request[i].settled /\ S.net # "up" /\ S.request[i].retries \in 1..MaxRedials
          /\ T = [S EXCEPT !.request[i].retries = @ + 1, !.waiting = @ \cup {i}]
       \/ ~world.steady /\ T = EndedWith(S, i, "failed")
       \/ /\ ~world.steady
          /\ T = LET t == Redialled(S)
                 IN IF luck.dials THEN Put([t EXCEPT !.request[i].retries = 1], "send", i)
                    ELSE EndedWith(t, i, "failed")
  BY <1>2, <1>3, SMTT(60) DEF sendRequestInternal
<1> QED BY <1>6, <1>7, <1>8, <1>9, <1>10, <1>11

LEMMA MovedSound ==
  ASSUME NEW S, NEW x, NEW T, Nearly(S, x), Moved(S, T, x), Timed(T, x), Owned(T)
  PROVE  Nearly(T, x) /\ (Sound(S, x) => Sound(T, x)) /\ Leads(S, T)
<1>1. /\ S \in Client /\ T \in Client /\ x \in RequestIds \cup {0}
      /\ T.request = S.request /\ T.tracked = S.tracked /\ T.answer = S.answer
      /\ T.held = S.held /\ T.reinitializing = S.reinitializing /\ T.begun = S.begun
      /\ T.wire \subseteq S.wire /\ T.waiting \subseteq S.waiting
      /\ T.polling \subseteq S.polling /\ T.own \subseteq S.own /\ Holds(T) = Holds(S)
  BY DEF Nearly, Moved, Holds
<1>2. \A i, j \in RequestIds :
        /\ live(T, i) <=> live(S, i)
        /\ calling(T, i) <=> calling(S, i)
        /\ shaking(T, i) <=> shaking(S, i)
        /\ polls(T, j, i) <=> polls(S, j, i)
        /\ Awaited(T, i) <=> Awaited(S, i)
  BY <1>1 DEF live, calling, shaking, polls, Awaited
<1>3. \A i \in RequestIds : Does(T, "send", i) => Does(S, "send", i)
  <2> SUFFICES ASSUME NEW i \in RequestIds, Does(T, "send", i) PROVE Does(S, "send", i)
    OBVIOUS
  <2> DEFINE p == [do |-> "send", of |-> i]
  <2>1. p.do = "send" /\ p \in Posts(T)
    BY DEF Does
  <2>2. SUFFICES p \in Posts(S)
    BY DEF Does
  <2> HIDE DEF p
  <2> QED BY <2>1 DEF Moved
<1>4. Called(T)
  BY <1>1, <1>2 DEF Nearly, Called, Moved
<1>5. Promised(T)
  BY <1>1, <1>2 DEF Nearly, Promised
<1>6. Tied(T, x)
  <2>1. \A i \in T.tracked : live(T, i)
    BY <1>1, <1>2, ClientIs DEF Nearly, Tied
  <2>2. \A i \in RequestIds : live(T, i) /\ i # x => i \in T.tracked \/ i \in T.begun
    BY <1>1, <1>2 DEF Nearly, Tied
  <2>3. ASSUME NEW c \in T.begun
        PROVE  /\ calling(T, c) /\ T.request[c].origin = c /\ ~T.request[c].task
               /\ Unnamed(T, c)
    <3>1. /\ c \in RequestIds /\ c \in S.begun
          /\ calling(S, c) /\ S.request[c].origin = c /\ ~S.request[c].task /\ Unnamed(S, c)
      BY <1>1, <2>3, ClientIs, Constants DEF Nearly, Tied
    <3>2. Unnamed(T, c)
      BY <1>1, <1>2, <1>3, <3>1 DEF Unnamed
    <3> QED BY <1>1, <1>2, <3>1, <3>2
  <2>4. T.begun # {} => world.threads
    BY <1>1 DEF Nearly, Tied
  <2>5. \A i \in T.wire \cup T.own \cup T.waiting \cup T.polling \cup Holds(T) :
          T.request[i].work # "none"
    BY <1>1 DEF Nearly, Tied
  <2>6. \A p \in Posts(T) : T.request[p.of].work # "none"
    BY <1>1 DEF Nearly, Tied, Moved
  <2> QED BY <2>1, <2>2, <2>3, <2>4, <2>5, <2>6 DEF Tied
<1>7. Shaken(T, x) /\ (ShakingGoesOn(S, x) => ShakingGoesOn(T, x))
  <2>1. \A i \in Holds(T) : /\ live(T, i) => T.request[i].session_retried
                            /\ world.steady => T.request[i].work = "call"
    BY <1>1, <1>2, ClientIs DEF Nearly, Shaken
  <2>2. Shaken(T, x)
    BY <1>1, <1>2, <2>1 DEF Nearly, Shaken
  <2> QED BY <1>1, <1>2, <2>2 DEF ShakingGoesOn
<1>8. Carried(T, x)
  BY <1>1, <1>2 DEF Nearly, Carried, Moved
<1>9. OneWay(T)
  BY <1>1, <1>2, <1>3 DEF Nearly, OneWay, Moved
<1>10. Leads(S, T)
  BY <1>1 DEF Leads
<1> QED BY <1>1, <1>4, <1>5, <1>6, <1>7, <1>8, <1>9, <1>10 DEF Nearly, Sound

\* What x was for has been done.
LEMMA Through ==
  ASSUME NEW S, NEW x \in RequestIds, Sound(S, x), S.request[x].settled,
         S.request[x].work \in {"initialize", "poll", "list"} => S.request[x].told,
         S.request[x].work = "initialize" => ~S.reinitializing,
         S.request[x].work = "poll" /\ live(S, S.request[x].after) =>
           S.request[x].after \in S.polling \/ ~S.request[S.request[x].after].task
  PROVE  Sound(S, 0)
<1>1. \A i \in RequestIds : live(S, i) => i # x
  BY DEF live
<1>2. Tied(S, 0)
  BY <1>1 DEF Sound, Nearly, Tied
<1>3. Timed(S, 0)
  BY <1>1 DEF Sound, Nearly, Timed, calling
<1>4. Shaken(S, 0)
  BY DEF Sound, Nearly, Shaken
<1>5. ShakingGoesOn(S, 0)
  BY DEF Sound, ShakingGoesOn
<1>6. Carried(S, 0)
  BY <1>1 DEF Sound, Nearly, Carried
<1> QED BY <1>2, <1>3, <1>4, <1>5, <1>6 DEF Sound, Nearly

\* on_response of i was called.
Told(S, i) == [S EXCEPT !.request[i].told = TRUE]

LEMMA ToldCalm ==
  ASSUME NEW S, NEW x, Nearly(S, x), NEW i \in RequestIds, NEW T, T = Told(S, i)
  PROVE  /\ Calm(S, T, x)
         /\ T.request[i].told /\ T.request[i].settled = S.request[i].settled
         /\ T.request[i].task = S.request[i].task
         /\ \A k \in RequestIds : k # i => T.request[k] = S.request[k]
         /\ T.answer = S.answer /\ T.queue = S.queue /\ Posts(T) = Posts(S)
         /\ T.wire = S.wire /\ T.own = S.own /\ T.waiting = S.waiting
         /\ T.polling = S.polling /\ T.net = S.net /\ T.session = S.session
         /\ \A k \in RequestIds : live(T, k) <=> live(S, k)
<1>1. S \in Client /\ S.request[i] \in Context /\ Tied(S, x)
  BY ClientIs DEF Nearly
<1> DEFINE r == [S.request[i] EXCEPT !.told = TRUE]
<1>2. /\ r \in Context /\ r.work = S.request[i].work /\ r.origin = S.request[i].origin
      /\ r.after = S.request[i].after /\ r.settled = S.request[i].settled
      /\ r.told /\ r.task = S.request[i].task
      /\ r.sent_apart = S.request[i].sent_apart
      /\ r.session_retried = S.request[i].session_retried
  BY <1>1 DEF Context
<1>3. T = [S EXCEPT !.request[i] = r]
  BY <1>1 DEF Client, Told
<1> HIDE DEF r
<1>4. /\ T \in Client /\ T.request[i] = r
      /\ \A k \in RequestIds : k # i => T.request[k] = S.request[k]
      /\ T.tracked = S.tracked /\ T.answer = S.answer /\ T.age = S.age
      /\ T.clock = S.clock /\ T.queue = S.queue /\ T.waiting = S.waiting
      /\ T.polling = S.polling /\ T.net = S.net /\ T.wire = S.wire /\ T.own = S.own
      /\ T.held = S.held /\ T.session = S.session
      /\ T.reinitializing = S.reinitializing /\ T.begun = S.begun
      /\ Posts(T) = Posts(S) /\ (SendsOnce(S) => SendsOnce(T))
  BY ONLY <1>1, <1>2, <1>3, ContextPut, i \in RequestIds
<1>5. Alike(S, T)
  BY <1>1, <1>2, <1>4 DEF Alike
<1>6. Calm(S, T, x)
  BY <1>4, <1>5, AlikeCalm
<1>7. \A k \in RequestIds : live(T, k) <=> live(S, k)
  BY <1>2, <1>4 DEF live
<1> QED BY <1>2, <1>4, <1>6, <1>7

LEMMA LeadsFollows ==
  ASSUME NEW S, NEW T, Leads(S, T)
  PROVE  Follows(S, T)
BY DEF Leads, Follows

LEMMA FollowsOn ==
  ASSUME NEW S, NEW T, NEW U, Leads(S, T), Follows(T, U), U \in Client
  PROVE  Follows(S, U)
<1>1. \A c \in Calls : S.answer[c] \in Hows => U.answer[c] = S.answer[c]
  BY DEF Leads, Follows
<1>2. U.wire \subseteq RequestIds
  BY ClientIs
<1>3. \A k \in U.wire \ S.wire : ~S.request[k].settled \/ ~U.request[k].settled
  BY <1>2 DEF Leads, Follows
<1> QED BY <1>1, <1>3 DEF Follows

LEMMA FollowsNew ==
  ASSUME NEW S, NEW T, NEW U, Leads(T, U), T.wire \subseteq S.wire,
         \A c \in Calls : S.answer[c] \in Hows => T.answer[c] = S.answer[c],
         \A k \in U.wire \ T.wire : ~U.request[k].settled
  PROVE  Follows(S, U)
BY DEF Leads, Follows

LEMMA AskedIs ==
  ASSUME NEW S \in Client, NEW j \in RequestIds, NEW work \in Works,
         NEW after \in RequestIds \cup {0}, NEW T, T = Asked(S, work, j, after)
  PROVE  /\ T \in Client /\ T.request[j] = NewContext(work, j, after)
         /\ \A k \in RequestIds : k # j => T.request[k] = S.request[k] /\ T.age[k] = S.age[k]
         /\ T.age[j] = 0 /\ T.tracked = S.tracked \cup {j}
         /\ T.answer = S.answer /\ T.clock = S.clock /\ T.queue = S.queue
         /\ T.waiting = S.waiting /\ T.polling = S.polling /\ T.net = S.net
         /\ T.wire = S.wire /\ T.own = S.own /\ T.held = S.held /\ T.session = S.session
         /\ T.reinitializing = S.reinitializing /\ T.begun = S.begun
         /\ Posts(T) = Posts(S) /\ Holds(T) = Holds(S)
<1> DEFINE r == NewContext(work, j, after)
           request == [S.request EXCEPT ![j] = r]
           age == [S.age EXCEPT ![j] = 0]
           tracked == S.tracked \cup {j}
<1>1. r \in Context
  BY NewContextIs
<1>2. T = [S EXCEPT !.request = request, !.tracked = tracked, !.age = age]
  BY DEF Asked, Client
<1> HIDE DEF r
<1>3. /\ request \in [RequestIds -> Context] /\ age \in [RequestIds -> 0..Off]
      /\ tracked \subseteq RequestIds /\ request[j] = r /\ age[j] = 0
      /\ \A k \in RequestIds : k # j => request[k] = S.request[k] /\ age[k] = S.age[k]
  BY <1>1, ClientIs, Constants
<1> HIDE DEF request, age, tracked
<1>4. /\ T \in Client /\ T.request = request /\ T.age = age /\ T.tracked = tracked
  BY ZenonT(30), <1>2, <1>3 DEF Client
<1>5. /\ T.answer = S.answer /\ T.clock = S.clock /\ T.queue = S.queue
      /\ T.waiting = S.waiting /\ T.polling = S.polling /\ T.net = S.net
      /\ T.wire = S.wire /\ T.own = S.own /\ T.held = S.held /\ T.session = S.session
      /\ T.reinitializing = S.reinitializing /\ T.begun = S.begun
  BY <1>2 DEF Client
<1>6. Posts(T) = Posts(S) /\ Holds(T) = Holds(S)
  BY <1>5 DEF Posts, Holds
<1> QED BY <1>3, <1>4, <1>5, <1>6 DEF r, tracked

\* A request of the client's own can be begun at any time.
LEMMA AskedSound ==
  ASSUME NEW S, NEW x, Nearly(S, x), x = 0 \/ live(S, x), NEW j \in Free(S),
         NEW work, NEW after, Askable(S, x, work, after),
         NEW T, T = Asked(S, work, j, after)
  PROVE  /\ Nearly(T, x) /\ live(T, j) /\ Clear(T, j)
         /\ Sound(S, x) \/ work = "initialize" => Sound(T, x)
<1>1. /\ S \in Client /\ x \in RequestIds \cup {0}
      /\ j \in RequestIds /\ j \notin Calls /\ work \in Works /\ after \in RequestIds \cup {0}
      /\ work \in {"initialize", "poll", "list", "cancel"}
  BY Constants DEF Nearly, Free, Askable, Works
<1>2. /\ T \in Client /\ T.request[j] = NewContext(work, j, after)
      /\ \A k \in RequestIds : k # j => T.request[k] = S.request[k] /\ T.age[k] = S.age[k]
      /\ T.age[j] = 0 /\ T.tracked = S.tracked \cup {j}
      /\ T.answer = S.answer /\ T.clock = S.clock /\ T.queue = S.queue
      /\ T.waiting = S.waiting /\ T.polling = S.polling /\ T.net = S.net
      /\ T.wire = S.wire /\ T.own = S.own /\ T.held = S.held
      /\ T.reinitializing = S.reinitializing /\ T.begun = S.begun
      /\ Posts(T) = Posts(S) /\ Holds(T) = Holds(S)
  BY SMTT(30), <1>1, AskedIs
<1>3. /\ T.request[j].work = work /\ T.request[j].origin = j /\ T.request[j].after = after
      /\ ~T.request[j].settled /\ ~T.request[j].task
  BY <1>1, <1>2, NewContextIs
<1>4. /\ ~live(S, j)
      /\ j \notin S.tracked \cup S.wire \cup S.own \cup S.waiting \cup S.polling
      /\ S.clock[j] = Off /\ (\A p \in Posts(S) : p.of # j) /\ j \notin Holds(S)
      /\ \A k \in RequestIds : live(S, k) => S.request[k].after # j
      /\ j \notin S.begun
  <2>1. j \notin S.begun
    BY <1>1, ClientIs
  <2> QED BY <1>1, <2>1, FreeIs DEF live
<1>5. x # j
  BY <1>1, <1>4, Constants
<1>6. after # j /\ (after # 0 => calling(S, after) /\ after \notin S.begun)
  BY <1>1, <1>4, Constants DEF Askable, calling
<1>7. \A k \in RequestIds : k # j =>
        /\ live(T, k) <=> live(S, k)
        /\ calling(T, k) <=> calling(S, k)
        /\ shaking(T, k) <=> shaking(S, k)
        /\ \A i \in RequestIds : polls(T, k, i) <=> polls(S, k, i)
  BY <1>2 DEF live, calling, shaking, polls
<1>8. live(T, j) /\ ~calling(T, j) /\ (shaking(T, j) <=> work = "initialize")
  BY <1>1, <1>3 DEF live, calling, shaking
<1>9. \A do \in {"start", "stop", "send", "close"}, i \in RequestIds :
        /\ Does(T, do, i) <=> Does(S, do, i)
        /\ ~Does(S, do, j)
  BY <1>2, <1>4 DEF Does
<1>10. \A i \in RequestIds : Awaited(T, i) => Awaited(S, i) \/ (work = "list" /\ after = i)
  <2> SUFFICES ASSUME NEW i \in RequestIds, NEW k \in RequestIds,
                      live(T, k), T.request[k].work = "list", T.request[k].after = i
               PROVE  Awaited(S, i) \/ (work = "list" /\ after = i)
    BY DEF Awaited
  <2> QED BY <1>2, <1>3, <1>7 DEF Awaited
<1>11. ~Awaited(T, j)
  BY <1>1, <1>4, <1>6, <1>10 DEF Awaited
<1>12. Called(T)
  <2>1. \A i \in RequestIds :
       /\ T.request[i].work = "call" =>
            T.request[i].origin \in Calls /\ T.answer[T.request[i].origin] # "unsent"
       /\ T.request[i].work # "call" => T.request[i].origin = i
       /\ T.request[i].work \in {"poll", "list"} => T.request[i].after \in RequestIds
       /\ T.request[i].work \notin {"poll", "list"} => T.request[i].after = 0
       /\ T.request[i].task /\ ~T.request[i].settled => T.request[i].work = "call" /\ Modern
    BY <1>1, <1>2, <1>3 DEF Nearly, Called, Askable
  <2>2. ASSUME NEW i \in RequestIds, live(T, i), T.request[i].after # 0
        PROVE  T.request[T.request[i].after].work = "call"
    <3>1. CASE i = j
      BY <1>1, <1>2, <1>3, <1>6, <2>2, <3>1 DEF calling
    <3>2. CASE i # j
      <4>1. live(S, i) /\ T.request[i] = S.request[i] /\ S.request[i].after \in RequestIds
        BY <1>2, <1>7, <2>1, <2>2, <3>2
      <4>2. S.request[i].after # j /\ S.request[S.request[i].after].work = "call"
        BY <1>4, <2>2, <4>1 DEF Nearly, Called
      <4> QED BY <1>2, <4>1, <4>2
    <3> QED BY <3>1, <3>2
  <2>3. \A c \in Calls :
       /\ T.request[c].work \in {"none", "call"}
       /\ T.request[c].work = "none" <=> T.answer[c] = "unsent"
       /\ T.answer[c] = "unsent" => T.age[c] = 0
    BY <1>1, <1>2, Constants DEF Nearly, Called
  <2>4. \A i \in T.polling : T.request[i].work = "call"
    <3>1. \A i \in T.polling : i \in RequestIds /\ i \in S.polling /\ i # j
      BY <1>1, <1>2, <1>4, ClientIs
    <3> QED BY <1>2, <3>1 DEF Nearly, Called
  <2> QED BY <2>1, <2>2, <2>3, <2>4 DEF Called
<1>13. Promised(T)
  <2>1. \A i \in RequestIds : calling(T, i) => i # j /\ calling(S, i) /\ T.request[i] = S.request[i]
    BY <1>2, <1>7, <1>8
  <2>2. \A i \in RequestIds : calling(S, i) => i # j /\ calling(T, i) /\ T.request[i] = S.request[i]
    BY <1>2, <1>4, <1>7 DEF calling
  <2> QED BY <1>2, <2>1, <2>2 DEF Nearly, Promised
<1>14. Tied(T, x)
  <2>1. \A i \in T.tracked : live(T, i)
    BY <1>1, <1>2, <1>4, <1>7, <1>8, ClientIs DEF Nearly, Tied
  <2>2. \A i \in RequestIds : live(T, i) /\ i # x => i \in T.tracked \/ i \in T.begun
    BY <1>2, <1>7 DEF Nearly, Tied
  <2>3. ASSUME NEW c \in T.begun
        PROVE  /\ calling(T, c) /\ T.request[c].origin = c /\ ~T.request[c].task
               /\ Unnamed(T, c)
    <3>1. /\ c \in RequestIds /\ c \in S.begun /\ c # j
          /\ calling(S, c) /\ S.request[c].origin = c /\ ~S.request[c].task /\ Unnamed(S, c)
      BY <1>1, <1>2, <1>4, <2>3, ClientIs, Constants DEF Nearly, Tied
    <3>2. calling(T, c) /\ T.request[c] = S.request[c]
      BY <1>2, <1>7, <3>1
    <3>3. \A k \in RequestIds : live(T, k) => T.request[k].after # c
      <4>1. \A k \in RequestIds : k # j /\ live(T, k) => T.request[k].after # c
        BY <1>2, <1>7, <3>1 DEF Unnamed
      <4>2. T.request[j].after # c
        BY <1>3, <1>6, <3>1, Constants
      <4> QED BY <4>1, <4>2
    <3>4. Unnamed(T, c)
      BY <1>2, <1>9, <3>1, <3>3 DEF Unnamed
    <3> QED BY <3>1, <3>2, <3>4
  <2>4. T.begun # {} => world.threads
    BY <1>2 DEF Nearly, Tied
  <2>5. \A i \in T.wire \cup T.own \cup T.waiting \cup T.polling \cup Holds(T) :
          T.request[i].work # "none"
    BY <1>1, <1>2, <1>4, ClientIs DEF Nearly, Tied
  <2>6. \A p \in Posts(T) : T.request[p.of].work # "none"
    <3>1. \A p \in Posts(S) : p.of \in RequestIds /\ S.request[p.of].work # "none"
      BY <1>1, ClientIs DEF Nearly, Tied
    <3>2. Posts(T) = Posts(S) /\ \A p \in Posts(S) : p.of # j
      BY <1>1, <1>2, <1>4
    <3> QED BY ONLY <1>2, <3>1, <3>2
  <2> QED BY <2>1, <2>2, <2>3, <2>4, <2>5, <2>6 DEF Tied
<1>15. Timed(T, x)
  <2> SUFFICES ASSUME NEW o \in RequestIds
               PROVE  /\ T.clock[o] # Off => T.age[o] + T.clock[o] <= MaxTime
                      /\ Does(T, "start", o) => T.age[o] = 0
                      /\ Does(T, "stop", o) =>
                           \A i \in RequestIds : live(T, i) => T.request[i].origin # o
                      /\ ~world.threads =>
                           (calling(T, o) /\ o # x /\ ~T.request[o].task =>
                              T.clock[T.request[o].origin] # Off
                                \/ Does(T, "start", T.request[o].origin))
    BY DEF Timed
  <2>1. T.clock[o] # Off => T.age[o] + T.clock[o] <= MaxTime
    BY <1>2, <1>4 DEF Nearly, Timed
  <2>2. Does(T, "start", o) => T.age[o] = 0
    BY <1>2, <1>9 DEF Nearly, Timed
  <2>3. ASSUME Does(T, "stop", o), NEW i \in RequestIds, live(T, i)
        PROVE  T.request[i].origin # o
    <3>1. Does(S, "stop", o) /\ o # j
      BY <1>9, <2>3
    <3>2. CASE i = j
      BY <1>3, <3>1, <3>2
    <3>3. CASE i # j
      BY <1>2, <1>7, <2>3, <3>1, <3>3 DEF Nearly, Timed
    <3> QED BY <3>2, <3>3
  <2>4. ASSUME ~world.threads, calling(T, o), o # x, ~T.request[o].task
        PROVE  T.clock[T.request[o].origin] # Off \/ Does(T, "start", T.request[o].origin)
    <3>1. o # j /\ calling(S, o) /\ T.request[o] = S.request[o]
      BY <1>2, <1>7, <1>8, <2>4
    <3>2. S.clock[S.request[o].origin] # Off \/ Does(S, "start", S.request[o].origin)
      BY <2>4, <3>1 DEF Nearly, Timed
    <3> QED BY <1>2, <3>1, <3>2 DEF Does
  <2> QED BY <2>1, <2>2, <2>3, <2>4
<1>16. Owned(T)
  <2> SUFFICES ASSUME NEW i \in T.own
               PROVE  (live(T, i) /\ T.request[i].sent_apart) \/ Does(T, "close", i)
    BY DEF Owned
  <2>1. i \in RequestIds /\ i # j /\ i \in S.own
    BY <1>1, <1>2, <1>4, ClientIs
  <2> QED BY <1>2, <1>7, <1>9, <2>1 DEF Nearly, Owned
<1>17. Shaken(T, x)
  <2>1. \A i, k \in RequestIds : shaking(T, i) /\ shaking(T, k) => i = k
    BY <1>7, <1>8 DEF Nearly, Shaken, Askable
  <2>2. \A i \in RequestIds : shaking(T, i) =>
          T.reinitializing /\ (x # 0 /\ T.request[x].work = "initialize" => i = x)
    BY <1>1, <1>2, <1>5, <1>7, <1>8 DEF Nearly, Shaken, Askable
  <2>3. /\ T.held # <<>> => T.reinitializing
        /\ \A m, n \in 1..Len(T.held) : T.held[m] = T.held[n] => m = n
    BY <1>2 DEF Nearly, Shaken
  <2>4. \A i \in Holds(T) : /\ live(T, i) => T.request[i].session_retried
                            /\ world.steady => T.request[i].work = "call"
    BY <1>1, <1>2, <1>4, <1>7, ClientIs DEF Nearly, Shaken
  <2> QED BY <2>1, <2>2, <2>3, <2>4 DEF Shaken
<1>18. /\ ShakingGoesOn(S, x) => ShakingGoesOn(T, x)
       /\ work = "initialize" => ShakingGoesOn(T, x)
  <2>1. \A i \in RequestIds : shaking(S, i) => shaking(T, i)
    BY <1>4, <1>7 DEF shaking
  <2>2. x # 0 => T.request[x] = S.request[x]
    BY <1>1, <1>2, <1>5
  <2> QED BY <1>1, <1>2, <1>8, <2>1, <2>2 DEF ShakingGoesOn
<1>19. Carried(T, x)
  <2> SUFFICES ASSUME world.steady, NEW i \in RequestIds
               PROVE  /\ T.net = "up" /\ T.waiting = {}
                      /\ T.request[i].settled
                         /\ T.request[i].work \in {"initialize", "poll", "list"} /\ i # x =>
                           T.request[i].told
                      /\ live(T, i) /\ T.request[i].task /\ i # x =>
                           \/ i \in T.polling \/ \E k \in RequestIds : polls(T, k, i)
                           \/ x # 0 /\ T.request[x].work = "poll" /\ T.request[x].after = i
    BY <1>2 DEF Carried, Nearly
  <2>1. T.net = "up" /\ T.waiting = {}
    BY <1>2 DEF Nearly, Carried
  <2>2. T.request[i].settled /\ T.request[i].work \in {"initialize", "poll", "list"} /\ i # x =>
          T.request[i].told
    BY <1>2, <1>3 DEF Nearly, Carried
  <2>3. ASSUME live(T, i), T.request[i].task, i # x
        PROVE  \/ i \in T.polling \/ \E k \in RequestIds : polls(T, k, i)
               \/ x # 0 /\ T.request[x].work = "poll" /\ T.request[x].after = i
    <3>1. i # j /\ live(S, i) /\ S.request[i].task
      BY <1>2, <1>3, <1>7, <2>3
    <3>2. \/ i \in S.polling \/ \E k \in RequestIds : polls(S, k, i)
          \/ x # 0 /\ S.request[x].work = "poll" /\ S.request[x].after = i
      BY <2>3, <3>1 DEF Nearly, Carried
    <3>3. \A k \in RequestIds : polls(S, k, i) => polls(T, k, i)
      BY <1>4, <1>7 DEF polls
    <3>4. x # 0 => T.request[x] = S.request[x]
      BY <1>1, <1>2, <1>5
    <3> QED BY <1>2, <3>2, <3>3, <3>4
  <2> QED BY <2>1, <2>2, <2>3
<1>20. OneWay(T)
  <2> SUFFICES ASSUME world.steady, Modern, NEW i \in RequestIds
               PROVE  /\ T.held = <<>> /\ SendsOnce(T)
                      /\ live(T, i) =>
                           /\ i \in T.wire =>
                                ~Does(T, "send", i) /\ ~T.request[i].task /\ ~Awaited(T, i)
                           /\ Does(T, "send", i) => ~T.request[i].task /\ ~Awaited(T, i)
                           /\ T.request[i].task => ~Awaited(T, i)
    BY <1>1, <1>2 DEF OneWay, Nearly, SendsOnce
  <2>1. T.held = <<>> /\ SendsOnce(T)
    BY <1>2 DEF Nearly, OneWay, SendsOnce
  <2>2. CASE i = j
    BY <1>2, <1>3, <1>4, <1>9, <2>1, <2>2
  <2>3. ASSUME i # j, live(T, i)
        PROVE  /\ i \in T.wire =>
                    ~Does(T, "send", i) /\ ~T.request[i].task /\ ~Awaited(T, i)
               /\ Does(T, "send", i) => ~T.request[i].task /\ ~Awaited(T, i)
               /\ T.request[i].task => ~Awaited(T, i)
    <3>1. live(S, i) /\ T.request[i] = S.request[i] /\ (i \in T.wire <=> i \in S.wire)
      BY <1>2, <1>7, <2>3
    <3>2. Does(T, "send", i) <=> Does(S, "send", i)
      BY <1>9
    <3> QED BY <1>10, <3>1, <3>2 DEF Nearly, OneWay, Askable
  <2> QED BY <2>1, <2>2, <2>3
<1>21. Clear(T, j)
  BY <1>1, <1>2, <1>3, <1>4, <1>9, <1>11 DEF Clear
<1>22. Nearly(T, x)
  BY <1>1, <1>2, <1>12, <1>13, <1>14, <1>15, <1>16, <1>17, <1>19, <1>20 DEF Nearly
<1> QED BY <1>8, <1>18, <1>21, <1>22 DEF Sound

\* Its clock is asked for.
LEMMA StartedIs ==
  ASSUME NEW S, NEW x, Nearly(S, x), NEW j \in RequestIds, S.request[j].work # "none",
         S.age[j] = 0, NEW T, T = Put(S, "start", j)
  PROVE  /\ Nearly(T, x) /\ (Sound(S, x) => Sound(T, x)) /\ Leads(S, T)
         /\ T.request = S.request /\ T.wire = S.wire /\ T.begun = S.begun
         /\ Clear(S, j) => Clear(T, j)
<1>1. S \in Client
  BY DEF Nearly
<1>2. /\ T \in Client /\ T = [S EXCEPT !.queue = T.queue]
      /\ Posts(T) = Posts(S) \cup {[do |-> "start", of |-> j]}
      /\ SendsOnce(S) => SendsOnce(T)
  BY <1>1, StartIs
<1>3. /\ T.request = S.request /\ T.tracked = S.tracked /\ T.answer = S.answer
      /\ T.held = S.held /\ T.reinitializing = S.reinitializing /\ T.begun = S.begun
      /\ T.wire = S.wire /\ T.waiting = S.waiting /\ T.polling = S.polling /\ T.own = S.own
      /\ T.age = S.age /\ T.clock = S.clock /\ T.net = S.net
  BY <1>1, <1>2 DEF Client
<1>4. \A p \in Posts(T) \ Posts(S) : S.request[p.of].work # "none" /\ p.do # "send"
  BY <1>2
<1>5. Moved(S, T, x)
  BY <1>1, <1>2, <1>3, <1>4 DEF Moved, Nearly, Called
<1>6. \A o \in RequestIds :
        /\ Does(T, "start", o) => Does(S, "start", o) \/ o = j
        /\ Does(S, "start", o) => Does(T, "start", o)
        /\ Does(T, "stop", o) => Does(S, "stop", o)
        /\ Does(T, "send", o) => Does(S, "send", o)
        /\ Does(S, "close", o) => Does(T, "close", o)
  BY <1>2 DEF Does
<1>7. /\ \A k \in RequestIds : /\ live(T, k) <=> live(S, k)
                               /\ calling(T, k) <=> calling(S, k)
                               /\ Awaited(T, k) <=> Awaited(S, k)
      /\ S.own \subseteq RequestIds /\ \A k \in RequestIds : S.request[k].origin \in RequestIds
  BY <1>1, <1>3, ClientIs, ContextIs DEF live, calling, Awaited
<1>8. Timed(T, x)
  BY <1>3, <1>6, <1>7 DEF Nearly, Timed
<1>9. Owned(T)
  BY <1>3, <1>6, <1>7 DEF Nearly, Owned
<1>10. Clear(S, j) => Clear(T, j)
  BY <1>3, <1>6, <1>7 DEF Clear
<1> QED BY <1>3, <1>5, <1>8, <1>9, <1>10, MovedSound

\* What the client asks for itself is sent, under j.
LEMMA AskedGoes ==
  ASSUME NEW A, NEW x, Nearly(A, x), NEW j \in RequestIds, Clear(A, j), A.age[j] = 0,
         NEW timed \in BOOLEAN, NEW luck \in Lucks,
         NEW T, T = sendRequestInternal(IF timed THEN Put(A, "start", j) ELSE A, j, luck)
  PROVE  /\ Nearly(T, x) /\ (Sound(A, x) => Sound(T, x)) /\ Leads(A, T)
         /\ \A k \in T.wire \ A.wire : ~T.request[k].settled
<1>1. PICK B : B = IF timed THEN Put(A, "start", j) ELSE A
  OBVIOUS
<1>2. T = sendRequestInternal(B, j, luck)
  BY <1>1
<1>3. /\ Nearly(B, x) /\ (Sound(A, x) => Sound(B, x)) /\ Leads(A, B)
      /\ B.wire = A.wire /\ Clear(B, j)
  <2>1. CASE timed
    BY <1>1, <2>1, StartedIs DEF Clear
  <2>2. CASE ~timed
    <3>1. B = A
      BY <1>1, <2>2
    <3>2. Leads(A, A)
      BY DEF Leads, Nearly
    <3> QED BY <3>1, <3>2
  <2> QED BY <2>1, <2>2
<1>4. /\ Nearly(T, x) /\ (Sound(B, x) => Sound(T, x)) /\ Leads(B, T)
      /\ \A k \in T.wire \ B.wire : k = j /\ ~T.request[j].settled
  BY <1>2, <1>3, SendIs
<1>5. Leads(A, T)
  BY <1>3, <1>4, LeadsOn
<1> QED BY <1>3, <1>4, <1>5

\* SendInternal: j is the new request's id.
LEMMA AskedSent ==
  ASSUME NEW S, NEW x, Nearly(S, x), x = 0 \/ live(S, x), Free(S) # {},
         NEW work, NEW after, Askable(S, x, work, after), NEW timed \in BOOLEAN,
         NEW luck \in Lucks, NEW T, T = SendInternal(S, work, after, timed, luck)
  PROVE  /\ Nearly(T, x)
         /\ Sound(S, x) \/ work = "initialize" => Sound(T, x)
         /\ Follows(S, T) /\ T.begun = S.begun
         /\ \E j \in Free(S) : Leads(Asked(S, work, j, after), T)
<1>1. PICK j : j = Fresh(S) /\ j \in Free(S) /\ j \in RequestIds
  BY FreshIs
<1>2. PICK A : A = Asked(S, work, j, after)
  OBVIOUS
<1>3. T = sendRequestInternal(IF timed THEN Put(A, "start", j) ELSE A, j, luck)
  BY <1>1, <1>2 DEF SendInternal, Asked
<1>4. /\ Nearly(A, x) /\ live(A, j) /\ Clear(A, j)
      /\ Sound(S, x) \/ work = "initialize" => Sound(A, x)
  BY <1>1, <1>2, AskedSound
<1>5. /\ work \in Works /\ after \in RequestIds \cup {0} /\ S \in Client
  BY DEF Askable, Works, Nearly
<1>6. /\ A \in Client /\ A.age[j] = 0 /\ A.answer = S.answer /\ A.wire = S.wire
      /\ A.begun = S.begun
  BY <1>1, <1>2, <1>5, AskedIs
<1>7. /\ Nearly(T, x) /\ (Sound(A, x) => Sound(T, x)) /\ Leads(A, T)
      /\ \A k \in T.wire \ A.wire : ~T.request[k].settled
  BY <1>1, <1>3, <1>4, <1>6, AskedGoes
<1>8. Follows(S, T)
  BY <1>6, <1>7, FollowsNew
<1>9. T.begun = S.begun
  BY <1>6, <1>7 DEF Leads
<1> QED BY <1>1, <1>2, <1>4, <1>7, <1>8, <1>9

LEMMA CarryOverIs ==
  ASSUME NEW S \in Client, NEW i \in RequestIds, NEW j \in RequestIds, j = Fresh(S), i # j,
         NEW T, T = CarryOver(S, i)
  PROVE  /\ T \in Client
         /\ T.request[j] \in Context
         /\ T.request[j].work = S.request[i].work /\ T.request[j].origin = S.request[i].origin
         /\ T.request[j].after = S.request[i].after
         /\ T.request[j].settled = S.request[i].settled
         /\ T.request[j].task = S.request[i].task /\ T.request[j].rounds = S.request[i].rounds
         /\ T.request[i] = Over(S.request[i])
         /\ \A k \in RequestIds : k # i /\ k # j => T.request[k] = S.request[k]
         /\ T.tracked = (S.tracked \ {i}) \cup {j}
         /\ T.answer = S.answer /\ T.age = S.age /\ T.clock = S.clock
         /\ T.waiting = S.waiting /\ T.polling = S.polling /\ T.net = S.net
         /\ T.wire = S.wire /\ T.own = S.own /\ T.held = S.held /\ T.session = S.session
         /\ T.reinitializing = S.reinitializing /\ T.begun = S.begun
         /\ Posts(S) \subseteq Posts(T)
         /\ Posts(T) \subseteq Posts(S) \cup {[do |-> "close", of |-> i]}
         /\ S.request[i].sent_apart => Does(T, "close", i)
         /\ SendsOnce(S) => SendsOnce(T)
<1>1. S.request[i] \in Context /\ Over(S.request[i]) \in Context
  BY ClientIs, OverIs
<1> DEFINE m == [S.request[i] EXCEPT !.retries = 0, !.sent_apart = FALSE,
                                     !.session_retried = FALSE, !.resumes = 0]
<1>2. /\ m \in Context /\ m.work = S.request[i].work /\ m.origin = S.request[i].origin
      /\ m.after = S.request[i].after /\ m.settled = S.request[i].settled
      /\ m.task = S.request[i].task /\ m.rounds = S.request[i].rounds
  BY <1>1, Constants DEF Context
<1>3. PICK U : U = IF S.request[i].sent_apart THEN Put(S, "close", i) ELSE S
  OBVIOUS
<1>4. T = [U EXCEPT !.request[j] = m, !.request[i] = Over(@),
                    !.tracked = (@ \ {i}) \cup {j}]
  BY <1>3 DEF CarryOver
<1> HIDE DEF m
<1>5. /\ U \in Client /\ U = [S EXCEPT !.queue = U.queue]
      /\ Posts(S) \subseteq Posts(U)
      /\ Posts(U) \subseteq Posts(S) \cup {[do |-> "close", of |-> i]}
      /\ S.request[i].sent_apart => Does(U, "close", i)
      /\ SendsOnce(S) => SendsOnce(U)
  <2>1. CASE S.request[i].sent_apart
    <3>1. U = Put(S, "close", i)
      BY <1>3, <2>1
    <3>2. /\ U \in Client /\ U = [S EXCEPT !.queue = U.queue]
          /\ Posts(U) = Posts(S) \cup {[do |-> "close", of |-> i]}
          /\ SendsOnce(S) => SendsOnce(U)
      BY <3>1, CloseIs
    <3> QED BY <3>2 DEF Does
  <2>2. CASE ~S.request[i].sent_apart
    <3>1. U = S /\ S = [S EXCEPT !.queue = S.queue]
      BY <1>3, <2>2 DEF Client
    <3> QED BY <2>2, <3>1
  <2> QED BY <2>1, <2>2
<1>6. /\ U.request = S.request /\ U.tracked = S.tracked
      /\ U.answer = S.answer /\ U.age = S.age /\ U.clock = S.clock
      /\ U.waiting = S.waiting /\ U.polling = S.polling /\ U.net = S.net
      /\ U.wire = S.wire /\ U.own = S.own /\ U.held = S.held /\ U.session = S.session
      /\ U.reinitializing = S.reinitializing /\ U.begun = S.begun
  BY <1>5 DEF Client
<1> DEFINE b == [U.request EXCEPT ![j] = m, ![i] = Over(@)]
           tracked == (S.tracked \ {i}) \cup {j}
<1>7. T = [U EXCEPT !.request = b, !.tracked = tracked]
  <2>1. U \in Client /\ U.tracked = S.tracked
    BY <1>5, <1>6
  <2>2. T = [U EXCEPT !.request = [U.request EXCEPT ![j] = m, ![i] = Over(@)],
                      !.tracked = (U.tracked \ {i}) \cup {j}]
    BY ONLY <1>4, <2>1, i # j DEF Client
  <2> QED BY ONLY <2>1, <2>2
<1>8. /\ b \in [RequestIds -> Context] /\ b[j] = m /\ b[i] = Over(S.request[i])
      /\ \A k \in RequestIds : k # i /\ k # j => b[k] = S.request[k]
  <2>1. S.request \in [RequestIds -> Context]
    BY ClientIs
  <2> QED BY <1>1, <1>2, <1>6, <2>1
<1>9. tracked \subseteq RequestIds
  BY ClientIs
<1> HIDE DEF b, tracked
<1>10. /\ T \in Client /\ T.request = b /\ T.tracked = tracked /\ T.queue = U.queue
  BY ZenonT(30), <1>5, <1>7, <1>8, <1>9 DEF Client
<1>11. /\ T.answer = U.answer /\ T.age = U.age /\ T.clock = U.clock
       /\ T.waiting = U.waiting /\ T.polling = U.polling /\ T.net = U.net
       /\ T.wire = U.wire /\ T.own = U.own /\ T.held = U.held /\ T.session = U.session
       /\ T.reinitializing = U.reinitializing /\ T.begun = U.begun
  BY <1>5, <1>7 DEF Client
<1>12. /\ Posts(T) = Posts(U) /\ (Does(U, "close", i) => Does(T, "close", i))
       /\ SendsOnce(U) => SendsOnce(T)
  BY <1>10 DEF Posts, Does, SendsOnce
<1> QED BY <1>2, <1>5, <1>6, <1>8, <1>10, <1>11, <1>12 DEF tracked

\* The same call under another id is waited for as before.
LEMMA CarryOverSound ==
  ASSUME NEW S, Sound(S, 0), NEW i \in RequestIds, calling(S, i), i \in S.tracked,
         Free(S) # {}, world.steady => ~S.request[i].task,
         NEW j, j = Fresh(S), NEW T, T = CarryOver(S, i)
  PROVE  /\ Sound(T, 0) /\ j \in RequestIds /\ Clear(T, j) /\ live(T, j)
         /\ T.request[j].rounds = S.request[i].rounds
         /\ T.wire = S.wire /\ T.answer = S.answer /\ T.begun = S.begun
<1>1. /\ S \in Client /\ j \in Free(S) /\ j \in RequestIds /\ j \notin Calls
  BY FreshIs DEF Sound, Nearly, Free
<1>2. /\ ~live(S, j)
      /\ j \notin S.tracked \cup S.wire \cup S.own \cup S.waiting \cup S.polling
      /\ S.clock[j] = Off /\ (\A p \in Posts(S) : p.of # j) /\ j \notin Holds(S)
      /\ \A k \in RequestIds : live(S, k) => S.request[k].after # j
      /\ j \notin S.begun
  <2>1. j \notin S.begun
    BY <1>1, ClientIs
  <2> QED BY <1>1, <2>1, FreeIs DEF live
<1>3. /\ i # j /\ S.request[i].work = "call" /\ ~S.request[i].settled /\ i \notin S.begun
      /\ S.request[i].after = 0 /\ live(S, i)
  BY <1>2 DEF Sound, Nearly, Tied, Unnamed, Called, calling, live
<1>4. /\ T \in Client
      /\ T.request[j] \in Context
      /\ T.request[j].work = S.request[i].work /\ T.request[j].origin = S.request[i].origin
      /\ T.request[j].after = S.request[i].after
      /\ T.request[j].settled = S.request[i].settled
      /\ T.request[j].task = S.request[i].task /\ T.request[j].rounds = S.request[i].rounds
      /\ T.request[i] = Over(S.request[i])
      /\ \A k \in RequestIds : k # i /\ k # j => T.request[k] = S.request[k]
      /\ T.tracked = (S.tracked \ {i}) \cup {j}
      /\ T.answer = S.answer /\ T.age = S.age /\ T.clock = S.clock
      /\ T.waiting = S.waiting /\ T.polling = S.polling /\ T.net = S.net
      /\ T.wire = S.wire /\ T.own = S.own /\ T.held = S.held
      /\ T.reinitializing = S.reinitializing /\ T.begun = S.begun
      /\ Posts(S) \subseteq Posts(T)
      /\ Posts(T) \subseteq Posts(S) \cup {[do |-> "close", of |-> i]}
      /\ S.request[i].sent_apart => Does(T, "close", i)
      /\ SendsOnce(S) => SendsOnce(T)
  BY <1>1, <1>3, CarryOverIs
<1>5. /\ T.request[i].work = "call" /\ T.request[i].origin = S.request[i].origin
      /\ T.request[i].after = 0 /\ T.request[i].settled
      /\ S.request[i].origin \in Calls /\ ~T.request[i].task
  <2>1. S.request[i] \in Context
    BY <1>1, ClientIs
  <2> QED BY <1>3, <1>4, <2>1, OverIs DEF Sound, Nearly, Called
<1>6. /\ ~live(T, i) /\ live(T, j) /\ calling(T, j)
  BY <1>3, <1>4, <1>5 DEF live, calling
<1>7. \A k \in RequestIds : k # i /\ k # j =>
        /\ T.request[k] = S.request[k]
        /\ live(T, k) <=> live(S, k)
        /\ calling(T, k) <=> calling(S, k)
  BY <1>4 DEF live, calling
<1>8. \A k \in RequestIds :
        /\ shaking(T, k) <=> shaking(S, k)
        /\ \A n \in RequestIds : polls(T, k, n) <=> polls(S, k, n)
  BY <1>2, <1>3, <1>4, <1>5, <1>7 DEF shaking, polls
<1>9. \A n \in RequestIds : Awaited(T, n) => Awaited(S, n)
  BY <1>3, <1>4, <1>5, <1>7 DEF Awaited
<1>10. ~Awaited(T, j)
  BY <1>1, <1>2, <1>9 DEF Awaited
<1>11. \A k \in RequestIds :
         /\ Does(T, "send", k) <=> Does(S, "send", k)
         /\ Does(T, "start", k) <=> Does(S, "start", k)
         /\ Does(T, "stop", k) <=> Does(S, "stop", k)
         /\ Does(S, "close", k) => Does(T, "close", k)
  BY <1>4 DEF Does
<1>12. ~Does(T, "send", j)
  BY <1>1, <1>2, <1>11 DEF Does
<1>13. Called(T)
  <2>1. \A k \in RequestIds :
       /\ T.request[k].work = "call" =>
            T.request[k].origin \in Calls /\ T.answer[T.request[k].origin] # "unsent"
       /\ T.request[k].work # "call" => T.request[k].origin = k
       /\ T.request[k].work \in {"poll", "list"} => T.request[k].after \in RequestIds
       /\ T.request[k].work \notin {"poll", "list"} => T.request[k].after = 0
       /\ T.request[k].task /\ ~T.request[k].settled => T.request[k].work = "call" /\ Modern
    <3> SUFFICES ASSUME NEW k \in RequestIds
                 PROVE  /\ T.request[k].work = "call" =>
                             /\ T.request[k].origin \in Calls
                             /\ T.answer[T.request[k].origin] # "unsent"
                        /\ T.request[k].work # "call" => T.request[k].origin = k
                        /\ T.request[k].work \in {"poll", "list"} =>
                             T.request[k].after \in RequestIds
                        /\ T.request[k].work \notin {"poll", "list"} => T.request[k].after = 0
                        /\ T.request[k].task /\ ~T.request[k].settled =>
                             T.request[k].work = "call" /\ Modern
      OBVIOUS
    <3>1. CASE k = i
      BY <1>3, <1>4, <1>5, <3>1 DEF Sound, Nearly, Called
    <3>2. CASE k = j
      BY <1>3, <1>4, <3>2 DEF Sound, Nearly, Called
    <3>3. CASE k # i /\ k # j
      BY <1>4, <3>3 DEF Sound, Nearly, Called
    <3> QED BY <3>1, <3>2, <3>3
  <2>2. ASSUME NEW k \in RequestIds, live(T, k), T.request[k].after # 0
        PROVE  T.request[T.request[k].after].work = "call"
    <3>1. k # i /\ k # j
      BY <1>3, <1>4, <1>6, <2>2
    <3>2. live(S, k) /\ T.request[k] = S.request[k]
      BY <1>7, <2>2, <3>1
    <3>3. /\ S.request[k].after \in RequestIds /\ S.request[k].after # j
          /\ S.request[S.request[k].after].work = "call"
      BY <1>2, <2>1, <2>2, <3>2 DEF Sound, Nearly, Called
    <3> QED BY <1>4, <1>5, <3>2, <3>3
  <2>3. \A c \in Calls :
       /\ T.request[c].work \in {"none", "call"}
       /\ T.request[c].work = "none" <=> T.answer[c] = "unsent"
       /\ T.answer[c] = "unsent" => T.age[c] = 0
    <3>1. \A c \in Calls : c \in RequestIds /\ c # j
      BY <1>1, Constants
    <3>2. \A c \in Calls : T.request[c].work = S.request[c].work
      BY <1>3, <1>4, <1>5, <3>1
    <3> QED BY <1>4, <3>2 DEF Sound, Nearly, Called
  <2>4. \A k \in T.polling : T.request[k].work = "call"
    <3>1. \A k \in T.polling : k \in RequestIds /\ k \in S.polling /\ k # j
      BY <1>1, <1>2, <1>4, ClientIs
    <3>2. \A k \in S.polling : S.request[k].work = "call"
      BY DEF Sound, Nearly, Called
    <3> QED BY <1>4, <1>5, <3>1, <3>2
  <2> QED BY <2>1, <2>2, <2>3, <2>4 DEF Called
<1>14. Promised(T)
  <2>1. \A k \in RequestIds : calling(T, k) => T.answer[T.request[k].origin] = "waiting"
    BY <1>3, <1>4, <1>6, <1>7 DEF Sound, Nearly, Promised, calling
  <2>2. ASSUME NEW k \in RequestIds, NEW n \in RequestIds, calling(T, k), calling(T, n),
               T.request[k].origin = T.request[n].origin
        PROVE  k = n
    <3>1. k # i /\ n # i
      BY <1>6, <2>2 DEF calling
    <3>2. CASE k # j /\ n # j
      BY <1>7, <2>2, <3>1, <3>2 DEF Sound, Nearly, Promised
    <3>3. CASE k = j /\ n # j
      <4>1. calling(S, n) /\ S.request[n].origin = S.request[i].origin
        BY <1>4, <1>7, <2>2, <3>1, <3>3
      <4> QED BY <3>1, <4>1 DEF Sound, Nearly, Promised
    <3>4. CASE k # j /\ n = j
      <4>1. calling(S, k) /\ S.request[k].origin = S.request[i].origin
        BY <1>4, <1>7, <2>2, <3>1, <3>4
      <4> QED BY <3>1, <4>1 DEF Sound, Nearly, Promised
    <3> QED BY <3>2, <3>3, <3>4
  <2>3. ASSUME NEW c \in Calls, T.answer[c] = "waiting"
        PROVE  \E k \in RequestIds : calling(T, k) /\ T.request[k].origin = c
    <3>1. PICK k \in RequestIds : calling(S, k) /\ S.request[k].origin = c
      BY <1>4, <2>3 DEF Sound, Nearly, Promised
    <3>2. CASE k = i
      BY <1>1, <1>4, <1>6, <3>1, <3>2
    <3>3. CASE k # i
      <4>1. k # j
        BY <1>2, <3>1 DEF calling
      <4> QED BY <1>7, <3>1, <3>3, <4>1
    <3> QED BY <3>2, <3>3
  <2> QED BY <2>1, <2>2, <2>3 DEF Promised
<1>15. Tied(T, 0)
  <2>1. \A k \in T.tracked : live(T, k)
    BY <1>1, <1>2, <1>4, <1>6, <1>7, ClientIs DEF Sound, Nearly, Tied
  <2>2. \A k \in RequestIds : live(T, k) /\ k # 0 => k \in T.tracked \/ k \in T.begun
    BY <1>4, <1>6, <1>7 DEF Sound, Nearly, Tied
  <2>3. ASSUME NEW c \in T.begun
        PROVE  /\ calling(T, c) /\ T.request[c].origin = c /\ ~T.request[c].task
               /\ Unnamed(T, c)
    <3>1. /\ c \in RequestIds /\ c \in S.begun /\ c # j /\ c # i
          /\ calling(S, c) /\ S.request[c].origin = c /\ ~S.request[c].task /\ Unnamed(S, c)
      BY <1>1, <1>2, <1>3, <1>4, <2>3, ClientIs, Constants DEF Sound, Nearly, Tied
    <3>2. calling(T, c) /\ T.request[c] = S.request[c]
      BY <1>7, <3>1
    <3>3. \A k \in RequestIds : live(T, k) => T.request[k].after # c
      <4>1. \A k \in RequestIds : k # j /\ live(T, k) => T.request[k].after # c
        BY <1>6, <1>7, <3>1 DEF Unnamed
      <4>2. T.request[j].after # c
        BY <1>3, <1>4, <3>1, Constants
      <4> QED BY <4>1, <4>2
    <3>4. Holds(T) = Holds(S)
      BY <1>4 DEF Holds
    <3>5. Unnamed(T, c)
      BY <1>4, <1>11, <3>1, <3>3, <3>4 DEF Unnamed
    <3> QED BY <3>1, <3>2, <3>5
  <2>4. T.begun # {} => world.threads
    BY <1>4 DEF Sound, Nearly, Tied
  <2>5. \A k \in RequestIds : S.request[k].work # "none" => T.request[k].work # "none"
    BY <1>3, <1>4, <1>5
  <2>6. \A k \in T.wire \cup T.own \cup T.waiting \cup T.polling \cup Holds(T) :
          T.request[k].work # "none"
    <3>1. Holds(T) = Holds(S)
      BY <1>4 DEF Holds
    <3> QED BY <1>1, <1>4, <2>5, <3>1, ClientIs DEF Sound, Nearly, Tied
  <2>7. \A p \in Posts(T) : T.request[p.of].work # "none"
    <3> SUFFICES ASSUME NEW p \in Posts(T) PROVE T.request[p.of].work # "none"
      OBVIOUS
    <3>1. CASE p \in Posts(S)
      BY <1>1, <2>5, <3>1, ClientIs DEF Sound, Nearly, Tied
    <3>2. CASE p = [do |-> "close", of |-> i]
      BY <1>5, <3>2
    <3> QED BY <1>4, <3>1, <3>2
  <2> QED BY <2>1, <2>2, <2>3, <2>4, <2>6, <2>7 DEF Tied
<1>16. Timed(T, 0)
  <2> SUFFICES ASSUME NEW o \in RequestIds
               PROVE  /\ T.clock[o] # Off => T.age[o] + T.clock[o] <= MaxTime
                      /\ Does(T, "start", o) => T.age[o] = 0
                      /\ Does(T, "stop", o) =>
                           \A k \in RequestIds : live(T, k) => T.request[k].origin # o
                      /\ ~world.threads =>
                           (calling(T, o) /\ o # 0 /\ ~T.request[o].task =>
                              T.clock[T.request[o].origin] # Off
                                \/ Does(T, "start", T.request[o].origin))
    BY DEF Timed
  <2>1. T.clock[o] # Off => T.age[o] + T.clock[o] <= MaxTime
    BY <1>4 DEF Sound, Nearly, Timed
  <2>2. Does(T, "start", o) => T.age[o] = 0
    BY <1>4, <1>11 DEF Sound, Nearly, Timed
  <2>3. ASSUME Does(T, "stop", o), NEW k \in RequestIds, live(T, k)
        PROVE  T.request[k].origin # o
    <3>1. Does(S, "stop", o)
      BY <1>11, <2>3
    <3>2. CASE k = j
      BY <1>3, <1>4, <3>1, <3>2 DEF Sound, Nearly, Timed
    <3>3. CASE k # j
      BY <1>6, <1>7, <2>3, <3>1, <3>3 DEF Sound, Nearly, Timed
    <3> QED BY <3>2, <3>3
  <2>4. ASSUME ~world.threads, calling(T, o), ~T.request[o].task
        PROVE  T.clock[T.request[o].origin] # Off \/ Does(T, "start", T.request[o].origin)
    <3>1. \E n \in RequestIds : /\ calling(S, n) /\ n # 0 /\ ~S.request[n].task
                                /\ S.request[n].origin = T.request[o].origin
      <4>1. CASE o = j
        BY <1>4, <2>4, <4>1, Constants
      <4>2. CASE o # j
        <5>1. o # i
          BY <1>6, <2>4 DEF calling
        <5> QED BY <1>7, <2>4, <4>2, <5>1, Constants
      <4> QED BY <4>1, <4>2
    <3>2. \/ S.clock[T.request[o].origin] # Off \/ Does(S, "start", T.request[o].origin)
      BY <2>4, <3>1 DEF Sound, Nearly, Timed
    <3> QED BY <1>4, <3>2 DEF Does
  <2> QED BY <2>1, <2>2, <2>3, <2>4
<1>17. Owned(T)
  <2> SUFFICES ASSUME NEW k \in T.own
               PROVE  (live(T, k) /\ T.request[k].sent_apart) \/ Does(T, "close", k)
    BY DEF Owned
  <2>1. k \in RequestIds /\ k # j /\ k \in S.own
    BY <1>1, <1>2, <1>4, ClientIs
  <2> QED BY <1>4, <1>7, <1>11, <2>1 DEF Sound, Nearly, Owned
<1>18. Shaken(T, 0)
  <2>1. Holds(T) = Holds(S) /\ Holds(S) \subseteq RequestIds /\ j \notin Holds(S)
    BY <1>1, <1>2, <1>4, ClientIs DEF Holds
  <2>2. \A k \in Holds(T) : /\ live(T, k) => T.request[k].session_retried
                            /\ world.steady => T.request[k].work = "call"
    BY <1>5, <1>6, <1>7, <2>1 DEF Sound, Nearly, Shaken
  <2>3. /\ \A k, n \in RequestIds : shaking(T, k) /\ shaking(T, n) => k = n
        /\ \A k \in RequestIds : shaking(T, k) => T.reinitializing
        /\ T.held # <<>> => T.reinitializing
        /\ \A m, n \in 1..Len(T.held) : T.held[m] = T.held[n] => m = n
    BY <1>4, <1>8 DEF Sound, Nearly, Shaken
  <2> QED BY <2>2, <2>3 DEF Shaken
<1>19. ShakingGoesOn(T, 0)
  BY <1>4, <1>8 DEF Sound, ShakingGoesOn
<1>20. Carried(T, 0)
  <2>1. ASSUME world.steady, NEW k \in RequestIds
        PROVE  /\ T.net = "up" /\ T.waiting = {}
               /\ T.request[k].settled /\ T.request[k].work \in {"initialize", "poll", "list"} =>
                    T.request[k].told
               /\ live(T, k) /\ T.request[k].task =>
                    k \in T.polling \/ \E n \in RequestIds : polls(T, n, k)
    <3>1. T.net = "up" /\ T.waiting = {}
      BY <1>4, <2>1 DEF Sound, Nearly, Carried
    <3>2. CASE k = i \/ k = j
      BY <1>3, <1>4, <1>5, <1>6, <2>1, <3>1, <3>2
    <3>3. CASE k # i /\ k # j
      <4>1. k # 0
        BY Constants
      <4> QED BY <1>4, <1>7, <1>8, <2>1, <3>3, <4>1 DEF Sound, Nearly, Carried
    <3> QED BY <3>2, <3>3
  <2> QED BY <2>1 DEF Carried, Sound, Nearly
<1>21. OneWay(T)
  <2> SUFFICES ASSUME world.steady, Modern, NEW k \in RequestIds
               PROVE  /\ T.held = <<>> /\ SendsOnce(T)
                      /\ live(T, k) =>
                           /\ k \in T.wire =>
                                ~Does(T, "send", k) /\ ~T.request[k].task /\ ~Awaited(T, k)
                           /\ Does(T, "send", k) => ~T.request[k].task /\ ~Awaited(T, k)
                           /\ T.request[k].task => ~Awaited(T, k)
    BY <1>1 DEF OneWay
  <2>1. T.held = <<>> /\ SendsOnce(T)
    BY <1>4 DEF Sound, Nearly, OneWay
  <2>2. CASE k = j
    BY <1>2, <1>4, <1>10, <1>12, <2>1, <2>2
  <2>3. CASE k = i
    BY <1>6, <2>1, <2>3
  <2>4. CASE k # i /\ k # j
    BY <1>4, <1>7, <1>9, <1>11, <2>1, <2>4 DEF Sound, Nearly, OneWay
  <2> QED BY <2>2, <2>3, <2>4
<1>22. Clear(T, j)
  BY <1>2, <1>3, <1>4, <1>10, <1>12 DEF Clear
<1>23. Sound(T, 0)
  BY <1>4, <1>13, <1>14, <1>15, <1>16, <1>17, <1>18, <1>19, <1>20, <1>21 DEF Sound, Nearly
<1> QED BY <1>1, <1>4, <1>6, <1>22, <1>23


\* A handshake is over: nothing is held for it, and another may begin.
LEMMA ShakenDone ==
  ASSUME NEW S, NEW i \in RequestIds, Sound(S, i), S.request[i].settled, S.request[i].told,
         S.request[i].work = "initialize", NEW session \in BOOLEAN,
         NEW T, T = [S EXCEPT !.reinitializing = FALSE, !.held = <<>>, !.session = session]
  PROVE  Sound(T, 0) /\ Leads(S, T)
<1>1. S \in Client /\ i # 0
  BY Constants DEF Sound, Nearly
<1>2. /\ T \in Client /\ T.request = S.request /\ T.tracked = S.tracked
      /\ T.answer = S.answer /\ T.age = S.age /\ T.clock = S.clock /\ T.queue = S.queue
      /\ T.waiting = S.waiting /\ T.polling = S.polling /\ T.net = S.net
      /\ T.wire = S.wire /\ T.own = S.own /\ T.held = <<>>
      /\ ~T.reinitializing /\ T.begun = S.begun
  <2>1. PICK none : none = <<>> /\ none \in Seq(RequestIds)
    <3>1. <<>> \in Seq(RequestIds)
      BY EmptySeq
    <3> QED BY <3>1, Zenon
  <2>2. T = [S EXCEPT !.reinitializing = FALSE, !.held = none, !.session = session]
    BY <2>1
  <2>3. /\ T \in Client /\ T.request = S.request /\ T.tracked = S.tracked
        /\ T.answer = S.answer /\ T.age = S.age /\ T.clock = S.clock /\ T.queue = S.queue
        /\ T.waiting = S.waiting /\ T.polling = S.polling /\ T.net = S.net
        /\ T.wire = S.wire /\ T.own = S.own /\ T.held = none
        /\ T.reinitializing = FALSE /\ T.begun = S.begun
    BY ONLY <1>1, <2>1, <2>2, session \in BOOLEAN DEF Client
  <2> QED BY <2>1, <2>3
<1>3. Posts(T) = Posts(S) /\ Holds(T) = {} /\ (SendsOnce(S) => SendsOnce(T))
  BY <1>2 DEF Posts, Holds, SendsOnce
<1>4. \A k, n \in RequestIds :
        /\ live(T, k) <=> live(S, k)
        /\ calling(T, k) <=> calling(S, k)
        /\ shaking(T, k) <=> shaking(S, k)
        /\ polls(T, k, n) <=> polls(S, k, n)
        /\ Awaited(T, k) <=> Awaited(S, k)
  BY <1>2 DEF live, calling, shaking, polls, Awaited
<1>5. /\ \A k \in RequestIds : ~shaking(T, k)
      /\ \A k \in RequestIds : live(S, k) => k # i
  BY <1>1, <1>4 DEF Sound, Nearly, Shaken, shaking, live
<1>6. \A do \in {"start", "stop", "send", "close"}, k \in RequestIds :
        Does(T, do, k) <=> Does(S, do, k)
  BY <1>3 DEF Does
<1>7. Called(T) /\ Promised(T)
  BY <1>2, <1>4 DEF Sound, Nearly, Called, Promised
<1>8. Tied(T, 0)
  <2>1. \A k \in T.tracked : live(T, k)
    BY <1>1, <1>2, <1>4, ClientIs DEF Sound, Nearly, Tied
  <2>2. \A k \in RequestIds : live(T, k) /\ k # 0 => k \in T.tracked \/ k \in T.begun
    BY <1>2, <1>4, <1>5 DEF Sound, Nearly, Tied
  <2>3. ASSUME NEW c \in T.begun
        PROVE  /\ calling(T, c) /\ T.request[c].origin = c /\ ~T.request[c].task
               /\ Unnamed(T, c)
    <3>1. /\ c \in RequestIds /\ c \in S.begun
          /\ calling(S, c) /\ S.request[c].origin = c /\ ~S.request[c].task /\ Unnamed(S, c)
      BY <1>1, <1>2, <2>3, ClientIs, Constants DEF Sound, Nearly, Tied
    <3>2. Unnamed(T, c)
      BY <1>2, <1>3, <1>4, <1>6, <3>1 DEF Unnamed
    <3> QED BY <1>2, <1>4, <3>1, <3>2
  <2>4. T.begun # {} => world.threads
    BY <1>2 DEF Sound, Nearly, Tied
  <2>5. \A k \in T.wire \cup T.own \cup T.waiting \cup T.polling \cup Holds(T) :
          T.request[k].work # "none"
    BY <1>2, <1>3 DEF Sound, Nearly, Tied
  <2>6. \A p \in Posts(T) : T.request[p.of].work # "none"
    BY <1>2, <1>3 DEF Sound, Nearly, Tied
  <2> QED BY <2>1, <2>2, <2>3, <2>4, <2>5, <2>6 DEF Tied
<1>9. Timed(T, 0)
  <2>1. \A k \in RequestIds : S.request[k].origin \in RequestIds
    BY <1>1, ClientIs, ContextIs
  <2>2. \A k \in RequestIds : calling(T, k) => k # i /\ calling(S, k)
    BY <1>4, <1>5 DEF calling
  <2> QED BY <1>2, <1>4, <1>6, <2>1, <2>2 DEF Sound, Nearly, Timed
<1>10. Owned(T)
  BY <1>1, <1>2, <1>4, <1>6, ClientIs DEF Sound, Nearly, Owned
<1>11. Shaken(T, 0) /\ ShakingGoesOn(T, 0)
  BY <1>2, <1>3, <1>5 DEF Shaken, ShakingGoesOn
<1>12. Carried(T, 0)
  BY <1>2, <1>4, <1>5 DEF Sound, Nearly, Carried
<1>13. OneWay(T)
  BY <1>2, <1>3, <1>4, <1>6 DEF Sound, Nearly, OneWay
<1>14. Sound(T, 0)
  BY <1>2, <1>7, <1>8, <1>9, <1>10, <1>11, <1>12, <1>13 DEF Sound, Nearly
<1> QED BY <1>1, <1>2, <1>14 DEF Leads

\* What may be sent, or failed, now that a handshake is over; and what is kept
\* while it is.
Released(S, held) ==
  /\ held \in Seq(RequestIds)
  /\ \A n \in 1..Len(held) :
       /\ S.request[held[n]].work # "none" /\ held[n] \notin S.begun
       /\ world.steady => ~Modern /\ S.request[held[n]].work = "call"
Resuming(S) == {U \in Client : Sound(U, 0) /\ Leads(S, U)}

LEMMA ResumedOne ==
  ASSUME NEW S, Sound(S, 0), NEW held, Released(S, held), NEW n \in 1..Len(held),
         NEW U \in Resuming(S), NEW ok \in BOOLEAN, NEW luck \in Lucks,
         NEW V, V = IF ok THEN sendRequestInternal(U, held[n], luck)
                    ELSE EndedWith(U, held[n], "failed")
  PROVE  V \in Resuming(S)
<1>1. Sound(U, 0) /\ Nearly(U, 0) /\ Leads(S, U) /\ U \in Client
  BY DEF Resuming, Sound
<1>2. /\ held[n] \in RequestIds /\ S.request[held[n]].work # "none" /\ held[n] \notin S.begun
      /\ world.steady => ~Modern /\ S.request[held[n]].work = "call"
  BY ElementOfSeq DEF Released
<1>3. /\ U.request[held[n]].work = S.request[held[n]].work /\ held[n] \notin U.begun
  BY <1>1, <1>2 DEF Leads
<1>4. Sound(V, 0) /\ Leads(U, V)
  <2>1. CASE ok
    <3>1. Clear(U, held[n])
      BY <1>2, <1>3 DEF Clear
    <3>2. V = sendRequestInternal(U, held[n], luck)
      BY <2>1
    <3> QED BY <1>1, <1>2, <3>1, <3>2, SendIs
  <2>2. CASE ~ok
    <3>1. V = EndedWith(U, held[n], "failed") /\ "failed" \in Hows
      BY <2>2 DEF Hows, Answers
    <3>2. Calm(U, V, 0)
      BY <1>1, <1>2, <1>3, <3>1, EndedCalm
    <3>3. Leads(U, V)
      BY <3>2 DEF Calm
    <3> QED BY <1>1, <3>2, <3>3, CalmSound
  <2> QED BY <2>1, <2>2
<1>5. Leads(S, V) /\ V \in Client
  BY <1>1, <1>4, LeadsOn DEF Sound, Nearly
<1> QED BY <1>4, <1>5 DEF Resuming

LEMMA ResumeHeldIs ==
  ASSUME NEW S, Sound(S, 0), NEW held, Released(S, held), NEW ok \in BOOLEAN,
         NEW luck \in Lucks, NEW T, T = ResumeHeld(S, held, ok, luck)
  PROVE  Sound(T, 0) /\ Leads(S, T)
<1> DEFINE one(t, i) == IF ok THEN sendRequestInternal(t, i, luck) ELSE EndedWith(t, i, "failed")
           resumed[n \in 0..Len(held)] == IF n = 0 THEN S ELSE one(resumed[n - 1], held[n])
           N == Len(held)
           Good == Resuming(S)
           G == [n \in 0..N |-> Good]
           g == [p \in (1..N) \X Client |-> one(p[2], held[p[1]])]
<1>1. T = resumed[N]
  BY DEF ResumeHeld
<1>2. N \in Nat /\ S \in Client
  BY DEF Sound, Nearly, Released
<1>3. S \in Good /\ Good \subseteq Client
  <2>1. Leads(S, S)
    BY <1>2 DEF Leads
  <2> QED BY <1>2, <2>1 DEF Resuming
<1>4. \A n \in 1..N : \A U \in Good : one(U, held[n]) \in Good
  BY ResumedOne
<1> HIDE DEF Good, one, N
<1>5. \A n \in 1..N : \A U \in G[n - 1] : g[<<n, U>>] \in G[n]
  <2>1. \A k \in 0..N : G[k] = Good
    OBVIOUS
  <2>2. \A n \in 1..N : n \in 0..N /\ n - 1 \in 0..N
    BY <1>2
  <2> SUFFICES ASSUME NEW n \in 1..N, NEW U \in Good PROVE g[<<n, U>>] \in Good
    <3> HIDE DEF G, g
    <3> QED BY <2>1, <2>2
  <2>3. g[<<n, U>>] = one(U, held[n])
    BY <1>3
  <2> HIDE DEF g
  <2> QED BY <1>4, <2>3
<1>6. PICK f \in [0..N -> Client] :
        /\ f[0] = S /\ \A n \in 1..N : f[n] = g[<<n, f[n - 1]>>]
        /\ \A n \in 0..N : f[n] \in G[n]
  <2>1. \A n \in 0..N : G[n] \subseteq Client
    BY <1>3
  <2>2. S \in G[0]
    BY <1>2, <1>3
  <2> HIDE DEF G, g
  <2>3. GoodSteps(N, Client, G, g, S)
    BY <1>2, <1>5, <2>1, <2>2 DEF GoodSteps
  <2> QED BY <2>3, StepByStep
<1>7. \A n \in 0..N : n # 0 => n \in 1..N /\ f[n] = one(f[n - 1], held[n])
  <2> SUFFICES ASSUME NEW n \in 0..N, n # 0
               PROVE  n \in 1..N /\ f[n] = one(f[n - 1], held[n])
    OBVIOUS
  <2>1. n \in 1..N /\ n - 1 \in 0..N
    BY <1>2
  <2>2. f[n - 1] \in Client /\ f[n] = g[<<n, f[n - 1]>>]
    BY <1>6, <2>1
  <2> QED BY <2>1, <2>2
<1>8. f = [n \in 0..N |-> IF n = 0 THEN S ELSE one(f[n - 1], held[n])]
  <2> HIDE DEF G, g
  <2> QED BY <1>2, <1>6, <1>7
<1>9. resumed = [n \in 0..N |-> IF n = 0 THEN S ELSE one(resumed[n - 1], held[n])]
  BY <1>8 DEF N
<1>10. /\ resumed[0] \in G[0]
       /\ \A n \in 1..N : resumed[n - 1] \in G[n - 1] => resumed[n] \in G[n]
  <2> HIDE DEF resumed
  <2>1. resumed[0] = S
    BY <1>2, <1>9
  <2>2. \A n \in 1..N : resumed[n] = one(resumed[n - 1], held[n])
    BY <1>2, <1>9
  <2> QED BY <1>2, <1>3, <1>4, <2>1, <2>2
<1>11. \A n \in 0..N : resumed[n] \in G[n]
  <2> HIDE DEF G, resumed
  <2> QED BY <1>2, <1>10, StaysGood
<1>12. resumed[N] \in Good
  <2> HIDE DEF resumed
  <2> QED BY <1>2, <1>11
<1> QED BY <1>1, <1>12 DEF Good, Resuming

\* What is known of work that is being carried on with.
Carrying(S, i) ==
  /\ S.request[i].work # "none" /\ i \notin S.begun
  /\ S.request[i].work \in {"poll", "list"} =>
       /\ S.request[i].after \in RequestIds /\ S.request[i].after \notin S.begun
       /\ S.request[S.request[i].after].work = "call"
  /\ S.request[i].work = "list" /\ world.steady =>
       ~S.request[S.request[i].after].task \/ S.request[S.request[i].after].settled

LEMMA CarryingIs ==
  ASSUME NEW S, NEW x, Nearly(S, x), NEW i \in RequestIds, live(S, i), i \notin S.begun
  PROVE  Carrying(S, i)
<1>1. S.request[i].work # "none" /\ Called(S) /\ Tied(S, x) /\ OneWay(S) /\ S \in Client
  BY DEF live, Nearly
<1>2. ASSUME S.request[i].work \in {"poll", "list"}
      PROVE  /\ S.request[i].after \in RequestIds /\ S.request[i].after \notin S.begun
             /\ S.request[S.request[i].after].work = "call"
  <2>1. S.request[i].after \in RequestIds /\ S.request[i].after # 0
    BY <1>1, <1>2, Constants DEF Called
  <2> QED BY <1>1, <2>1 DEF Called, Tied, Unnamed
<1>3. ASSUME S.request[i].work = "list", world.steady
      PROVE  ~S.request[S.request[i].after].task \/ S.request[S.request[i].after].settled
  <2>1. PICK a : a = S.request[i].after
    OBVIOUS
  <2>2. a \in RequestIds /\ S.request[a].work = "call" /\ Awaited(S, a)
    BY <1>2, <1>3, <2>1 DEF Awaited
  <2>3. ~S.request[a].task \/ S.request[a].settled
    BY <1>1, <1>3, <2>2 DEF OneWay, Called, live
  <2> QED BY <2>1, <2>3
<1> QED BY <1>1, <1>2, <1>3 DEF Carrying

LEMMA CarryingOn ==
  ASSUME NEW S, NEW T, Leads(S, T), NEW i \in RequestIds, Carrying(S, i)
  PROVE  Carrying(T, i)
<1>1. /\ \A k \in RequestIds :
           /\ T.request[k].work = S.request[k].work
           /\ T.request[k].after = S.request[k].after
           /\ S.request[k].settled => T.request[k].settled
           /\ ~T.request[k].settled => T.request[k].task = S.request[k].task
      /\ T.begun = S.begun
  BY DEF Leads
<1>2. S.request[i].work \in {"poll", "list"} => S.request[i].after \in RequestIds
  BY DEF Carrying
<1> QED BY <1>1, <1>2 DEF Carrying

\* The task of i is asked about again, or i has ended with it.
LEMMA PolledIs ==
  ASSUME NEW S, NEW i \in RequestIds, Sound(S, i), S.request[i].settled, S.request[i].told,
         S.request[i].work = "poll", Carrying(S, i), NEW a, a = S.request[i].after,
         ~S.request[a].settled, NEW T,
         \/ T = [S EXCEPT !.polling = @ \cup {a}]
         \/ \E how \in Hows : T = EndedWith(S, a, how)
  PROVE  Sound(T, 0) /\ Leads(S, T)
<1>1. /\ S \in Client /\ Nearly(S, i) /\ a \in RequestIds /\ a \notin S.begun
      /\ S.request[a].work = "call" /\ a # i
  BY DEF Sound, Nearly, Carrying
<1>2. Calm(S, T, i) /\ (a \in T.polling \/ T.request[a].settled)
  <2>1. ASSUME NEW how \in Hows, T = EndedWith(S, a, how)
        PROVE  Calm(S, T, i) /\ T.request[a].settled
    BY <1>1, <2>1, EndedCalm
  <2>2. CASE T = [S EXCEPT !.polling = @ \cup {a}]
    <3>1. PICK polling : polling = S.polling \cup {a}
      OBVIOUS
    <3>2. T = [S EXCEPT !.polling = polling] /\ polling \subseteq RequestIds
      BY <1>1, <2>2, <3>1, ClientIs
    <3>3. /\ T \in Client /\ T.request = S.request /\ T.tracked = S.tracked
          /\ T.answer = S.answer /\ T.age = S.age /\ T.clock = S.clock /\ T.queue = S.queue
          /\ T.waiting = S.waiting /\ T.polling = polling /\ T.net = S.net
          /\ T.wire = S.wire /\ T.own = S.own /\ T.held = S.held
          /\ T.reinitializing = S.reinitializing /\ T.begun = S.begun
      BY ONLY <1>1, <3>2 DEF Client
    <3>4. Alike(S, T)
      BY <1>1, <3>3 DEF Alike
    <3>5. Posts(T) = Posts(S) /\ (SendsOnce(S) => SendsOnce(T))
      BY <3>3 DEF Posts, SendsOnce
    <3>6. Calm(S, T, i)
      BY <1>1, <3>1, <3>3, <3>4, <3>5, AlikeCalm
    <3> QED BY <3>1, <3>3, <3>6
  <2> QED BY <2>1, <2>2
<1>3. Sound(T, i) /\ Leads(S, T)
  <2>1. Leads(S, T)
    BY <1>2 DEF Calm
  <2> QED BY <1>1, <1>2, <2>1, CalmSound
<1>4. /\ T.request[i].settled /\ T.request[i].told /\ T.request[i].work = "poll"
      /\ T.request[i].after = a
  BY <1>3 DEF Leads
<1>5. Sound(T, 0)
  BY <1>2, <1>3, <1>4, Through DEF live
<1> QED BY <1>3, <1>5

\* The tools are listed: the call they are listed for is sent again.
LEMMA ListedIs ==
  ASSUME NEW S, Sound(S, 0), NEW a \in RequestIds, calling(S, a), a \notin S.begun,
         Free(S) # {}, world.steady => ~S.request[a].task, NEW luck \in Lucks,
         NEW T, T = sendRequestInternal(CarryOver(S, a), Fresh(S), luck)
  PROVE  Sound(T, 0) /\ Follows(S, T) /\ T.begun = S.begun
<1>1. PICK j : j = Fresh(S)
  OBVIOUS
<1>2. PICK U : U = CarryOver(S, a)
  OBVIOUS
<1>3. a \in S.tracked
  BY Constants DEF Sound, Nearly, Tied, calling
<1>4. /\ Sound(U, 0) /\ j \in RequestIds /\ Clear(U, j)
      /\ U.wire = S.wire /\ U.answer = S.answer /\ U.begun = S.begun
  BY <1>1, <1>2, <1>3, CarryOverSound
<1>5. /\ Sound(T, 0) /\ Leads(U, T)
      /\ \A k \in T.wire \ U.wire : ~T.request[k].settled
  <2>1. T = sendRequestInternal(U, j, luck) /\ Nearly(U, 0)
    BY <1>1, <1>2, <1>4 DEF Sound
  <2> QED BY <1>4, <2>1, SendIs
<1>6. Follows(S, T)
  BY <1>4, <1>5, FollowsNew
<1> QED BY <1>4, <1>5, <1>6 DEF Leads

\* on_response: nothing is left undone for what has ended.
LEMMA ContinueIs ==
  ASSUME NEW S, NEW i \in RequestIds, Sound(S, i), S.request[i].settled, Carrying(S, i),
         S.request[i].work = "list" => Free(S) # {},
         NEW ok \in BOOLEAN, NEW more \in BOOLEAN, NEW luck \in Lucks,
         NEW T, T = Continue(S, i, ok, more, luck)
  PROVE  Sound(T, 0) /\ Follows(S, T) /\ T.begun = S.begun
<1>1. S \in Client /\ Nearly(S, i) /\ S.request[i] \in Context
  BY ClientIs DEF Sound, Nearly
<1>2. PICK U : U = Told(S, i)
  OBVIOUS
<1>3. /\ Calm(S, U, i)
      /\ U.request[i].told /\ U.request[i].settled = S.request[i].settled
      /\ \A k \in RequestIds : k # i => U.request[k] = S.request[k]
      /\ U.queue = S.queue /\ U.wire = S.wire /\ U.own = S.own /\ U.waiting = S.waiting
      /\ U.polling = S.polling /\ U.session = S.session
      /\ \A k \in RequestIds : live(U, k) <=> live(S, k)
  <2>1. Calm(S, U, i) /\ U.request[i].told
    BY <1>1, <1>2, ToldCalm
  <2>2. U.request[i].settled = S.request[i].settled
    BY ZenonT(30), <1>1, <1>2, ToldCalm
  <2>3. /\ \A k \in RequestIds : k # i => U.request[k] = S.request[k]
        /\ U.queue = S.queue /\ U.wire = S.wire /\ U.own = S.own /\ U.waiting = S.waiting
        /\ U.polling = S.polling /\ U.session = S.session
    BY <1>1, <1>2, ToldCalm
  <2>4. \A k \in RequestIds : live(U, k) <=> live(S, k)
    BY <1>1, <1>2, ToldCalm
  <2> QED BY <2>1, <2>2, <2>3, <2>4
<1>4. /\ Leads(S, U) /\ U.begun = S.begun /\ U.clock = S.clock /\ U.held = S.held
      /\ U.request[i].work = S.request[i].work /\ U.request[i].after = S.request[i].after
      /\ U.tracked = S.tracked /\ U \in Client
  <2>1. /\ Leads(S, U) /\ U.clock = S.clock /\ U.held = S.held
    BY <1>3 DEF Calm
  <2>2. U.tracked = S.tracked
    BY <1>1, <1>2 DEF Client, Told
  <2> QED BY <2>1, <2>2 DEF Leads
<1>5. Sound(U, i) /\ Carrying(U, i)
  BY <1>1, <1>3, <1>4, CalmSound, CarryingOn
<1>6. ASSUME Sound(T, 0), Leads(U, T)
      PROVE  Sound(T, 0) /\ Follows(S, T) /\ T.begun = S.begun
  <2>1. Leads(S, T)
    BY <1>4, <1>6, LeadsOn
  <2> QED BY <1>6, <2>1, LeadsFollows DEF Leads
<1>7. Leads(U, U)
  BY <1>4 DEF Leads
<1> DEFINE a == S.request[i].after
           over == a = 0 \/ S.request[a].settled
<1>8. S.request[i].work \in {"call", "initialize", "poll", "list", "cancel"}
  <2>1. S.request[i].work \in Works /\ S.request[i].work # "none"
    BY <1>1, ContextIs DEF Carrying
  <2> QED BY <2>1 DEF Works
<1>9. CASE S.request[i].work \in {"call", "cancel"}
  <2>1. T = U
    BY <1>2, <1>9 DEF Continue, Told
  <2>2. Sound(U, 0)
    BY <1>3, <1>4, <1>5, <1>9, Through
  <2> QED BY <1>6, <1>7, <2>1, <2>2
<1>10. CASE S.request[i].work \in {"poll", "list"} /\ over
  <2>1. T = U
    BY <1>2, <1>10 DEF Continue, Told
  <2>2. a \in RequestIds /\ a # 0 /\ ~live(S, a)
    BY <1>10, Constants DEF Carrying, live
  <2>3. Sound(U, 0)
    BY <1>3, <1>4, <1>5, <1>10, <2>2, Through
  <2> QED BY <1>6, <1>7, <2>1, <2>3
<1>11. CASE S.request[i].work = "poll" /\ ~over
  <2>1. \/ T = [U EXCEPT !.polling = @ \cup {a}]
        \/ \E how \in Hows : T = EndedWith(U, a, how)
    <3>1. T = IF ok /\ more THEN [U EXCEPT !.polling = @ \cup {a}]
              ELSE EndedWith(U, a, IF ok THEN "answered" ELSE "failed")
      BY <1>2, <1>11 DEF Continue, Told
    <3>2. "answered" \in Hows /\ "failed" \in Hows
      BY DEF Hows, Answers
    <3> QED BY <3>1, <3>2
  <2>2. ~U.request[a].settled /\ a = U.request[i].after
    <3>1. a \in RequestIds /\ a # i
      BY <1>11 DEF Carrying
    <3> QED BY <1>3, <1>4, <1>11, <3>1
  <2>3. U.request[i].work = "poll" /\ U.request[i].settled
    BY <1>3, <1>4, <1>11
  <2> HIDE DEF a
  <2>4. Sound(T, 0) /\ Leads(U, T)
    BY <1>3, <1>5, <2>1, <2>2, <2>3, PolledIs
  <2> QED BY <1>6, <2>4
<1>12. CASE S.request[i].work = "list" /\ ~over
  <2>1. T = sendRequestInternal(CarryOver(U, a), Fresh(U), luck)
    BY <1>2, <1>12 DEF Continue, Told
  <2>2. a \in RequestIds /\ a # i /\ calling(U, a) /\ a \notin U.begun
    BY <1>3, <1>4, <1>12 DEF Carrying, calling, live
  <2>3. Sound(U, 0)
    BY <1>3, <1>4, <1>5, <1>12, Through
  <2>4. Free(U) = Free(S)
    <3>1. \A k \in RequestIds : /\ U.request[k].work = S.request[k].work
                                /\ U.request[k].after = S.request[k].after
                                /\ U.request[k].settled = S.request[k].settled
      BY <1>3, <1>4
    <3> QED BY <1>3, <1>4, <3>1 DEF Free
  <2>5. Free(U) # {} /\ (world.steady => ~U.request[a].task)
    BY <1>3, <1>12, <2>2, <2>4 DEF Carrying
  <2> HIDE DEF a
  <2>6. Sound(T, 0) /\ Follows(U, T) /\ T.begun = U.begun
    BY <2>1, <2>2, <2>3, <2>5, ListedIs
  <2>7. T \in Client
    BY <2>6 DEF Sound, Nearly
  <2> QED BY <1>4, <2>6, <2>7, FollowsOn
<1>13. CASE S.request[i].work = "initialize"
  <2>1. PICK V : V = [U EXCEPT !.reinitializing = FALSE, !.held = <<>>,
                               !.session = U.session \/ ok]
    OBVIOUS
  <2>2. T = ResumeHeld(V, S.held, ok, luck)
    <3>1. V = [U EXCEPT !.reinitializing = FALSE, !.held = <<>>, !.session = @ \/ ok]
      BY <1>4, <2>1 DEF Client
    <3> QED BY <1>2, <1>13, <3>1 DEF Continue, Told
  <2>3. U.session \/ ok \in BOOLEAN
    BY <1>4, ClientIs
  <2>4. Sound(V, 0) /\ Leads(U, V)
    BY <1>3, <1>4, <1>5, <1>13, <2>1, <2>3, ShakenDone
  <2>5. Released(V, S.held)
    <3>1. S.held \in Seq(RequestIds)
      BY <1>1, ClientIs
    <3>2. ASSUME NEW n \in 1..Len(S.held)
          PROVE  /\ V.request[S.held[n]].work # "none" /\ S.held[n] \notin V.begun
                 /\ world.steady => ~Modern /\ V.request[S.held[n]].work = "call"
      <4>1. PICK h : h = S.held[n]
        OBVIOUS
      <4>2. h \in Holds(S) /\ h \in RequestIds /\ S.held # <<>>
        <5>1. h \in Holds(S)
          BY <4>1 DEF Holds
        <5>2. h \in RequestIds
          BY <1>1, <5>1, ClientIs
        <5>3. S.held # <<>>
          BY <3>2
        <5> QED BY <5>1, <5>2, <5>3
      <4>3. /\ S.request[h].work # "none" /\ h \notin S.begun
            /\ world.steady => ~Modern /\ S.request[h].work = "call"
        BY <1>1, <4>2 DEF Nearly, Tied, Unnamed, Shaken, OneWay
      <4>4. V.request[h].work = S.request[h].work /\ V.begun = S.begun
        BY <1>4, <2>4, <4>2 DEF Leads
      <4> QED BY <4>1, <4>3, <4>4
    <3> QED BY <3>1, <3>2 DEF Released
  <2>6. Sound(T, 0) /\ Leads(V, T)
    BY <2>2, <2>4, <2>5, ResumeHeldIs
  <2>7. Leads(U, T)
    BY <2>4, <2>6, LeadsOn
  <2> QED BY <1>6, <2>6, <2>7
<1> QED BY <1>8, <1>9, <1>10, <1>11, <1>12, <1>13

\* What ends takes no id that is free.
LEMMA FreeStays ==
  ASSUME NEW S, NEW x, Nearly(S, x), NEW i \in RequestIds, live(S, i), NEW how \in Hows,
         NEW T, T = EndedWith(S, i, how)
  PROVE  Free(S) \subseteq Free(T)
<1> SUFFICES ASSUME NEW j \in Free(S) PROVE j \in Free(T)
  OBVIOUS
<1>1. S \in Client /\ S.request[i] \in Context /\ Called(S)
  BY ClientIs DEF Nearly
<1>2. /\ T \in Client /\ T.tracked = S.tracked \ {i}
      /\ T.waiting = S.waiting \ {i} /\ T.polling = S.polling \ {i}
      /\ T.clock = S.clock /\ T.wire = S.wire /\ T.own = S.own /\ T.held = S.held
      /\ \A k \in RequestIds : k # i => T.request[k] = S.request[k]
      /\ T.request[i] = IF S.request[i].settled THEN S.request[i] ELSE Over(S.request[i])
      /\ Posts(T) \subseteq Posts(S) \cup {[do |-> "stop", of |-> S.request[i].origin],
                                           [do |-> "close", of |-> i]}
  BY <1>1, EndedIs
<1>3. /\ j \in RequestIds \ Calls
      /\ S.request[j].work = "none" \/ S.request[j].settled
      /\ j \notin S.tracked \cup S.wire \cup S.own \cup S.waiting \cup S.polling
      /\ S.clock[j] = Off
      /\ \A p \in Posts(S) : p.of # j
      /\ j \notin Holds(S)
      /\ \A k \in RequestIds : S.request[k].after = j => S.request[k].settled
  BY <1>1, FreeIs
<1>4. j # i /\ j # S.request[i].origin
  BY <1>1, <1>3 DEF live, Called
<1>5. \A p \in Posts(T) : p.of # j
  BY <1>2, <1>3, <1>4
<1>6. Holds(T) = Holds(S)
  BY <1>2 DEF Holds
<1>7. /\ T.request[i].settled
      /\ \A k \in RequestIds : k # i => T.request[k] = S.request[k]
  BY <1>1, <1>2, OverIs
<1> QED BY <1>2, <1>3, <1>4, <1>5, <1>6, <1>7, FreeIs

\* A request ends, and whoever carries on after it is told.
LEMMA EndContinueIs ==
  ASSUME NEW S, NEW i \in RequestIds, Sound(S, i), live(S, i), i \notin S.begun,
         S.request[i].work = "list" => Free(S) # {}, NEW how \in Hows,
         NEW ok \in BOOLEAN, NEW more \in BOOLEAN, NEW luck \in Lucks,
         NEW T, T = Continue(EndedWith(S, i, how), i, ok, more, luck)
  PROVE  Sound(T, 0) /\ Follows(S, T) /\ T.begun = S.begun
<1>1. PICK U : U = EndedWith(S, i, how)
  OBVIOUS
<1>2. Nearly(S, i) /\ S.request[i].work # "none"
  BY DEF Sound, live
<1>3. Calm(S, U, i) /\ U.request[i].settled
  BY <1>1, <1>2, EndedCalm
<1>4. Leads(S, U)
  BY <1>3 DEF Calm
<1>5. Sound(U, i)
  BY <1>2, <1>3, CalmSound
<1>6. Carrying(U, i)
  BY <1>2, <1>4, CarryingIs, CarryingOn
<1>7. U.request[i].work = "list" => Free(U) # {}
  <2>1. Free(S) \subseteq Free(U)
    BY <1>1, <1>2, FreeStays
  <2> QED BY <1>4, <2>1 DEF Leads
<1>8. Sound(T, 0) /\ Follows(U, T) /\ T.begun = U.begun
  BY <1>1, <1>3, <1>5, <1>6, <1>7, ContinueIs
<1>9. T \in Client
  BY <1>8 DEF Sound, Nearly
<1> QED BY <1>4, <1>8, <1>9, FollowsOn DEF Leads

LEMMA CompleteIs ==
  ASSUME NEW S, Sound(S, 0), NEW i \in RequestIds, live(S, i), i \notin S.begun,
         S.request[i].work = "list" => Free(S) # {}, NEW how \in Hows,
         NEW more \in BOOLEAN, NEW luck \in Lucks, NEW T, T = Complete(S, i, how, more, luck)
  PROVE  Sound(T, 0) /\ Follows(S, T) /\ T.begun = S.begun
<1>1. Sound(S, i)
  BY Singled
<1>2. PICK ok \in BOOLEAN : ok <=> how = "answered"
  OBVIOUS
<1>3. T = Continue(EndedWith(S, i, how), i, ok, more, luck)
  BY <1>2 DEF Complete
<1> QED BY <1>1, <1>3, EndContinueIs

LEMMA FollowsEnd ==
  ASSUME NEW S, NEW U, NEW T, Follows(S, U), NEW i, ~S.request[i].settled, T.wire = U.wire,
         \A c \in Calls : U.answer[c] \in Hows => T.answer[c] = U.answer[c],
         \A k \in T.wire : k # i => T.request[k] = U.request[k]
  PROVE  Follows(S, T)
BY DEF Follows

\* abandonRequest, of a task: its cancellation is sent before it ends.
LEMMA TaskAbandonedIs ==
  ASSUME NEW S, NEW i \in RequestIds, Sound(S, i), live(S, i), i \notin S.begun,
         Free(S) # {}, S.request[i].task, NEW how \in Hows, NEW luck \in Lucks,
         NEW work, work = "cancel", NEW timed \in BOOLEAN,
         NEW U, U = SendInternal(S, work, 0, timed, luck),
         NEW ok \in BOOLEAN, NEW more \in BOOLEAN,
         NEW T, T = Continue(EndedWith(U, i, how), i, ok, more, luck)
  PROVE  Sound(T, 0) /\ Follows(S, T) /\ T.begun = S.begun
<1>1. Nearly(S, i) /\ S.request[i].work = "call" /\ ~S.request[i].settled /\ S \in Client
  BY DEF Sound, Nearly, Called, live
<1>2. Askable(S, i, work, 0)
  BY DEF Askable
<1>3. /\ Sound(U, i) /\ Follows(S, U) /\ U.begun = S.begun
      /\ U.request[i].work = "call" /\ U \in Client
  <2>1. Nearly(U, i) /\ Sound(U, i) /\ Follows(S, U) /\ U.begun = S.begun
    BY <1>1, <1>2, AskedSent
  <2>2. PICK j \in Free(S) : Leads(Asked(S, work, j, 0), U)
    BY <1>1, <1>2, AskedSent
  <2>3. PICK A : A = Asked(S, work, j, 0)
    OBVIOUS
  <2>4. j \in RequestIds /\ j # i /\ work \in Works
    BY <1>1, FreeIs DEF Works
  <2>5. A.request[i] = S.request[i]
    BY <1>1, <2>3, <2>4, AskedIs
  <2>6. U.request[i].work = A.request[i].work /\ U \in Client
    BY <2>2, <2>3 DEF Leads
  <2> QED BY <1>1, <2>1, <2>5, <2>6
<1>4. Nearly(U, i) /\ U.request[i].work # "none" /\ i \notin U.begun
  BY <1>3 DEF Sound
<1>5. PICK V : V = EndedWith(U, i, how)
  OBVIOUS
<1>6. Calm(U, V, i) /\ V.request[i].settled
  BY <1>3, <1>4, <1>5, EndedCalm
<1>7. Leads(U, V)
  BY <1>6 DEF Calm
<1>8. Sound(V, i) /\ V.request[i].work = "call" /\ V.begun = U.begun
  <2>1. Sound(V, i)
    BY <1>3, <1>4, <1>6, CalmSound
  <2> QED BY <1>3, <1>7, <2>1 DEF Leads
<1>9. Carrying(V, i)
  BY <1>3, <1>8 DEF Carrying
<1>10. Sound(T, 0) /\ T.begun = V.begun
  BY <1>5, <1>6, <1>8, <1>9, ContinueIs
<1>11. /\ V.wire = U.wire
       /\ \A k \in RequestIds : k # i => V.request[k] = U.request[k]
  BY <1>3, <1>5, EndedIs
<1>12. /\ T.wire = V.wire /\ T.answer = V.answer
       /\ \A k \in RequestIds : k # i => T.request[k] = V.request[k]
  <2>1. T = Told(V, i)
    BY <1>5, <1>8 DEF Continue, Told
  <2>2. Nearly(V, i)
    BY <1>8 DEF Sound
  <2> QED BY <2>1, <2>2, ToldCalm
<1>13. T.wire \subseteq RequestIds
  BY <1>10, ClientIs DEF Sound, Nearly
<1>14. Follows(S, T)
  <2>1. \A c \in Calls : U.answer[c] \in Hows => T.answer[c] = U.answer[c]
    BY <1>7, <1>12 DEF Leads
  <2>2. T.wire = U.wire /\ \A k \in T.wire : k # i => T.request[k] = U.request[k]
    BY <1>11, <1>12, <1>13
  <2> QED BY <1>1, <1>3, <2>1, <2>2, FollowsEnd
<1> QED BY <1>3, <1>8, <1>10, <1>14

\* abandonRequest.
LEMMA AbandonedIs ==
  ASSUME NEW S, NEW i \in RequestIds, Sound(S, i), live(S, i), i \notin S.begun,
         Free(S) # {}, NEW how \in Hows, Abandon(S, i, how)
  PROVE  Sound(client', 0) /\ Follows(S, client') /\ client'.begun = S.begun
<1>1. Nearly(S, i) /\ S \in Client /\ ~S.request[i].settled
  BY DEF Sound, Nearly, live
<1>2. PICK luck, t :
        /\ luck \in Lucks /\ t = Untracked(S, i)
        /\ \E u \in {IF S.request[i].task THEN SendInternal(t, "cancel", 0, TRUE, luck) ELSE t} :
             \E v \in {EndedWith(u, i, how)} : client' = Continue(v, i, FALSE, FALSE, luck)
  <2>1. \E luck \in Lucks, t \in {Untracked(S, i)} :
          \E u \in {IF S.request[i].task THEN SendInternal(t, "cancel", 0, TRUE, luck) ELSE t} :
            \E v \in {EndedWith(u, i, how)} : client' = Continue(v, i, FALSE, FALSE, luck)
    BY <1>1, Zenon DEF Abandon
  <2> QED BY <2>1, Zenon
<1>3. PICK T, work, timed, ok, more :
        /\ T = client' /\ work = "cancel" /\ timed = TRUE /\ ok = FALSE /\ more = FALSE
  BY Zenon
<1>4. \E u : /\ u = IF S.request[i].task THEN SendInternal(t, work, 0, timed, luck) ELSE t
             /\ T = Continue(EndedWith(u, i, how), i, ok, more, luck)
  BY <1>2, <1>3, Zenon
<1>5. timed \in BOOLEAN /\ ok \in BOOLEAN /\ more \in BOOLEAN /\ work = "cancel"
  BY <1>3, Zenon
<1>6. t = Untracked(S, i) /\ T = client' /\ luck \in Lucks
  BY <1>2, <1>3, Zenon
<1>7. SUFFICES Sound(T, 0) /\ Follows(S, T) /\ T.begun = S.begun
  BY <1>6, Zenon
<1>8. QED
  <2>1. Calm(S, t, i) /\ t.request = S.request /\ t.begun = S.begun
    BY ONLY <1>1, <1>6, UntrackedCalm, UntrackedIs, i \in RequestIds
  <2>2. Leads(S, t)
    BY ONLY <2>1 DEF Calm
  <2>3. Sound(t, i)
    BY ONLY <1>1, <2>1, Sound(S, i), CalmSound
  <2>4. live(t, i) /\ i \notin t.begun
    BY ONLY <2>1, live(S, i), i \notin S.begun DEF live
  <2>5. Free(t) # {}
    <3>1. /\ t.request = S.request /\ t.tracked = S.tracked \ {i} /\ t.clock = S.clock
          /\ t.queue = S.queue /\ t.waiting = S.waiting \ {i}
          /\ t.polling = S.polling \ {i} /\ t.wire = S.wire /\ t.own = S.own
          /\ t.held = S.held
      BY ONLY <1>1, <1>6, UntrackedIs, i \in RequestIds
    <3> QED BY ONLY <3>1, Free(S) # {} DEF Free
  <2>6. Sound(T, 0) /\ Follows(t, T) /\ T.begun = t.begun
    <3>1. CASE S.request[i].task
      <4>1. t.request[i].task
        BY ONLY <2>1, <3>1
      <4>2. PICK u : /\ u = SendInternal(t, work, 0, timed, luck)
                     /\ T = Continue(EndedWith(u, i, how), i, ok, more, luck)
        BY ONLY <1>4, <3>1
      <4> QED BY ONLY <1>5, <1>6, <2>3, <2>4, <2>5, <4>1, <4>2, TaskAbandonedIs,
                      i \in RequestIds, how \in Hows
    <3>2. CASE ~S.request[i].task
      <4>1. T = Continue(EndedWith(t, i, how), i, ok, more, luck)
        BY ONLY <1>4, <3>2
      <4> QED BY ONLY <1>5, <1>6, <2>3, <2>4, <2>5, <4>1, EndContinueIs,
                      i \in RequestIds, how \in Hows
    <3> QED BY ONLY <3>1, <3>2
  <2>7. T \in Client
    BY ONLY <2>6 DEF Sound, Nearly
  <2> QED BY ONLY <2>1, <2>2, <2>6, <2>7, FollowsOn

\* A request refused for its session is held, and a handshake asked for.
HeldFor(S, i) ==
  [S EXCEPT !.request[i].session_retried = TRUE, !.session = FALSE, !.held = Append(@, i),
            !.reinitializing = TRUE]

LEMMA HeldForIs ==
  ASSUME NEW S \in Client, NEW i \in RequestIds, NEW T, T = HeldFor(S, i)
  PROVE  /\ T \in Client /\ T.request[i] \in Context
         /\ T.request[i].work = S.request[i].work /\ T.request[i].origin = S.request[i].origin
         /\ T.request[i].after = S.request[i].after
         /\ T.request[i].settled = S.request[i].settled
         /\ T.request[i].told = S.request[i].told /\ T.request[i].task = S.request[i].task
         /\ T.request[i].sent_apart = S.request[i].sent_apart /\ T.request[i].session_retried
         /\ \A k \in RequestIds : k # i => T.request[k] = S.request[k]
         /\ T.tracked = S.tracked /\ T.answer = S.answer /\ T.age = S.age /\ T.clock = S.clock
         /\ T.queue = S.queue /\ T.waiting = S.waiting /\ T.polling = S.polling
         /\ T.net = S.net /\ T.wire = S.wire /\ T.own = S.own /\ T.begun = S.begun
         /\ T.reinitializing /\ Holds(T) = Holds(S) \cup {i}
         /\ i \notin Holds(S) => \A m, n \in 1..Len(T.held) :
              (\A q, p \in 1..Len(S.held) : S.held[q] = S.held[p] => q = p)
                /\ T.held[m] = T.held[n] => m = n
<1>1. S.request[i] \in Context /\ S.request \in [RequestIds -> Context] /\ S.held \in Seq(RequestIds)
  BY ClientIs
<1>2. PICK r : r = [S.request[i] EXCEPT !.session_retried = TRUE]
  OBVIOUS
<1>3. /\ r \in Context /\ r.work = S.request[i].work /\ r.origin = S.request[i].origin
      /\ r.after = S.request[i].after /\ r.settled = S.request[i].settled
      /\ r.told = S.request[i].told /\ r.task = S.request[i].task
      /\ r.sent_apart = S.request[i].sent_apart /\ r.session_retried
  BY <1>1, <1>2 DEF Context
<1>4. PICK b, h : b = [S.request EXCEPT ![i] = r] /\ h = Append(S.held, i)
  OBVIOUS
<1>5. /\ b \in [RequestIds -> Context] /\ b[i] = r
      /\ \A k \in RequestIds : k # i => b[k] = S.request[k]
  BY <1>1, <1>3, <1>4
<1>6. /\ h \in Seq(RequestIds) /\ Len(h) = Len(S.held) + 1 /\ h[Len(S.held) + 1] = i
      /\ \A n \in 1..Len(S.held) : h[n] = S.held[n]
      /\ Len(S.held) \in Nat
  BY <1>1, <1>4
<1>7. T = [S EXCEPT !.request = b, !.session = FALSE, !.held = h, !.reinitializing = TRUE]
  BY <1>2, <1>4 DEF HeldFor, Client
<1>8. /\ T \in Client /\ T.request = b /\ T.held = h
      /\ T.tracked = S.tracked /\ T.answer = S.answer /\ T.age = S.age /\ T.clock = S.clock
      /\ T.queue = S.queue /\ T.waiting = S.waiting /\ T.polling = S.polling
      /\ T.net = S.net /\ T.wire = S.wire /\ T.own = S.own /\ T.begun = S.begun
      /\ T.reinitializing
  BY ONLY <1>5, <1>6, <1>7, S \in Client DEF Client
<1>9. \A n \in 1..Len(h) : n \in 1..Len(S.held) \/ n = Len(S.held) + 1
  BY <1>6
<1>10. Holds(T) = Holds(S) \cup {i}
  <2>1. \A n \in 1..Len(S.held) : n \in 1..Len(h)
    BY <1>6
  <2>2. Len(S.held) + 1 \in 1..Len(h)
    BY <1>6
  <2> QED BY <1>6, <1>8, <1>9, <2>1, <2>2 DEF Holds
<1>11. ASSUME i \notin Holds(S), NEW m \in 1..Len(h), NEW n \in 1..Len(h), h[m] = h[n],
              \A q, p \in 1..Len(S.held) : S.held[q] = S.held[p] => q = p
       PROVE  m = n
  BY <1>6, <1>9, <1>11 DEF Holds
<1> QED BY <1>3, <1>5, <1>8, <1>10, <1>11

LEMMA HeldForSound ==
  ASSUME NEW S, Sound(S, 0), NEW i \in RequestIds, live(S, i), i \notin S.begun,
         ~S.request[i].session_retried, ~Modern,
         world.steady => S.request[i].work = "call", NEW T, T = HeldFor(S, i)
  PROVE  /\ Nearly(T, 0) /\ (S.reinitializing => Sound(T, 0)) /\ Leads(S, T)
         /\ ~S.reinitializing => \A k \in RequestIds : ~shaking(T, k)
<1>1. S \in Client /\ i \notin Holds(S)
  BY DEF Sound, Nearly, Shaken
<1>2. /\ T \in Client /\ T.request[i] \in Context
      /\ T.request[i].work = S.request[i].work /\ T.request[i].origin = S.request[i].origin
      /\ T.request[i].after = S.request[i].after
      /\ T.request[i].settled = S.request[i].settled
      /\ T.request[i].told = S.request[i].told /\ T.request[i].task = S.request[i].task
      /\ T.request[i].sent_apart = S.request[i].sent_apart /\ T.request[i].session_retried
      /\ \A k \in RequestIds : k # i => T.request[k] = S.request[k]
      /\ T.tracked = S.tracked /\ T.answer = S.answer /\ T.age = S.age /\ T.clock = S.clock
      /\ T.queue = S.queue /\ T.waiting = S.waiting /\ T.polling = S.polling
      /\ T.net = S.net /\ T.wire = S.wire /\ T.own = S.own /\ T.begun = S.begun
      /\ T.reinitializing /\ Holds(T) = Holds(S) \cup {i}
  BY <1>1, HeldForIs
<1>3. \A k \in RequestIds :
        /\ T.request[k].work = S.request[k].work /\ T.request[k].origin = S.request[k].origin
        /\ T.request[k].after = S.request[k].after
        /\ T.request[k].settled = S.request[k].settled
        /\ T.request[k].told = S.request[k].told /\ T.request[k].task = S.request[k].task
        /\ T.request[k].sent_apart = S.request[k].sent_apart
        /\ S.request[k].session_retried => T.request[k].session_retried
  BY <1>2
<1>4. \A k, n \in RequestIds :
        /\ live(T, k) <=> live(S, k)
        /\ calling(T, k) <=> calling(S, k)
        /\ shaking(T, k) <=> shaking(S, k)
        /\ polls(T, k, n) <=> polls(S, k, n)
  BY <1>3 DEF live, calling, shaking, polls
<1>5. Posts(T) = Posts(S)
  BY <1>2 DEF Posts
<1>6. \A do \in {"start", "stop", "send", "close"}, k \in RequestIds :
        Does(T, do, k) <=> Does(S, do, k)
  BY <1>5 DEF Does
<1>7. Called(T)
  <2>1. \A k \in RequestIds : live(T, k) /\ T.request[k].after # 0 =>
          T.request[T.request[k].after].work = "call"
    <3>1. \A k \in RequestIds : S.request[k].after \in RequestIds \cup {0}
      BY <1>1, ClientIs, ContextIs
    <3> QED BY <1>3, <1>4, <3>1 DEF Sound, Nearly, Called
  <2>2. \A k \in T.polling : T.request[k].work = "call"
    <3>1. \A k \in T.polling : k \in RequestIds /\ k \in S.polling
      BY <1>1, <1>2, ClientIs
    <3> QED BY <1>3, <3>1 DEF Sound, Nearly, Called
  <2>3. \A c \in Calls : c \in RequestIds
    BY Constants
  <2> QED BY SMTT(30), <1>2, <1>3, <2>1, <2>2, <2>3 DEF Sound, Nearly, Called
<1>8. Promised(T)
  BY <1>2, <1>3, <1>4 DEF Sound, Nearly, Promised
<1>9. Tied(T, 0)
  <2>1. \A k \in T.tracked : live(T, k)
    BY <1>1, <1>2, <1>4, ClientIs DEF Sound, Nearly, Tied
  <2>2. \A k \in RequestIds : live(T, k) /\ k # 0 => k \in T.tracked \/ k \in T.begun
    BY <1>2, <1>4 DEF Sound, Nearly, Tied
  <2>3. ASSUME NEW c \in T.begun
        PROVE  /\ calling(T, c) /\ T.request[c].origin = c /\ ~T.request[c].task
               /\ Unnamed(T, c)
    <3>1. /\ c \in RequestIds /\ c \in S.begun /\ c # i
          /\ calling(S, c) /\ S.request[c].origin = c /\ ~S.request[c].task /\ Unnamed(S, c)
      BY <1>1, <1>2, <2>3, ClientIs, Constants DEF Sound, Nearly, Tied
    <3>2. Unnamed(T, c)
      BY <1>2, <1>3, <1>4, <1>6, <3>1 DEF Unnamed
    <3> QED BY <1>3, <1>4, <3>1, <3>2
  <2>4. T.begun # {} => world.threads
    BY <1>2 DEF Sound, Nearly, Tied
  <2>5. \A k \in T.wire \cup T.own \cup T.waiting \cup T.polling \cup Holds(T) :
          T.request[k].work # "none"
    BY <1>1, <1>2, <1>3, ClientIs DEF Sound, Nearly, Tied, live
  <2>6. \A p \in Posts(T) : T.request[p.of].work # "none"
    BY <1>1, <1>3, <1>5, ClientIs DEF Sound, Nearly, Tied
  <2> QED BY <2>1, <2>2, <2>3, <2>4, <2>5, <2>6 DEF Tied
<1>10. Timed(T, 0)
  <2>1. \A k \in RequestIds : S.request[k].origin \in RequestIds
    BY <1>1, ClientIs, ContextIs
  <2> QED BY <1>2, <1>3, <1>4, <1>6, <2>1 DEF Sound, Nearly, Timed
<1>11. Owned(T)
  BY <1>1, <1>2, <1>3, <1>4, <1>6, ClientIs DEF Sound, Nearly, Owned
<1>12. Shaken(T, 0)
  <2>1. \A k, n \in RequestIds : shaking(T, k) /\ shaking(T, n) => k = n
    BY <1>4 DEF Sound, Nearly, Shaken
  <2>2. \A m, n \in 1..Len(T.held) : T.held[m] = T.held[n] => m = n
    BY <1>1, HeldForIs DEF Sound, Nearly, Shaken
  <2>3. \A k \in Holds(T) : /\ live(T, k) => T.request[k].session_retried
                            /\ world.steady => T.request[k].work = "call"
    BY <1>1, <1>2, <1>3, <1>4, ClientIs DEF Sound, Nearly, Shaken
  <2> QED BY <1>2, <2>1, <2>2, <2>3 DEF Shaken
<1>13. S.reinitializing => ShakingGoesOn(T, 0)
  BY <1>4 DEF Sound, ShakingGoesOn
<1>14. Carried(T, 0)
  BY <1>2, <1>3, <1>4 DEF Sound, Nearly, Carried
<1>15. OneWay(T)
  BY DEF OneWay
<1>16. Leads(S, T)
  BY <1>1, <1>2, <1>3 DEF Leads
<1>17. Nearly(T, 0)
  BY <1>2, <1>7, <1>8, <1>9, <1>10, <1>11, <1>12, <1>14, <1>15 DEF Sound, Nearly
<1>18. ~S.reinitializing => \A k \in RequestIds : ~shaking(T, k)
  BY <1>4 DEF Sound, Nearly, Shaken
<1> QED BY <1>13, <1>16, <1>17, <1>18 DEF Sound

\* handleTransportStatus of a 404.
LEMMA NotFoundIs ==
  ASSUME NEW S, Sound(S, 0), NEW i \in RequestIds, live(S, i), i \notin S.begun,
         Free(S) # {}, ~Modern, world.steady => S.request[i].work = "call",
         NEW luck \in Lucks, NEW T, T = NotFound(S, i, luck)
  PROVE  Sound(T, 0) /\ Follows(S, T)
<1>1. S \in Client
  BY DEF Sound, Nearly
<1>2. CASE ~((S.session \/ S.reinitializing) /\ ~S.request[i].session_retried)
  <2>1. PICK more \in BOOLEAN : more = FALSE
    BY Zenon
  <2>2. T = Complete(S, i, "failed", more, luck)
    BY <1>2, <2>1, Zenon DEF NotFound
  <2>3. "failed" \in Hows
    BY DEF Hows, Answers
  <2>4. more \in BOOLEAN
    BY <2>1, Zenon
  <2> QED BY ONLY <2>2, <2>3, <2>4, CompleteIs, Sound(S, 0), i \in RequestIds, live(S, i),
                  i \notin S.begun, Free(S) # {}, luck \in Lucks
<1>3. CASE (S.session \/ S.reinitializing) /\ ~S.request[i].session_retried
  <2>1. PICK U : U = HeldFor(S, i)
    OBVIOUS
  <2>2. /\ Nearly(U, 0) /\ (S.reinitializing => Sound(U, 0)) /\ Leads(S, U)
        /\ ~S.reinitializing => \A k \in RequestIds : ~shaking(U, k)
    BY <1>3, <2>1, HeldForSound
  <2>3. PICK H : H = [S EXCEPT !.request[i].session_retried = TRUE, !.session = FALSE,
                               !.held = Append(@, i)]
    OBVIOUS
  <2>4. T = startReinitialize(H, luck)
    BY <1>3, <2>3 DEF NotFound
  <2>5. H.reinitializing = S.reinitializing /\ U = [H EXCEPT !.reinitializing = TRUE]
    BY <1>1, <2>1, <2>3 DEF HeldFor, Client
  <2>6. CASE S.reinitializing
    <3>1. S.reinitializing = TRUE
      BY <1>1, <2>6, ClientIs
    <3>2. U = H
      BY <1>1, <2>1, <2>3, <3>1 DEF HeldFor, Client
    <3>3. T = U
      BY <2>4, <2>5, <2>6, <3>2 DEF startReinitialize
    <3> QED BY <2>2, <2>6, <3>3, LeadsFollows
  <2>7. CASE ~S.reinitializing
    <3>1. PICK work, timed : work = "initialize" /\ timed = FALSE
      BY Zenon
    <3>2. T = SendInternal(U, work, 0, timed, luck)
      <4>1. ~H.reinitializing
        BY <2>5, <2>7
      <4>2. T = SendInternal([H EXCEPT !.reinitializing = TRUE], "initialize", 0, FALSE, luck)
        BY <2>4, <4>1, Zenon DEF startReinitialize
      <4> QED BY <2>5, <3>1, <4>2, Zenon
    <3>3. work = "initialize" /\ timed \in BOOLEAN
      BY <3>1, Zenon
    <3>4. Askable(U, 0, work, 0)
      <4>1. U.reinitializing
        BY ONLY <1>1, <2>1, HeldForIs, i \in RequestIds
      <4> QED BY ONLY <2>2, <2>7, <3>3, <4>1 DEF Askable
    <3>5. Free(U) # {}
      <4>1. PICK j \in Free(S) : TRUE
        BY ONLY Free(S) # {}
      <4>2. U \in Client /\ j \in RequestIds /\ j # i
        BY ONLY <1>1, <2>2, FreeIs, live(S, i) DEF live, Nearly
      <4>3. j \in Free(U)
        <5>1. /\ U.request[i].after = S.request[i].after
              /\ U.request[i].settled = S.request[i].settled
              /\ \A k \in RequestIds : k # i => U.request[k] = S.request[k]
              /\ U.tracked = S.tracked /\ U.clock = S.clock
              /\ U.queue = S.queue /\ U.waiting = S.waiting /\ U.polling = S.polling
              /\ U.wire = S.wire /\ U.own = S.own /\ Holds(U) = Holds(S) \cup {i}
          BY ONLY <1>1, <2>1, HeldForIs, i \in RequestIds
        <5>2. Posts(U) = Posts(S)
          BY <5>1 DEF Posts
        <5>3. /\ j \in RequestIds \ Calls
              /\ S.request[j].work = "none" \/ S.request[j].settled
              /\ j \notin S.tracked \cup S.wire \cup S.own \cup S.waiting \cup S.polling
              /\ S.clock[j] = Off /\ (\A p \in Posts(S) : p.of # j) /\ j \notin Holds(S)
              /\ \A k \in RequestIds : S.request[k].after = j => S.request[k].settled
          BY ONLY <1>1, <4>1, FreeIs
        <5>4. \A k \in RequestIds : U.request[k].after = j => U.request[k].settled
          BY ONLY <5>1, <5>3
        <5> QED BY ONLY <4>2, <5>1, <5>2, <5>3, <5>4, FreeIs
      <4> QED BY <4>3
    <3>6. Sound(T, 0) /\ Follows(U, T)
      BY ONLY <2>2, <3>2, <3>3, <3>4, <3>5, AskedSent, luck \in Lucks
    <3>7. T \in Client
      BY ONLY <3>6 DEF Sound, Nearly
    <3> QED BY ONLY <2>2, <3>6, <3>7, FollowsOn
  <2> QED BY <2>6, <2>7
<1> QED BY <1>2, <1>3

\* resumeAnswer.
LEMMA SeveredIs ==
  ASSUME NEW S, Sound(S, 0), NEW i \in RequestIds, live(S, i), i \notin S.begun,
         Free(S) # {}, NEW kept \in BOOLEAN, NEW luck \in Lucks,
         NEW T, T = Severed(S, i, kept, luck)
  PROVE  Sound(T, 0) /\ Follows(S, T)
<1>1. S \in Client /\ Nearly(S, 0) /\ S.request[i] \in Context
  BY ClientIs DEF Sound, Nearly
<1>2. CASE Modern \/ S.request[i].resumes >= MaxResumes
  <2>1. PICK more : more = FALSE
    BY Zenon
  <2>2. T = Complete(S, i, "failed", more, luck)
    BY <1>2, <2>1, Zenon DEF Severed
  <2>3. "failed" \in Hows
    BY DEF Hows, Answers
  <2>4. more \in BOOLEAN
    BY <2>1, Zenon
  <2> QED BY ONLY <2>2, <2>3, <2>4, CompleteIs, Sound(S, 0), i \in RequestIds, live(S, i),
                  i \notin S.begun, Free(S) # {}, luck \in Lucks
<1>3. CASE ~(Modern \/ S.request[i].resumes >= MaxResumes)
  <2>1. S.request[i].resumes + 1 \in 0..MaxResumes
    <3>1. S.request[i].resumes \in 0..MaxResumes
      BY <1>1, ContextIs
    <3> QED BY <1>3, <3>1, RequestsAssumption
  <2>2. PICK r, wire : /\ r = [S.request[i] EXCEPT !.resumes = S.request[i].resumes + 1]
                       /\ wire = IF kept THEN S.wire \cup {i} ELSE S.wire
    OBVIOUS
  <2>3. /\ r \in Context /\ r.work = S.request[i].work /\ r.origin = S.request[i].origin
        /\ r.after = S.request[i].after /\ r.settled = S.request[i].settled
        /\ r.told = S.request[i].told /\ r.task = S.request[i].task
        /\ r.sent_apart = S.request[i].sent_apart
        /\ r.session_retried = S.request[i].session_retried
    BY <1>1, <2>1, <2>2 DEF Context
  <2>4. PICK b : b = [S.request EXCEPT ![i] = r]
    OBVIOUS
  <2>5. T = [S EXCEPT !.request = b, !.wire = wire]
    BY <1>1, <1>3, <2>2, <2>4 DEF Severed, Client
  <2>6. /\ b \in [RequestIds -> Context] /\ b[i] = r
        /\ \A k \in RequestIds : k # i => b[k] = S.request[k]
    BY <1>1, <2>3, <2>4, ClientIs
  <2>7. wire \subseteq RequestIds /\ \A k \in wire : k \in S.wire \/ k = i
    BY <1>1, <2>2, ClientIs
  <2>8. /\ T \in Client /\ T.request = b /\ T.wire = wire /\ T.tracked = S.tracked
        /\ T.answer = S.answer /\ T.age = S.age /\ T.clock = S.clock /\ T.queue = S.queue
        /\ T.waiting = S.waiting /\ T.polling = S.polling /\ T.net = S.net /\ T.own = S.own
        /\ T.held = S.held /\ T.reinitializing = S.reinitializing /\ T.begun = S.begun
    BY ONLY <1>1, <2>5, <2>6, <2>7 DEF Client
  <2>9. Alike(S, T)
    BY <1>1, <2>3, <2>6, <2>8 DEF Alike
  <2>10. Posts(T) = Posts(S) /\ (SendsOnce(S) => SendsOnce(T))
    BY <2>8 DEF Posts, SendsOnce
  <2>11. Clear(S, i) /\ ~S.request[i].settled
    BY <1>3 DEF Clear, live
  <2>12. Calm(S, T, 0)
    BY <1>1, <2>7, <2>8, <2>9, <2>10, <2>11, AlikeCalm
  <2>13. Leads(S, T)
    BY <2>12 DEF Calm
  <2> QED BY <1>1, <2>12, <2>13, CalmSound, LeadsFollows
<1> QED BY <1>2, <1>3

\* A task's call has no clock, and is asked about.
LEMMA Unsingled ==
  ASSUME NEW S, NEW x \in RequestIds, Sound(S, x), calling(S, x), x \in S.tracked,
         S.request[x].task, x \in S.polling
  PROVE  Sound(S, 0)
<1>1. x # 0 /\ ~S.request[x].settled /\ S.request[x].work = "call"
  BY Constants DEF calling, live
<1>2. Tied(S, 0) /\ Timed(S, 0) /\ Shaken(S, 0) /\ ShakingGoesOn(S, 0)
  BY <1>1 DEF Sound, Nearly, Tied, Timed, Shaken, ShakingGoesOn
<1>3. Carried(S, 0)
  BY <1>1 DEF Sound, Nearly, Carried
<1> QED BY <1>2, <1>3 DEF Sound, Nearly

\* followTask: the request is a task's, and its clock stops.
TaskOf(S, i) == [S EXCEPT !.request[i].task = TRUE, !.clock[S.request[i].origin] = Off]

LEMMA TaskOfIs ==
  ASSUME NEW S \in Client, NEW i \in RequestIds, NEW T, T = TaskOf(S, i)
  PROVE  /\ T \in Client /\ T.request[i] \in Context
         /\ T.request[i].work = S.request[i].work /\ T.request[i].origin = S.request[i].origin
         /\ T.request[i].after = S.request[i].after
         /\ T.request[i].settled = S.request[i].settled
         /\ T.request[i].told = S.request[i].told /\ T.request[i].task
         /\ T.request[i].sent_apart = S.request[i].sent_apart
         /\ T.request[i].session_retried = S.request[i].session_retried
         /\ \A k \in RequestIds : k # i => T.request[k] = S.request[k]
         /\ T.clock[S.request[i].origin] = Off
         /\ \A o \in RequestIds : o # S.request[i].origin => T.clock[o] = S.clock[o]
         /\ T.tracked = S.tracked /\ T.answer = S.answer /\ T.age = S.age
         /\ T.queue = S.queue /\ T.waiting = S.waiting /\ T.polling = S.polling
         /\ T.net = S.net /\ T.wire = S.wire /\ T.own = S.own /\ T.held = S.held
         /\ T.reinitializing = S.reinitializing /\ T.begun = S.begun
<1>1. /\ S.request[i] \in Context /\ S.request \in [RequestIds -> Context]
      /\ S.clock \in [RequestIds -> 0..Off] /\ S.request[i].origin \in RequestIds
  BY ClientIs, ContextIs
<1>2. PICK r : r = [S.request[i] EXCEPT !.task = TRUE]
  OBVIOUS
<1>3. /\ r \in Context /\ r.work = S.request[i].work /\ r.origin = S.request[i].origin
      /\ r.after = S.request[i].after /\ r.settled = S.request[i].settled
      /\ r.told = S.request[i].told /\ r.task
      /\ r.sent_apart = S.request[i].sent_apart
      /\ r.session_retried = S.request[i].session_retried
  BY <1>1, <1>2 DEF Context
<1>4. PICK b, ticks :
        b = [S.request EXCEPT ![i] = r] /\ ticks = [S.clock EXCEPT ![S.request[i].origin] = Off]
  OBVIOUS
<1>5. /\ b \in [RequestIds -> Context] /\ b[i] = r
      /\ \A k \in RequestIds : k # i => b[k] = S.request[k]
      /\ ticks \in [RequestIds -> 0..Off] /\ ticks[S.request[i].origin] = Off
      /\ \A o \in RequestIds : o # S.request[i].origin => ticks[o] = S.clock[o]
  BY <1>1, <1>3, <1>4, Constants
<1>6. T = [S EXCEPT !.request = b, !.clock = ticks]
  BY <1>2, <1>4 DEF TaskOf, Client
<1>7. /\ T \in Client /\ T.request = b /\ T.clock = ticks
      /\ T.tracked = S.tracked /\ T.answer = S.answer /\ T.age = S.age
      /\ T.queue = S.queue /\ T.waiting = S.waiting /\ T.polling = S.polling
      /\ T.net = S.net /\ T.wire = S.wire /\ T.own = S.own /\ T.held = S.held
      /\ T.reinitializing = S.reinitializing /\ T.begun = S.begun
  BY ONLY <1>5, <1>6, S \in Client DEF Client
<1> QED BY <1>3, <1>5, <1>7

LEMMA TaskOfSound ==
  ASSUME NEW S, NEW i \in RequestIds, Sound(S, i), calling(S, i), i \notin S.begun, Modern,
         Clear(S, i), i \notin S.wire, NEW T, T = TaskOf(S, i)
  PROVE  Sound(T, i)
<1>1. S \in Client
  BY DEF Sound, Nearly
<1>2. /\ T \in Client /\ T.request[i] \in Context
      /\ T.request[i].work = S.request[i].work /\ T.request[i].origin = S.request[i].origin
      /\ T.request[i].after = S.request[i].after
      /\ T.request[i].settled = S.request[i].settled
      /\ T.request[i].told = S.request[i].told /\ T.request[i].task
      /\ T.request[i].sent_apart = S.request[i].sent_apart
      /\ T.request[i].session_retried = S.request[i].session_retried
      /\ \A k \in RequestIds : k # i => T.request[k] = S.request[k]
      /\ T.clock[S.request[i].origin] = Off
      /\ \A o \in RequestIds : o # S.request[i].origin => T.clock[o] = S.clock[o]
      /\ T.tracked = S.tracked /\ T.answer = S.answer /\ T.age = S.age
      /\ T.queue = S.queue /\ T.waiting = S.waiting /\ T.polling = S.polling
      /\ T.net = S.net /\ T.wire = S.wire /\ T.own = S.own /\ T.held = S.held
      /\ T.reinitializing = S.reinitializing /\ T.begun = S.begun
  BY <1>1, TaskOfIs
<1>3. \A k \in RequestIds :
        /\ T.request[k].work = S.request[k].work /\ T.request[k].origin = S.request[k].origin
        /\ T.request[k].after = S.request[k].after
        /\ T.request[k].settled = S.request[k].settled
        /\ T.request[k].told = S.request[k].told
        /\ T.request[k].sent_apart = S.request[k].sent_apart
        /\ T.request[k].session_retried = S.request[k].session_retried
        /\ k # i => T.request[k].task = S.request[k].task
  BY <1>2
<1>4. \A k, n \in RequestIds :
        /\ live(T, k) <=> live(S, k)
        /\ calling(T, k) <=> calling(S, k)
        /\ shaking(T, k) <=> shaking(S, k)
        /\ polls(T, k, n) <=> polls(S, k, n)
        /\ Awaited(T, k) <=> Awaited(S, k)
  BY <1>3 DEF live, calling, shaking, polls, Awaited
<1>5. Posts(T) = Posts(S) /\ Holds(T) = Holds(S) /\ (SendsOnce(S) => SendsOnce(T))
  BY <1>2 DEF Posts, Holds, SendsOnce
<1>6. \A do \in {"start", "stop", "send", "close"}, k \in RequestIds :
        Does(T, do, k) <=> Does(S, do, k)
  BY <1>5 DEF Does
<1>7. S.request[i].work = "call" /\ ~S.request[i].settled
  BY DEF calling, live
<1>8. Called(T)
  <2>1. \A k \in RequestIds : live(T, k) /\ T.request[k].after # 0 =>
          T.request[T.request[k].after].work = "call"
    <3>1. \A k \in RequestIds : S.request[k].after \in RequestIds \cup {0}
      BY <1>1, ClientIs, ContextIs
    <3> QED BY <1>3, <1>4, <3>1 DEF Sound, Nearly, Called
  <2>2. \A k \in T.polling : T.request[k].work = "call"
    <3>1. \A k \in T.polling : k \in RequestIds /\ k \in S.polling
      BY <1>1, <1>2, ClientIs
    <3> QED BY <1>3, <3>1 DEF Sound, Nearly, Called
  <2>3. \A c \in Calls : c \in RequestIds
    BY Constants
  <2>4. \A k \in RequestIds : T.request[k].task /\ ~T.request[k].settled =>
          T.request[k].work = "call" /\ Modern
    BY <1>3, <1>7 DEF Sound, Nearly, Called
  <2> QED BY SMTT(30), <1>2, <1>3, <2>1, <2>2, <2>3, <2>4 DEF Sound, Nearly, Called
<1>9. Promised(T)
  BY <1>2, <1>3, <1>4 DEF Sound, Nearly, Promised
<1>10. Tied(T, i)
  <2>1. \A k \in T.tracked : live(T, k)
    BY <1>1, <1>2, <1>4, ClientIs DEF Sound, Nearly, Tied
  <2>2. \A k \in RequestIds : live(T, k) /\ k # i => k \in T.tracked \/ k \in T.begun
    BY <1>2, <1>4 DEF Sound, Nearly, Tied
  <2>3. ASSUME NEW c \in T.begun
        PROVE  /\ calling(T, c) /\ T.request[c].origin = c /\ ~T.request[c].task
               /\ Unnamed(T, c)
    <3>1. /\ c \in RequestIds /\ c \in S.begun /\ c # i
          /\ calling(S, c) /\ S.request[c].origin = c /\ ~S.request[c].task /\ Unnamed(S, c)
      BY <1>1, <1>2, <2>3, ClientIs, Constants DEF Sound, Nearly, Tied
    <3>2. Unnamed(T, c)
      BY <1>2, <1>3, <1>4, <1>5, <1>6, <3>1 DEF Unnamed
    <3> QED BY <1>3, <1>4, <3>1, <3>2
  <2>4. T.begun # {} => world.threads
    BY <1>2 DEF Sound, Nearly, Tied
  <2>5. \A k \in T.wire \cup T.own \cup T.waiting \cup T.polling \cup Holds(T) :
          T.request[k].work # "none"
    <3>1. T.wire \cup T.own \cup T.waiting \cup T.polling \cup Holds(T) \subseteq RequestIds
      BY <1>2, ClientIs
    <3> QED BY <1>2, <1>3, <1>5, <3>1 DEF Sound, Nearly, Tied
  <2>6. \A p \in Posts(T) : T.request[p.of].work # "none"
    BY <1>1, <1>3, <1>5, ClientIs DEF Sound, Nearly, Tied
  <2> QED BY <2>1, <2>2, <2>3, <2>4, <2>5, <2>6 DEF Tied
<1>11. Timed(T, i)
  <2> SUFFICES ASSUME NEW o \in RequestIds
               PROVE  /\ T.clock[o] # Off => T.age[o] + T.clock[o] <= MaxTime
                      /\ Does(T, "start", o) => T.age[o] = 0
                      /\ Does(T, "stop", o) =>
                           \A k \in RequestIds : live(T, k) => T.request[k].origin # o
                      /\ ~world.threads =>
                           (calling(T, o) /\ o # i /\ ~T.request[o].task =>
                              T.clock[T.request[o].origin] # Off
                                \/ Does(T, "start", T.request[o].origin))
    BY DEF Timed
  <2>1. T.clock[o] # Off => T.age[o] + T.clock[o] <= MaxTime
    BY <1>2 DEF Sound, Nearly, Timed
  <2>2. Does(T, "start", o) => T.age[o] = 0
    BY <1>2, <1>6 DEF Sound, Nearly, Timed
  <2>3. Does(T, "stop", o) => \A k \in RequestIds : live(T, k) => T.request[k].origin # o
    BY <1>3, <1>4, <1>6 DEF Sound, Nearly, Timed
  <2>4. ASSUME ~world.threads, calling(T, o), o # i, ~T.request[o].task
        PROVE  T.clock[T.request[o].origin] # Off \/ Does(T, "start", T.request[o].origin)
    <3>1. calling(S, o) /\ T.request[o] = S.request[o] /\ S.request[o].origin \in RequestIds
      BY <1>1, <1>2, <1>4, <2>4, ClientIs, ContextIs
    <3>2. S.request[o].origin # S.request[i].origin
      BY <2>4, <3>1 DEF Sound, Nearly, Promised
    <3>3. S.clock[S.request[o].origin] # Off \/ Does(S, "start", S.request[o].origin)
      BY <2>4, <3>1 DEF Sound, Nearly, Timed
    <3> QED BY <1>2, <1>6, <3>1, <3>2, <3>3
  <2> QED BY <2>1, <2>2, <2>3, <2>4
<1>12. Owned(T)
  BY <1>1, <1>2, <1>3, <1>4, <1>6, ClientIs DEF Sound, Nearly, Owned
<1>13. Shaken(T, i) /\ ShakingGoesOn(T, i)
  <2>1. \A k \in Holds(T) : /\ live(T, k) => T.request[k].session_retried
                            /\ world.steady => T.request[k].work = "call"
    BY <1>1, <1>3, <1>4, <1>5, ClientIs DEF Sound, Nearly, Shaken
  <2>2. Shaken(T, i)
    BY <1>2, <1>4, <1>7, <2>1 DEF Sound, Nearly, Shaken
  <2> QED BY <1>2, <1>4, <1>7, <2>2 DEF Sound, ShakingGoesOn
<1>14. Carried(T, i)
  BY <1>2, <1>3, <1>4 DEF Sound, Nearly, Carried
<1>15. OneWay(T)
  <2> SUFFICES ASSUME world.steady, Modern, NEW k \in RequestIds
               PROVE  /\ T.held = <<>> /\ SendsOnce(T)
                      /\ live(T, k) =>
                           /\ k \in T.wire =>
                                ~Does(T, "send", k) /\ ~T.request[k].task /\ ~Awaited(T, k)
                           /\ Does(T, "send", k) => ~T.request[k].task /\ ~Awaited(T, k)
                           /\ T.request[k].task => ~Awaited(T, k)
    BY <1>1 DEF OneWay
  <2>1. T.held = <<>> /\ SendsOnce(T)
    BY <1>2, <1>5 DEF Sound, Nearly, OneWay
  <2>2. CASE k = i
    BY <1>2, <1>4, <1>6, <2>1, <2>2 DEF Clear
  <2>3. CASE k # i
    BY <1>2, <1>3, <1>4, <1>6, <2>1, <2>3 DEF Sound, Nearly, OneWay
  <2> QED BY <2>2, <2>3
<1> QED BY <1>2, <1>8, <1>9, <1>10, <1>11, <1>12, <1>13, <1>14, <1>15 DEF Sound, Nearly

\* onTaskState: the task is asked about until it is done.
LEMMA BecameTaskIs ==
  ASSUME NEW S, Sound(S, 0), NEW i \in RequestIds, calling(S, i), i \in S.tracked,
         i \notin S.begun, Modern, Clear(S, i), i \notin S.wire, NEW more \in BOOLEAN,
         NEW T, T = BecameTask(S, i, more)
  PROVE  Sound(T, 0) /\ Follows(S, T)
<1>1. S \in Client /\ Sound(S, i)
  BY Singled DEF Sound, Nearly, calling
<1>2. PICK U : U = TaskOf(S, i)
  OBVIOUS
<1>3. Sound(U, i)
  BY <1>1, <1>2, TaskOfSound
<1>4. /\ U.request[i].work = S.request[i].work /\ U.request[i].settled = S.request[i].settled
      /\ U.request[i].task /\ U.tracked = S.tracked /\ U.answer = S.answer
      /\ U.wire = S.wire /\ U.begun = S.begun
  BY <1>1, <1>2, TaskOfIs
<1>5. calling(U, i) /\ Nearly(U, i) /\ U \in Client
  BY <1>3, <1>4 DEF calling, live, Sound, Nearly
<1>6. ASSUME Sound(T, 0), Leads(U, T), T.wire = U.wire
      PROVE  Sound(T, 0) /\ Follows(S, T)
  BY <1>4, <1>6, FollowsNew
<1>7. CASE more
  <2>1. PICK polling : polling = U.polling \cup {i}
    OBVIOUS
  <2>2. T = [U EXCEPT !.polling = polling] /\ polling \subseteq RequestIds
    BY <1>2, <1>5, <1>7, <2>1, ClientIs DEF BecameTask, TaskOf
  <2>3. /\ T \in Client /\ T.request = U.request /\ T.tracked = U.tracked
        /\ T.answer = U.answer /\ T.age = U.age /\ T.clock = U.clock /\ T.queue = U.queue
        /\ T.waiting = U.waiting /\ T.polling = polling /\ T.net = U.net
        /\ T.wire = U.wire /\ T.own = U.own /\ T.held = U.held
        /\ T.reinitializing = U.reinitializing /\ T.begun = U.begun
    BY ONLY <1>5, <2>2 DEF Client
  <2>4. Alike(U, T)
    BY <1>5, <2>3 DEF Alike
  <2>5. Posts(T) = Posts(U) /\ (SendsOnce(U) => SendsOnce(T))
    BY <2>3 DEF Posts, SendsOnce
  <2>6. Calm(U, T, i)
    BY <1>4, <1>5, <2>1, <2>3, <2>4, <2>5, AlikeCalm DEF calling
  <2>7. Leads(U, T)
    BY <2>6 DEF Calm
  <2>8. Sound(T, i)
    BY <1>3, <1>5, <2>6, CalmSound
  <2>9. Sound(T, 0)
    BY <1>4, <1>5, <2>1, <2>3, <2>8, Unsingled DEF calling, live
  <2> QED BY <1>6, <2>3, <2>7, <2>9
<1>8. CASE ~more
  <2>1. T = EndedWith(U, i, "answered") /\ "answered" \in Hows
    BY <1>2, <1>8 DEF BecameTask, TaskOf, Hows, Answers
  <2>2. U.request[i].work = "call"
    BY <1>5 DEF calling
  <2>3. Calm(U, T, i) /\ T.request[i].settled
    BY <1>4, <1>5, <2>1, <2>2, EndedCalm
  <2>4. Leads(U, T)
    BY <2>3 DEF Calm
  <2>5. Sound(T, i) /\ T.request[i].work = "call"
    <3>1. Sound(T, i)
      BY <1>3, <1>5, <2>3, CalmSound
    <3> QED BY <2>2, <2>4, <3>1 DEF Leads
  <2>6. Sound(T, 0)
    BY <2>3, <2>5, Through
  <2>7. T.wire = U.wire
    BY <1>5, <2>1, EndedIs
  <2> QED BY <1>6, <2>4, <2>6, <2>7
<1> QED BY <1>7, <1>8

\* The headers do not match: the tools are listed, once, before it is sent again.
LEMMA MismatchIs ==
  ASSUME NEW S, Sound(S, 0), NEW i \in RequestIds, calling(S, i), i \notin S.begun,
         Clear(S, i), i \notin S.wire, Free(S) # {}, NEW luck \in Lucks,
         NEW U, U = [S EXCEPT !.request[i].header_retried = TRUE],
         NEW work, work = "list", NEW timed \in BOOLEAN,
         NEW T, T = SendInternal(U, work, i, timed, luck)
  PROVE  Sound(T, 0) /\ Follows(S, T)
<1>1. S \in Client /\ Nearly(S, 0) /\ S.request[i] \in Context
  BY ClientIs DEF Sound, Nearly
<1>2. PICK r : r = [S.request[i] EXCEPT !.header_retried = TRUE]
  OBVIOUS
<1>3. /\ r \in Context /\ r.work = S.request[i].work /\ r.origin = S.request[i].origin
      /\ r.after = S.request[i].after /\ r.settled = S.request[i].settled
      /\ r.told = S.request[i].told /\ r.task = S.request[i].task
      /\ r.sent_apart = S.request[i].sent_apart
      /\ r.session_retried = S.request[i].session_retried
  BY <1>1, <1>2 DEF Context
<1>4. U = [S EXCEPT !.request[i] = r]
  BY <1>1, <1>2 DEF Client
<1>5. /\ U \in Client /\ U.request[i] = r
      /\ \A k \in RequestIds : k # i => U.request[k] = S.request[k]
      /\ U.tracked = S.tracked /\ U.answer = S.answer /\ U.age = S.age
      /\ U.clock = S.clock /\ U.queue = S.queue /\ U.waiting = S.waiting
      /\ U.polling = S.polling /\ U.net = S.net /\ U.wire = S.wire /\ U.own = S.own
      /\ U.held = S.held /\ U.reinitializing = S.reinitializing /\ U.begun = S.begun
      /\ Posts(U) = Posts(S) /\ (SendsOnce(S) => SendsOnce(U))
  BY ONLY <1>1, <1>3, <1>4, ContextPut, i \in RequestIds
<1>6. Alike(S, U)
  BY <1>1, <1>3, <1>5 DEF Alike
<1>7. Calm(S, U, 0)
  BY <1>1, <1>5, <1>6, AlikeCalm
<1>8. Leads(S, U)
  BY <1>7 DEF Calm
<1>9. Sound(U, 0) /\ Nearly(U, 0)
  BY <1>1, <1>7, CalmSound
<1>10. Askable(U, 0, work, i)
  <2>1. calling(U, i)
    BY <1>3, <1>5 DEF calling, live
  <2>2. world.steady /\ Modern => i \notin U.wire /\ ~Does(U, "send", i) /\ ~U.request[i].task
    BY <1>3, <1>5 DEF Clear, Does, calling
  <2> QED BY <1>5, <2>1, <2>2 DEF Askable
<1>11. Free(U) # {}
  <2>1. \A k \in RequestIds : /\ U.request[k].work = S.request[k].work
                              /\ U.request[k].after = S.request[k].after
                              /\ U.request[k].settled = S.request[k].settled
    BY <1>3, <1>5
  <2> QED BY <1>5, <2>1 DEF Free
<1>12. Sound(T, 0) /\ Follows(U, T)
  BY ONLY <1>9, <1>10, <1>11, AskedSent, timed \in BOOLEAN, luck \in Lucks,
          T = SendInternal(U, work, i, timed, luck)
<1>13. T \in Client
  BY <1>12 DEF Sound, Nearly
<1> QED BY <1>8, <1>12, <1>13, FollowsOn

\* A question is answered: the call goes on, under another id.
LEMMA QuestionIs ==
  ASSUME NEW S, Sound(S, 0), NEW i \in RequestIds, calling(S, i), i \in S.tracked,
         Clear(S, i), Free(S) # {}, Modern, S.request[i].rounds < MaxRounds, NEW luck \in Lucks,
         NEW j, j = Fresh(S), NEW U, U = CarryOver(S, i),
         NEW T, T = sendRequestInternal([U EXCEPT !.request[j].rounds = @ + 1], j, luck)
  PROVE  Sound(T, 0) /\ Follows(S, T)
<1>1. /\ world.steady => ~S.request[i].task
      /\ S \in Client /\ S.request[i] \in Context
  BY ClientIs DEF Clear, calling, Sound, Nearly
<1>2. /\ Sound(U, 0) /\ j \in RequestIds /\ Clear(U, j) /\ live(U, j)
      /\ U.request[j].rounds = S.request[i].rounds
      /\ U.wire = S.wire /\ U.answer = S.answer /\ U.begun = S.begun
  BY <1>1, CarryOverSound
<1>3. U \in Client /\ Nearly(U, 0) /\ U.request[j] \in Context
  BY <1>2, ClientIs DEF Sound, Nearly
<1>4. PICK n, r : n = U.request[j].rounds + 1 /\ r = [U.request[j] EXCEPT !.rounds = n]
  OBVIOUS
<1>5. n \in 0..MaxRounds
  <2>1. S.request[i].rounds \in 0..MaxRounds
    BY <1>1, ContextIs
  <2> QED BY <1>2, <1>4, <2>1, RequestsAssumption
<1>6. /\ r \in Context /\ r.work = U.request[j].work /\ r.origin = U.request[j].origin
      /\ r.after = U.request[j].after /\ r.settled = U.request[j].settled
      /\ r.told = U.request[j].told /\ r.task = U.request[j].task
      /\ r.sent_apart = U.request[j].sent_apart
      /\ r.session_retried = U.request[j].session_retried
  BY <1>3, <1>4, <1>5 DEF Context
<1>7. PICK V : V = [U EXCEPT !.request[j] = r]
  OBVIOUS
<1>8. T = sendRequestInternal(V, j, luck)
  BY <1>3, <1>4, <1>7 DEF Client
<1>9. /\ V \in Client /\ V.request[j] = r
      /\ \A k \in RequestIds : k # j => V.request[k] = U.request[k]
      /\ V.tracked = U.tracked /\ V.answer = U.answer /\ V.age = U.age
      /\ V.clock = U.clock /\ V.queue = U.queue /\ V.waiting = U.waiting
      /\ V.polling = U.polling /\ V.net = U.net /\ V.wire = U.wire /\ V.own = U.own
      /\ V.held = U.held /\ V.reinitializing = U.reinitializing /\ V.begun = U.begun
      /\ Posts(V) = Posts(U) /\ (SendsOnce(U) => SendsOnce(V))
  BY ONLY <1>2, <1>3, <1>6, <1>7, ContextPut
<1>10. Alike(U, V)
  BY <1>3, <1>6, <1>9 DEF Alike
<1>11. Calm(U, V, 0)
  BY <1>3, <1>9, <1>10, AlikeCalm
<1>12. Sound(V, 0) /\ Nearly(V, 0)
  BY <1>2, <1>3, <1>11, CalmSound
<1>13. Clear(V, j)
  <2>1. \A k \in RequestIds : /\ V.request[k].work = U.request[k].work
                              /\ V.request[k].after = U.request[k].after
                              /\ V.request[k].settled = U.request[k].settled
    BY <1>6, <1>9
  <2> QED BY <1>2, <1>6, <1>9, <2>1 DEF Clear, live, Does, Awaited
<1>14. /\ Sound(T, 0) /\ Leads(V, T)
       /\ \A k \in T.wire \ V.wire : ~T.request[k].settled
  BY ONLY <1>2, <1>8, <1>12, <1>13, SendIs, luck \in Lucks
<1> QED BY <1>2, <1>9, <1>14, FollowsNew

LEMMA HearIs ==
  ASSUME NEW S, Sound(S, 0), NEW i \in RequestIds, i \in S.tracked, i \notin S.wire,
         Clear(S, i), Free(S) # {}, NEW says \in Says(S.request[i]), NEW more \in BOOLEAN,
         NEW luck \in Lucks, NEW T, T = Hear(S, i, says, more, luck)
  PROVE  Sound(T, 0) /\ Follows(S, T)
<1>1. /\ live(S, i) /\ i \notin S.begun /\ ~S.request[i].settled
  BY DEF Sound, Nearly, Tied, Unnamed, live
<1>2. /\ says \in {"result", "error", "not found", "severed", "task", "mismatch", "question"}
      /\ says \in {"task", "mismatch", "question"} => Modern /\ calling(S, i)
      /\ says = "not found" => ~Modern /\ (world.steady => S.request[i].work = "call")
  BY <1>1 DEF Says, Modern, calling
<1>3. PICK no : no = FALSE
  BY Zenon
<1>4. no \in BOOLEAN
  BY <1>3, Zenon
<1>5. "answered" \in Hows /\ "failed" \in Hows
  BY DEF Hows, Answers
<1>6. ASSUME NEW how \in Hows, NEW b \in BOOLEAN, T = Complete(S, i, how, b, luck)
      PROVE  Sound(T, 0) /\ Follows(S, T)
  BY ONLY <1>1, <1>6, CompleteIs, Sound(S, 0), i \in RequestIds, Free(S) # {}, luck \in Lucks
<1>7. CASE says \in {"result", "error"}
  <2>1. T = Complete(S, i, IF says = "result" THEN "answered" ELSE "failed", more, luck)
    BY <1>7, Zenon DEF Hear
  <2>2. (IF says = "result" THEN "answered" ELSE "failed") \in Hows
    BY <1>5
  <2> QED BY <1>6, <2>1, <2>2
<1>8. CASE says = "not found"
  <2>1. T = NotFound(S, i, luck)
    BY <1>8, Zenon DEF Hear
  <2> QED BY <1>1, <1>2, <1>8, <2>1, NotFoundIs
<1>9. CASE says = "severed"
  <2>1. T = Severed(S, i, more, luck)
    BY <1>9, Zenon DEF Hear
  <2> QED BY <1>1, <2>1, SeveredIs
<1>10. CASE says = "task"
  <2>1. T = BecameTask(S, i, more)
    BY <1>10, Zenon DEF Hear
  <2> QED BY <1>1, <1>2, <1>10, <2>1, BecameTaskIs
<1>11. CASE says = "mismatch"
  <2>1. T = IF S.request[i].header_retried THEN Complete(S, i, "failed", no, luck)
            ELSE SendInternal([S EXCEPT !.request[i].header_retried = TRUE], "list", i, no, luck)
    BY <1>3, <1>11, Zenon DEF Hear
  <2>2. CASE S.request[i].header_retried
    BY <1>4, <1>5, <1>6, <2>1, <2>2
  <2>3. CASE ~S.request[i].header_retried
    <3>1. PICK U, work : /\ U = [S EXCEPT !.request[i].header_retried = TRUE]
                         /\ work = "list"
      OBVIOUS
    <3>2. T = SendInternal(U, work, i, no, luck)
      BY <2>1, <2>3, <3>1, Zenon
    <3> QED BY ONLY <1>1, <1>2, <1>4, <1>11, <3>1, <3>2, MismatchIs, Sound(S, 0),
                    i \in RequestIds, i \notin S.wire, Clear(S, i), Free(S) # {}, luck \in Lucks
  <2> QED BY <2>2, <2>3
<1>12. CASE says = "question"
  <2>1. T = IF S.request[i].rounds >= MaxRounds THEN Complete(S, i, "failed", no, luck)
            ELSE LET j == Fresh(S)
                     t == CarryOver(S, i)
                 IN sendRequestInternal([t EXCEPT !.request[j].rounds = @ + 1], j, luck)
    BY <1>3, <1>12, Zenon DEF Hear
  <2>2. CASE S.request[i].rounds >= MaxRounds
    BY <1>4, <1>5, <1>6, <2>1, <2>2
  <2>3. CASE ~(S.request[i].rounds >= MaxRounds)
    <3>1. PICK j, U : j = Fresh(S) /\ U = CarryOver(S, i)
      OBVIOUS
    <3>2. T = sendRequestInternal([U EXCEPT !.request[j].rounds = @ + 1], j, luck)
      BY <2>1, <2>3, <3>1, Zenon
    <3>3. S.request[i].rounds < MaxRounds
      <4>1. S.request[i] \in Context
        BY ClientIs DEF Sound, Nearly
      <4> QED BY <2>3, <4>1, ContextIs, RequestsAssumption
    <3> QED BY ONLY <1>2, <1>12, <3>1, <3>2, <3>3, QuestionIs, Sound(S, 0), i \in RequestIds,
                    i \in S.tracked, Clear(S, i), Free(S) # {}, luck \in Lucks
  <2> QED BY <2>2, <2>3
<1> QED BY <1>2, <1>7, <1>8, <1>9, <1>10, <1>11, <1>12

\* What is on the wire, or due, is taken.
Taken(S, wire, waiting, polling) ==
  [S EXCEPT !.wire = wire, !.waiting = waiting, !.polling = polling]

LEMMA TakenIs ==
  ASSUME NEW S, NEW x, Nearly(S, x), NEW wire, NEW waiting, NEW polling,
         wire \subseteq S.wire, waiting \subseteq S.waiting, polling \subseteq S.polling,
         world.steady => \A i \in S.polling \ polling :
           live(S, i) /\ S.request[i].task /\ i # x => \E j \in RequestIds : polls(S, j, i),
         NEW T, T = Taken(S, wire, waiting, polling)
  PROVE  /\ Nearly(T, x) /\ (Sound(S, x) => Sound(T, x)) /\ Leads(S, T)
         /\ T.request = S.request /\ T.tracked = S.tracked /\ T.answer = S.answer
         /\ T.age = S.age /\ T.clock = S.clock /\ T.queue = S.queue
         /\ T.wire = wire /\ T.waiting = waiting /\ T.polling = polling
         /\ T.net = S.net /\ T.own = S.own /\ T.held = S.held /\ T.session = S.session
         /\ T.reinitializing = S.reinitializing /\ T.begun = S.begun
         /\ Posts(T) = Posts(S) /\ Holds(T) = Holds(S)
<1>1. S \in Client
  BY DEF Nearly
<1>2. wire \subseteq RequestIds /\ waiting \subseteq RequestIds /\ polling \subseteq RequestIds
  BY <1>1, ClientIs
<1>3. /\ T \in Client /\ T.request = S.request /\ T.tracked = S.tracked
      /\ T.answer = S.answer /\ T.age = S.age /\ T.clock = S.clock /\ T.queue = S.queue
      /\ T.wire = wire /\ T.waiting = waiting /\ T.polling = polling
      /\ T.net = S.net /\ T.own = S.own /\ T.held = S.held /\ T.session = S.session
      /\ T.reinitializing = S.reinitializing /\ T.begun = S.begun
  BY ONLY <1>1, <1>2, T = Taken(S, wire, waiting, polling) DEF Client, Taken
<1>4. /\ Posts(T) = Posts(S) /\ Holds(T) = Holds(S) /\ (SendsOnce(S) => SendsOnce(T))
  BY <1>3 DEF Posts, Holds, SendsOnce
<1>5. Moved(S, T, x)
  BY <1>1, <1>3, <1>4 DEF Moved, Nearly, Called
<1>6. /\ \A k \in RequestIds : /\ live(T, k) <=> live(S, k)
                               /\ calling(T, k) <=> calling(S, k)
      /\ \A do \in {"start", "stop", "send", "close"}, k \in RequestIds :
           Does(T, do, k) <=> Does(S, do, k)
      /\ S.own \subseteq RequestIds /\ \A k \in RequestIds : S.request[k].origin \in RequestIds
  BY <1>1, <1>3, <1>4, ClientIs, ContextIs DEF live, calling, Does
<1>7. Timed(T, x) /\ Owned(T)
  BY <1>3, <1>6 DEF Nearly, Timed, Owned
<1> QED BY <1>3, <1>4, <1>5, <1>7, MovedSound

LEMMA HeardIs ==
  ASSUME Sound(client, 0), Heard
  PROVE  Sound(client', 0) /\ Follows(client, client')
<1>1. PICK i \in client.wire :
        LET s == [client EXCEPT !.wire = @ \ {i}]
        IN IF i \notin s.tracked THEN client' = s
           ELSE /\ Cardinality(Free(s)) >= 2
                /\ \E says \in Says(s.request[i]), more \in BOOLEAN, luck \in Lucks :
                     client' = Hear(s, i, says, more, luck)
  BY Zenon DEF Heard
<1>2. PICK C, T : C = client /\ T = client'
  OBVIOUS
<1>3. PICK s, wire : s = [C EXCEPT !.wire = C.wire \ {i}] /\ wire = C.wire \ {i}
  OBVIOUS
<1>4. \/ i \notin s.tracked /\ T = s
      \/ /\ i \in s.tracked /\ Cardinality(Free(s)) >= 2
         /\ \E says \in Says(s.request[i]), more \in BOOLEAN, luck \in Lucks :
              T = Hear(s, i, says, more, luck)
  BY <1>1, <1>2, <1>3, Zenon
<1>5. Sound(C, 0) /\ Nearly(C, 0) /\ C \in Client /\ i \in C.wire /\ i \in RequestIds
  BY <1>2, ClientIs DEF Sound, Nearly
<1>6. SUFFICES Sound(T, 0) /\ Follows(C, T)
  BY <1>2
<1>7. /\ Sound(s, 0) /\ Leads(C, s)
      /\ s.request = C.request /\ s.queue = C.queue /\ s.wire = wire
      /\ s.begun = C.begun /\ Posts(s) = Posts(C)
  <2>1. s = Taken(C, wire, C.waiting, C.polling)
    BY ONLY <1>3, <1>5 DEF Client, Taken
  <2>2. wire \subseteq C.wire
    BY <1>3
  <2> QED BY ONLY <1>5, <2>1, <2>2, TakenIs
<1>8. i \notin s.wire /\ Clear(s, i)
  <2>1. /\ C.request[i].work # "none" /\ i \notin C.begun
        /\ world.steady /\ Modern /\ live(C, i) =>
             ~Does(C, "send", i) /\ ~C.request[i].task /\ ~Awaited(C, i)
    BY <1>5 DEF Nearly, Tied, Unnamed, OneWay
  <2> QED BY <1>3, <1>7, <2>1 DEF Clear, live, Does, Awaited
<1>9. CASE T = s
  BY <1>7, <1>9, LeadsFollows
<1>10. CASE /\ i \in s.tracked /\ Cardinality(Free(s)) >= 2
            /\ \E says \in Says(s.request[i]), more \in BOOLEAN, luck \in Lucks :
                 T = Hear(s, i, says, more, luck)
  <2>1. PICK says \in Says(s.request[i]), more \in BOOLEAN, luck \in Lucks :
          T = Hear(s, i, says, more, luck)
    BY <1>10
  <2>2. i \in s.tracked /\ Free(s) # {}
    BY <1>10, TwoFree
  <2>3. Sound(T, 0) /\ Follows(s, T)
    BY <1>5, <1>7, <1>8, <2>1, <2>2, HearIs
  <2>4. T \in Client
    BY <2>3 DEF Sound, Nearly
  <2> QED BY <1>7, <2>3, <2>4, FollowsOn
<1> QED BY <1>4, <1>9, <1>10

\* pollTask.
LEMMA PollFiresIs ==
  ASSUME Sound(client, 0), PollFires
  PROVE  Sound(client', 0) /\ Follows(client, client')
<1>1. PICK i \in client.polling, luck \in Lucks :
        /\ Free(client) # {}
        /\ LET s == [client EXCEPT !.polling = @ \ {i}]
           IN client' = IF s.request[i].settled THEN s ELSE SendInternal(s, "poll", i, TRUE, luck)
  BY Zenon DEF PollFires
<1>2. PICK C, T : C = client /\ T = client'
  OBVIOUS
<1>3. PICK s, polling, work, timed :
        /\ s = [C EXCEPT !.polling = C.polling \ {i}] /\ polling = C.polling \ {i}
        /\ work = "poll" /\ timed = TRUE
  BY Zenon
<1>4. T = IF s.request[i].settled THEN s ELSE SendInternal(s, work, i, timed, luck)
  BY <1>1, <1>2, <1>3, Zenon
<1>5. timed \in BOOLEAN /\ work = "poll" /\ luck \in Lucks
  BY <1>3, Zenon
<1>6. /\ s = [C EXCEPT !.polling = C.polling \ {i}] /\ polling = C.polling \ {i}
      /\ C = client /\ T = client' /\ Free(C) # {}
  BY <1>1, <1>2, <1>3, Zenon
<1>7. Sound(C, 0) /\ Nearly(C, 0) /\ C \in Client /\ i \in C.polling /\ i \in RequestIds
  BY ONLY <1>6, Sound(client, 0), i \in client.polling, ClientIs DEF Sound, Nearly
<1>8. SUFFICES Sound(T, 0) /\ Follows(C, T)
  BY <1>6, Zenon
<1>9. s = Taken(C, C.wire, C.waiting, polling) /\ polling \subseteq C.polling
  BY ONLY <1>6, <1>7 DEF Client, Taken
<1>10. s.request = C.request
  BY ONLY <1>6, <1>7 DEF Client
<1>11. CASE C.request[i].settled
  <2>1. T = s
    BY ONLY <1>4, <1>10, <1>11
  <2>2. \A k \in C.polling \ polling : ~live(C, k)
    BY ONLY <1>6, <1>11 DEF live
  <2>3. Sound(s, 0) /\ Leads(C, s)
    BY ONLY <1>7, <1>9, <2>2, TakenIs
  <2> QED BY ONLY <2>1, <2>3, LeadsFollows
<1>12. CASE ~C.request[i].settled
  <2>1. T = SendInternal(s, work, i, timed, luck)
    BY ONLY <1>4, <1>10, <1>12
  <2>2. calling(C, i) /\ i \notin C.begun
    BY ONLY <1>7, <1>12 DEF calling, live, Nearly, Called, Tied, Unnamed
  <2>3. PICK j : j = Fresh(s)
    OBVIOUS
  <2>4. j \in Free(C) /\ j \in RequestIds
    <3>1. /\ s.tracked = C.tracked /\ s.clock = C.clock /\ s.queue = C.queue
          /\ s.waiting = C.waiting /\ s.polling = C.polling \ {i}
          /\ s.wire = C.wire /\ s.own = C.own /\ s.held = C.held
      BY ONLY <1>6, <1>7 DEF Client
    <3>2. Free(C) \subseteq Free(s)
      BY ONLY <1>10, <3>1 DEF Free
    <3>3. j \in Free(s) /\ j \in RequestIds
      BY ONLY <1>6, <2>3, <3>2, FreshIs
    <3>4. j # i
      BY ONLY <1>10, <2>2, <3>3 DEF Free, calling, live
    <3> QED BY ONLY <1>10, <3>1, <3>3, <3>4 DEF Free
  <2>5. PICK A : A = Asked(C, work, j, i)
    OBVIOUS
  <2>6. Askable(C, 0, work, i)
    BY ONLY <1>5, <1>7, <2>2 DEF Askable
  <2>7. Nearly(A, 0) /\ live(A, j) /\ Clear(A, j) /\ Sound(A, 0)
    BY ONLY <1>7, <2>4, <2>5, <2>6, AskedSound
  <2>8. /\ A \in Client /\ A.request[j] = NewContext(work, j, i) /\ A.age[j] = 0
        /\ A.answer = C.answer /\ A.polling = C.polling /\ A.wire = C.wire
    <3>1. work \in Works
      BY ONLY <1>5 DEF Works
    <3> QED BY ONLY <1>7, <2>4, <2>5, <3>1, AskedIs
  <2>9. polls(A, j, i)
    <3>1. A.request[j].work = "poll" /\ A.request[j].after = i
      BY ONLY <1>5, <1>7, <2>4, <2>8, NewContextIs DEF Works
    <3> QED BY ONLY <2>7, <3>1 DEF polls
  <2>10. PICK B : B = Taken(A, A.wire, A.waiting, polling)
    OBVIOUS
  <2>11. /\ Sound(B, 0) /\ Nearly(B, 0)
         /\ B.request = A.request /\ B.age = A.age /\ B.answer = A.answer
         /\ B.wire = A.wire /\ B.begun = A.begun /\ Posts(B) = Posts(A)
    <3>1. \A k \in A.polling \ polling : k = i
      BY ONLY <1>6, <2>8
    <3>2. \A k \in A.polling \ polling : \E n \in RequestIds : polls(A, n, k)
      BY ONLY <2>4, <2>9, <3>1
    <3>3. polling \subseteq A.polling
      BY ONLY <1>9, <2>8
    <3> QED BY ONLY <2>7, <2>10, <3>2, <3>3, TakenIs DEF Sound
  <2>12. Clear(B, j) /\ B.age[j] = 0
    BY ONLY <2>7, <2>8, <2>11 DEF Clear, live, Does, Awaited
  <2>13. B = Asked(s, work, j, i)
    BY ONLY ZenonT(30), <1>7, <1>9, <2>5, <2>10 DEF Asked, Taken, Client
  <2>14. T = sendRequestInternal(IF timed THEN Put(B, "start", j) ELSE B, j, luck)
    BY ONLY <2>1, <2>3, <2>13 DEF SendInternal, Asked
  <2>15. /\ Sound(T, 0) /\ Leads(B, T)
         /\ \A k \in T.wire \ B.wire : ~T.request[k].settled
    BY ONLY <1>5, <2>4, <2>11, <2>12, <2>14, AskedGoes
  <2> QED BY ONLY <2>8, <2>11, <2>15, FollowsNew
<1> QED BY ONLY <1>11, <1>12

\* retrySend.
LEMMA RetryFiresIs ==
  ASSUME Sound(client, 0), RetryFires
  PROVE  Sound(client', 0) /\ Follows(client, client')
<1>1. PICK i \in client.waiting, luck \in Lucks :
        client' = sendRequestInternal([client EXCEPT !.waiting = @ \ {i}], i, luck)
  BY Zenon DEF RetryFires
<1>2. PICK C, T : C = client /\ T = client'
  OBVIOUS
<1>3. Sound(C, 0) /\ Nearly(C, 0) /\ C \in Client /\ i \in C.waiting /\ i \in RequestIds
  BY <1>2, ClientIs DEF Sound, Nearly
<1>4. PICK s, waiting : s = [C EXCEPT !.waiting = waiting] /\ waiting = C.waiting \ {i}
  OBVIOUS
<1>5. T = sendRequestInternal(s, i, luck)
  BY <1>1, <1>2, <1>4
<1>6. s = Taken(C, C.wire, waiting, C.polling) /\ waiting \subseteq C.waiting
  BY ONLY <1>3, <1>4 DEF Client, Taken
<1>7. Sound(s, 0) /\ Leads(C, s) /\ s.request = C.request /\ s.begun = C.begun
  BY ONLY <1>3, <1>6, TakenIs
<1>8. ~world.steady /\ C.request[i].work # "none" /\ i \notin C.begun
  BY ONLY <1>3 DEF Nearly, Carried, Tied, Unnamed
<1>9. Clear(s, i)
  BY ONLY <1>7, <1>8 DEF Clear
<1>10. Sound(T, 0) /\ Leads(s, T)
  BY ONLY <1>3, <1>5, <1>7, <1>9, SendIs, luck \in Lucks DEF Sound
<1> QED BY ONLY <1>2, <1>7, <1>10, LeadsOn, LeadsFollows

LEMMA LostIs ==
  ASSUME Sound(client, 0), Lost
  PROVE  Sound(client', 0) /\ Follows(client, client')
<1>1. PICK to : to = "down"
  OBVIOUS
<1>2. /\ client' = Closed(client, to) /\ ~world.steady /\ to \in {"up", "down", "dialing"}
      /\ Nearly(client, 0)
  BY <1>1 DEF Lost, Sound
<1>3. Sound(client', 0) /\ Leads(client, client')
  BY <1>2, ClosedIs
<1> QED BY <1>3, LeadsFollows

LEMMA ReconnectedIs ==
  ASSUME Sound(client, 0), Reconnected
  PROVE  Sound(client', 0) /\ Follows(client, client')
<1>1. PICK C, T : C = client /\ T = client'
  OBVIOUS
<1>2. Sound(C, 0) /\ Nearly(C, 0) /\ C \in Client /\ C.net = "dialing"
  BY <1>1 DEF Sound, Nearly, Reconnected
<1>3. T = [C EXCEPT !.net = "up"] /\ ~world.steady
  BY <1>1, <1>2 DEF Reconnected, Nearly, Carried
<1>4. /\ T \in Client /\ T = [C EXCEPT !.net = T.net, !.wire = T.wire, !.own = T.own]
      /\ T.wire = C.wire /\ T.own = C.own
  BY ONLY <1>2, <1>3 DEF Client
<1>5. Calm(C, T, 0)
  BY ONLY <1>2, <1>3, <1>4, LostCalm
<1>6. Sound(T, 0)
  BY ONLY <1>2, <1>5, CalmSound
<1>7. Leads(C, T)
  BY <1>5 DEF Calm
<1> QED BY <1>1, <1>6, <1>7, LeadsFollows

\* The clock of o set to v.
Clocked(S, o, v) == [S EXCEPT !.clock[o] = v]

\* A clock may be set within the maximum, and stopped for what needs none.
LEMMA ClockedIs ==
  ASSUME NEW S, NEW x, Nearly(S, x), NEW o \in RequestIds, NEW v \in 0..Off,
         v # Off => S.age[o] + v <= MaxTime,
         v = Off => \A k \in RequestIds :
           ~world.threads /\ calling(S, k) /\ ~S.request[k].task /\ S.request[k].origin = o =>
             k = x \/ Does(S, "start", o),
         NEW T, T = Clocked(S, o, v)
  PROVE  /\ Nearly(T, x) /\ (Sound(S, x) => Sound(T, x)) /\ Leads(S, T)
         /\ T.request = S.request /\ T.tracked = S.tracked /\ T.wire = S.wire
         /\ T.begun = S.begun /\ T.queue = S.queue /\ T.clock[o] = v
         /\ T.age = S.age /\ \A k \in RequestIds : k # o => T.clock[k] = S.clock[k]
<1>1. S \in Client /\ S.clock \in [RequestIds -> 0..Off]
  BY ClientIs DEF Nearly
<1>2. /\ T \in Client /\ T.request = S.request /\ T.tracked = S.tracked /\ T.answer = S.answer
      /\ T.held = S.held /\ T.reinitializing = S.reinitializing /\ T.begun = S.begun
      /\ T.wire = S.wire /\ T.waiting = S.waiting /\ T.polling = S.polling /\ T.own = S.own
      /\ T.age = S.age /\ T.queue = S.queue /\ T.net = S.net
      /\ T.clock[o] = v /\ \A k \in RequestIds : k # o => T.clock[k] = S.clock[k]
  BY <1>1 DEF Clocked, Client
<1>3. Posts(T) = Posts(S) /\ (SendsOnce(S) => SendsOnce(T))
  BY <1>2 DEF Posts, SendsOnce
<1>4. Moved(S, T, x)
  BY <1>1, <1>2, <1>3 DEF Moved, Nearly, Called
<1>5. /\ \A k \in RequestIds : live(T, k) <=> live(S, k)
      /\ \A k \in RequestIds : calling(T, k) <=> calling(S, k)
      /\ \A k \in RequestIds : S.request[k].origin \in RequestIds
  BY <1>1, <1>2, ClientIs, ContextIs DEF live, calling
<1>6. Timed(T, x)
  <2> SUFFICES ASSUME NEW k \in RequestIds
               PROVE  /\ T.clock[k] # Off => T.age[k] + T.clock[k] <= MaxTime
                      /\ Does(T, "start", k) => T.age[k] = 0
                      /\ Does(T, "stop", k) => \A i \in RequestIds : live(T, i) => T.request[i].origin # k
                      /\ ~world.threads =>
                           (calling(T, k) /\ k # x /\ ~T.request[k].task =>
                              T.clock[T.request[k].origin] # Off
                                \/ Does(T, "start", T.request[k].origin))
    BY DEF Timed
  <2>1. T.clock[k] # Off => T.age[k] + T.clock[k] <= MaxTime
    BY <1>2 DEF Nearly, Timed
  <2>2. /\ Does(T, "start", k) => T.age[k] = 0
        /\ Does(T, "stop", k) => \A i \in RequestIds : live(T, i) => T.request[i].origin # k
    BY <1>2, <1>3, <1>5 DEF Nearly, Timed, Does
  <2>3. ASSUME ~world.threads, calling(T, k), k # x, ~T.request[k].task
        PROVE  T.clock[T.request[k].origin] # Off \/ Does(T, "start", T.request[k].origin)
    <3>1. S.clock[S.request[k].origin] # Off \/ Does(S, "start", S.request[k].origin)
      BY <1>2, <1>5, <2>3 DEF Nearly, Timed
    <3>2. CASE S.request[k].origin = o
      BY <1>2, <1>3, <1>5, <2>3, <3>1, <3>2 DEF Does
    <3>3. CASE S.request[k].origin # o
      BY <1>2, <1>3, <1>5, <3>1, <3>3 DEF Does
    <3> QED BY <3>2, <3>3
  <2> QED BY <2>1, <2>2, <2>3
<1>7. Owned(T)
  BY <1>2, <1>3 DEF Nearly, Owned, live, Does
<1>8. Nearly(T, x) /\ (Sound(S, x) => Sound(T, x)) /\ Leads(S, T)
  BY <1>4, <1>6, <1>7, MovedSound
<1> QED BY <1>2, <1>8

\* A posted callback has been taken.
Popped(S) == [S EXCEPT !.queue = Tail(@)]

LEMMA PoppedIs ==
  ASSUME NEW S \in Client, S.queue # <<>>, NEW T, T = Popped(S), NEW p, p = Head(S.queue)
  PROVE  /\ T \in Client /\ T = [S EXCEPT !.queue = T.queue]
         /\ p \in Posts(S) /\ p \in Post /\ p.of \in RequestIds
         /\ Posts(S) = Posts(T) \cup {p}
         /\ SendsOnce(S) => SendsOnce(T)
         /\ SendsOnce(S) /\ p.do = "send" => p \notin Posts(T)
<1>1. PICK q : q = S.queue
  OBVIOUS
<1>2. PICK rest : rest = Tail(q)
  OBVIOUS
<1>3. q \in Seq(Post) /\ q # <<>> /\ p = Head(q)
  BY <1>1, ClientIs
<1>4. /\ Len(q) \in Nat \ {0} /\ p = q[1] /\ p \in Post
      /\ rest \in Seq(Post) /\ Len(rest) = Len(q) - 1
      /\ \A n \in 1..Len(rest) : rest[n] = q[n + 1]
  BY ONLY <1>2, <1>3
<1>5. T = [S EXCEPT !.queue = rest] /\ T.queue = rest /\ T \in Client
  BY <1>1, <1>2, <1>4 DEF Popped, Client
<1>6. p \in Posts(S)
  BY ONLY <1>1, <1>4 DEF Posts
<1>7. ASSUME NEW e \in Posts(T) PROVE e \in Posts(S)
  <2>1. PICK n \in 1..Len(rest) : e = rest[n]
    BY <1>5, <1>7 DEF Posts
  <2>2. e = q[n + 1] /\ n + 1 \in 1..Len(q)
    BY ONLY <1>4, <2>1
  <2> QED BY ONLY <1>1, <2>2 DEF Posts
<1>8. ASSUME NEW e \in Posts(S), e # p PROVE e \in Posts(T)
  <2>1. PICK n \in 1..Len(q) : e = q[n]
    BY <1>1, <1>8 DEF Posts
  <2>2. n - 1 \in 1..Len(rest) /\ e = rest[n - 1]
    BY ONLY <1>4, <1>8, <2>1
  <2> QED BY ONLY <1>5, <2>2 DEF Posts
<1>9. ASSUME SendsOnce(S) PROVE SendsOnce(T)
  <2> SUFFICES ASSUME NEW m \in 1..Len(rest), NEW n \in 1..Len(rest),
                      rest[m].do = "send", rest[n] = rest[m]
               PROVE  m = n
    BY <1>5 DEF SendsOnce
  <2>1. /\ m + 1 \in 1..Len(q) /\ n + 1 \in 1..Len(q)
        /\ q[m + 1].do = "send" /\ q[n + 1] = q[m + 1]
    BY ONLY <1>4, m \in 1..Len(rest), n \in 1..Len(rest), rest[m].do = "send", rest[n] = rest[m]
  <2>2. m + 1 = n + 1
    BY ONLY <1>1, <1>9, <2>1 DEF SendsOnce
  <2> QED BY ONLY <1>4, <2>2, m \in 1..Len(rest), n \in 1..Len(rest)
<1>10. ASSUME SendsOnce(S), p.do = "send", p \in Posts(T) PROVE FALSE
  <2>1. PICK n \in 1..Len(rest) : p = rest[n]
    BY <1>5, <1>10 DEF Posts
  <2>2. /\ n + 1 \in 1..Len(q) /\ 1 \in 1..Len(q) /\ n + 1 # 1
        /\ q[1].do = "send" /\ q[n + 1] = q[1]
    BY ONLY <1>4, <1>10, <2>1
  <2> QED BY ONLY <1>1, <1>10, <2>2 DEF SendsOnce
<1>11. Posts(S) = Posts(T) \cup {p}
  BY ONLY <1>6, <1>7, <1>8
<1>12. p.of \in RequestIds
  BY <1>4 DEF Post
<1> QED BY <1>4, <1>5, <1>6, <1>9, <1>10, <1>11, <1>12

\* The first callback, p, may be taken.
Ready(S, p, x) ==
  /\ Nearly(S, x) /\ S.queue # <<>> /\ p = Head(S.queue)
  /\ p.do = "start" => \A k \in RequestIds :
       ~world.threads /\ calling(S, k) /\ ~S.request[k].task /\ S.request[k].origin = p.of =>
         k = x \/ S.clock[p.of] # Off
  /\ p.do = "close" => p.of \notin S.own

LEMMA PoppedSound ==
  ASSUME NEW S, NEW x, NEW p, Ready(S, p, x), NEW T, T = Popped(S)
  PROVE  /\ Nearly(T, x) /\ (Sound(S, x) => Sound(T, x)) /\ Leads(S, T)
         /\ T.request = S.request /\ T.tracked = S.tracked /\ T.wire = S.wire
         /\ T.begun = S.begun /\ T.age = S.age /\ T.clock = S.clock
<1>1. S \in Client /\ Nearly(S, x) /\ S.queue # <<>> /\ p = Head(S.queue)
  BY DEF Ready, Nearly
<1>2. /\ T \in Client /\ T = [S EXCEPT !.queue = T.queue]
      /\ p \in Posts(S) /\ p \in Post /\ p.of \in RequestIds
      /\ Posts(S) = Posts(T) \cup {p}
      /\ SendsOnce(S) => SendsOnce(T)
  BY <1>1, PoppedIs
<1>3. /\ T.request = S.request /\ T.tracked = S.tracked /\ T.answer = S.answer
      /\ T.held = S.held /\ T.reinitializing = S.reinitializing /\ T.begun = S.begun
      /\ T.wire = S.wire /\ T.waiting = S.waiting /\ T.polling = S.polling /\ T.own = S.own
      /\ T.age = S.age /\ T.clock = S.clock /\ T.net = S.net
  BY <1>1, <1>2 DEF Client
<1>4. Moved(S, T, x)
  BY <1>1, <1>2, <1>3 DEF Moved, Nearly, Called
<1>5. /\ \A k \in RequestIds : live(T, k) <=> live(S, k)
      /\ \A k \in RequestIds : calling(T, k) <=> calling(S, k)
      /\ S.own \subseteq RequestIds
      /\ \A k \in RequestIds : S.request[k].origin \in RequestIds
  BY <1>1, <1>3, ClientIs, ContextIs DEF live, calling
<1>6. \A o \in RequestIds :
        /\ Does(T, "start", o) => Does(S, "start", o)
        /\ Does(T, "stop", o) => Does(S, "stop", o)
        /\ Does(S, "start", o) => Does(T, "start", o) \/ (p.do = "start" /\ p.of = o)
        /\ Does(S, "close", o) => Does(T, "close", o) \/ (p.do = "close" /\ p.of = o)
  BY <1>2 DEF Does
<1>7. Timed(T, x)
  <2> SUFFICES ASSUME NEW k \in RequestIds
               PROVE  /\ T.clock[k] # Off => T.age[k] + T.clock[k] <= MaxTime
                      /\ Does(T, "start", k) => T.age[k] = 0
                      /\ Does(T, "stop", k) => \A i \in RequestIds : live(T, i) => T.request[i].origin # k
                      /\ ~world.threads =>
                           (calling(T, k) /\ k # x /\ ~T.request[k].task =>
                              T.clock[T.request[k].origin] # Off
                                \/ Does(T, "start", T.request[k].origin))
    BY DEF Timed
  <2>1. T.clock[k] # Off => T.age[k] + T.clock[k] <= MaxTime
    BY <1>1, <1>3 DEF Nearly, Timed
  <2>2. /\ Does(T, "start", k) => T.age[k] = 0
        /\ Does(T, "stop", k) => \A i \in RequestIds : live(T, i) => T.request[i].origin # k
    BY <1>1, <1>3, <1>5, <1>6 DEF Nearly, Timed
  <2>3. ASSUME ~world.threads, calling(T, k), k # x, ~T.request[k].task
        PROVE  T.clock[T.request[k].origin] # Off \/ Does(T, "start", T.request[k].origin)
    <3>1. S.clock[S.request[k].origin] # Off \/ Does(S, "start", S.request[k].origin)
      BY <1>1, <1>3, <1>5, <2>3 DEF Nearly, Timed
    <3> QED BY <1>3, <1>5, <1>6, <2>3, <3>1 DEF Ready
  <2> QED BY <2>1, <2>2, <2>3
<1>8. Owned(T)
  BY <1>1, <1>3, <1>5, <1>6 DEF Ready, Nearly, Owned
<1>9. Nearly(T, x) /\ (Sound(S, x) => Sound(T, x)) /\ Leads(S, T)
  BY <1>1, <1>4, <1>7, <1>8, MovedSound
<1> QED BY <1>3, <1>9

LEMMA PoppedFree ==
  ASSUME NEW S \in Client, S.queue # <<>>, NEW T, T = Popped(S)
  PROVE  Free(S) \subseteq Free(T)
<1>1. PICK p : p = Head(S.queue)
  OBVIOUS
<1>2. /\ T \in Client /\ T = [S EXCEPT !.queue = T.queue] /\ Posts(S) = Posts(T) \cup {p}
  BY <1>1, PoppedIs
<1>3. /\ T.request = S.request /\ T.tracked = S.tracked /\ T.clock = S.clock
      /\ T.wire = S.wire /\ T.waiting = S.waiting /\ T.polling = S.polling
      /\ T.own = S.own /\ T.held = S.held
  BY <1>2 DEF Client
<1> SUFFICES ASSUME NEW k \in Free(S) PROVE k \in Free(T)
  OBVIOUS
<1>4. Holds(T) = Holds(S)
  BY <1>3 DEF Holds
<1> QED BY <1>2, <1>3, <1>4, FreeIs

\* The clock a posted callback starts is a whole one.
LEMMA StartRuns ==
  ASSUME NEW C, Sound(C, 0), C.queue # <<>>, NEW p, p = Head(C.queue),
         p.do = "start", NEW s, s = Popped(C),
         NEW T, T = [s EXCEPT !.clock[p.of] = Armed(s, p.of, Timeout)]
  PROVE  Sound(T, 0) /\ Leads(C, T)
<1>1. Nearly(C, 0) /\ C \in Client /\ C.age \in [RequestIds -> 0..Off]
  BY ClientIs DEF Sound, Nearly
<1>2. /\ s \in Client /\ s = [C EXCEPT !.queue = s.queue]
      /\ p \in Posts(C) /\ p \in Post /\ p.of \in RequestIds
  BY <1>1, PoppedIs
<1>3. s.age = C.age
  BY ONLY <1>1, <1>2 DEF Client
<1>4. Does(C, "start", p.of)
  <2>1. p = [do |-> "start", of |-> p.of]
    BY <1>2 DEF Post
  <2> QED BY <1>2, <2>1 DEF Does
<1>5. C.age[p.of] = 0
  BY <1>1, <1>2, <1>4 DEF Nearly, Timed
<1>6. PICK v : v = Armed(s, p.of, Timeout)
  OBVIOUS
<1>7. v = Timeout
  BY ONLY <1>3, <1>5, <1>6, RequestsAssumption DEF Armed
<1>8. v \in 0..Off /\ v # Off /\ C.age[p.of] + v <= MaxTime
  BY ONLY <1>5, <1>7, RequestsAssumption DEF Off
<1>9. PICK U : U = Clocked(C, p.of, v)
  OBVIOUS
<1>10. /\ Nearly(U, 0) /\ Sound(U, 0) /\ Leads(C, U)
       /\ U.queue = C.queue /\ U.clock[p.of] = v
  BY ONLY <1>1, <1>2, <1>8, <1>9, ClockedIs, Sound(C, 0)
<1>11. T = Popped(U)
  BY <1>1, <1>6, <1>9 DEF Popped, Clocked, Client
<1>12. Ready(U, p, 0)
  BY <1>8, <1>10 DEF Ready
<1>13. Sound(T, 0) /\ Leads(U, T)
  BY ONLY <1>10, <1>11, <1>12, PoppedSound
<1> QED BY ONLY <1>10, <1>13, LeadsOn

\* What has ended needs no clock.
LEMMA StopRuns ==
  ASSUME NEW C, Sound(C, 0), C.queue # <<>>, NEW p, p = Head(C.queue),
         p.do = "stop", NEW s, s = Popped(C), NEW T, T = [s EXCEPT !.clock[p.of] = Off]
  PROVE  Sound(T, 0) /\ Leads(C, T)
<1>1. Nearly(C, 0) /\ C \in Client
  BY DEF Sound, Nearly
<1>2. p \in Posts(C) /\ p \in Post /\ p.of \in RequestIds
  BY <1>1, PoppedIs
<1>3. Does(C, "stop", p.of)
  <2>1. p = [do |-> "stop", of |-> p.of]
    BY <1>2 DEF Post
  <2> QED BY <1>2, <2>1 DEF Does
<1>4. \A k \in RequestIds : live(C, k) => C.request[k].origin # p.of
  BY <1>1, <1>2, <1>3 DEF Nearly, Timed
<1>5. \A k \in RequestIds :
        ~world.threads /\ calling(C, k) /\ ~C.request[k].task /\ C.request[k].origin = p.of =>
          k = 0 \/ Does(C, "start", p.of)
  BY <1>4 DEF calling
<1>6. PICK v : v = Off
  OBVIOUS
<1>7. v \in 0..Off
  BY <1>6, Constants
<1>8. PICK U : U = Clocked(C, p.of, v)
  OBVIOUS
<1>9. /\ Nearly(U, 0) /\ Sound(U, 0) /\ Leads(C, U) /\ U.queue = C.queue
  BY ONLY <1>1, <1>2, <1>5, <1>6, <1>7, <1>8, ClockedIs, Sound(C, 0)
<1>10. T = Popped(U)
  BY <1>1, <1>6, <1>8 DEF Popped, Clocked, Client
<1>11. Ready(U, p, 0)
  BY <1>9 DEF Ready
<1>12. Sound(T, 0) /\ Leads(U, T)
  BY ONLY <1>9, <1>10, <1>11, PoppedSound
<1> QED BY ONLY <1>9, <1>12, LeadsOn

\* A connection that served one request is closed.
LEMMA CloseRuns ==
  ASSUME NEW C, Sound(C, 0), C.queue # <<>>, NEW p, p = Head(C.queue),
         p.do = "close", NEW s, s = Popped(C),
         NEW T, T = [s EXCEPT !.own = @ \ {p.of}, !.wire = @ \ {p.of}]
  PROVE  Sound(T, 0) /\ Leads(C, T)
<1>1. Nearly(C, 0) /\ C \in Client
  BY DEF Sound, Nearly
<1>2. PICK U : U = [C EXCEPT !.own = C.own \ {p.of}, !.wire = C.wire \ {p.of}]
  OBVIOUS
<1>3. /\ U \in Client
      /\ U.request = C.request /\ U.tracked = C.tracked /\ U.answer = C.answer
      /\ U.held = C.held /\ U.reinitializing = C.reinitializing /\ U.begun = C.begun
      /\ U.wire \subseteq C.wire /\ U.waiting = C.waiting /\ U.polling = C.polling
      /\ U.own = C.own \ {p.of} /\ U.net = C.net
      /\ U.age = C.age /\ U.clock = C.clock /\ U.queue = C.queue
  BY <1>1, <1>2 DEF Client
<1>4. Posts(U) = Posts(C) /\ (SendsOnce(C) => SendsOnce(U))
  BY <1>3 DEF Posts, SendsOnce
<1>5. Moved(C, U, 0)
  BY <1>1, <1>3, <1>4 DEF Moved, Nearly, Called
<1>6. /\ \A k \in RequestIds : live(U, k) <=> live(C, k)
      /\ \A k \in RequestIds : calling(U, k) <=> calling(C, k)
  BY <1>3 DEF live, calling
<1>7. Timed(U, 0)
  BY ZenonT(30), <1>1, <1>3, <1>4, <1>6 DEF Nearly, Timed, Does
<1>8. Owned(U)
  BY <1>1, <1>3, <1>4 DEF Nearly, Owned, live, Does
<1>9. Nearly(U, 0) /\ Sound(U, 0) /\ Leads(C, U)
  BY <1>1, <1>5, <1>7, <1>8, MovedSound
<1>10. T = Popped(U)
  BY <1>1, <1>2 DEF Popped, Client
<1>11. Ready(U, p, 0)
  BY <1>3, <1>9 DEF Ready
<1>12. Sound(T, 0) /\ Leads(U, T)
  BY ONLY <1>9, <1>10, <1>11, PoppedSound
<1> QED BY ONLY <1>9, <1>12, LeadsOn

\* A request is sent that had a connection to wait for.
LEMMA SendRuns ==
  ASSUME NEW C, Sound(C, 0), C.queue # <<>>, NEW p, p = Head(C.queue),
         p.do = "send", NEW s, s = Popped(C), NEW luck \in Lucks,
         NEW T, T = sendRequestInternal(s, p.of, luck)
  PROVE  Sound(T, 0) /\ Leads(C, T)
<1>1. Nearly(C, 0) /\ C \in Client
  BY DEF Sound, Nearly
<1>2. /\ p \in Posts(C) /\ p \in Post /\ p.of \in RequestIds
      /\ SendsOnce(C) => p \notin Posts(s)
  BY <1>1, PoppedIs
<1>3. /\ Nearly(s, 0) /\ Sound(s, 0) /\ Leads(C, s)
      /\ s.request = C.request /\ s.begun = C.begun
  <2>1. Ready(C, p, 0)
    BY <1>1 DEF Ready
  <2> QED BY <1>1, <2>1, PoppedSound DEF Leads
<1>4. p = [do |-> "send", of |-> p.of]
  BY <1>2 DEF Post
<1>5. Does(C, "send", p.of)
  BY <1>2, <1>4 DEF Does
<1>6. C.request[p.of].work # "none" /\ p.of \notin C.begun
  BY <1>1, <1>2, <1>5 DEF Nearly, Tied, Unnamed
<1>7. ASSUME world.steady, Modern, live(s, p.of)
      PROVE  ~Does(s, "send", p.of) /\ ~s.request[p.of].task /\ ~Awaited(s, p.of)
  <2>1. SendsOnce(C) /\ ~C.request[p.of].task /\ ~Awaited(C, p.of)
    BY <1>1, <1>2, <1>3, <1>5, <1>7 DEF Nearly, OneWay, live
  <2>2. ~Does(s, "send", p.of)
    BY <1>2, <1>4, <2>1 DEF Does
  <2> QED BY <1>3, <2>1, <2>2 DEF Awaited, live
<1>8. Clear(s, p.of)
  BY <1>3, <1>6, <1>7 DEF Clear
<1>9. Sound(T, 0) /\ Leads(s, T)
  BY ONLY <1>2, <1>3, <1>8, SendIs, luck \in Lucks, T = sendRequestInternal(s, p.of, luck)
<1> QED BY ONLY <1>3, <1>9, LeadsOn

\* Whom a cancellation or a clock finds is given up.
LEMMA FoundIs ==
  ASSUME NEW s, Sound(s, 0), Free(s) # {}, NEW o, NEW i \in Known(s, o),
         NEW how \in Hows, Abandon(s, i, how)
  PROVE  Sound(client', 0) /\ Follows(s, client')
<1>1. Nearly(s, 0) /\ s \in Client /\ i \in RequestIds /\ i \in s.tracked
  BY ClientIs DEF Sound, Nearly, Known
<1>2. live(s, i) /\ i \notin s.begun
  BY <1>1 DEF Nearly, Tied, Unnamed
<1>3. Sound(s, i)
  BY <1>1, <1>2, Singled
<1> QED BY <1>1, <1>2, <1>3, AbandonedIs

\* runCallbacks.
LEMMA PostedIs ==
  ASSUME Sound(client, 0), Posted
  PROVE  Sound(client', 0) /\ Follows(client, client')
<1>1. PICK C, T : C = client /\ T = client'
  OBVIOUS
<1>2. C.queue # <<>> /\ Free(C) # {} /\ Sound(C, 0) /\ Nearly(C, 0) /\ C \in Client
  BY <1>1 DEF Posted, Sound, Nearly
<1>3. PICK p \in {Head(client.queue)}, s \in {[client EXCEPT !.queue = Tail(@)]} :
      \/ /\ p.do = "start" /\ Known(s, p.of) # {}
         /\ client' = [s EXCEPT !.clock[p.of] = Armed(s, p.of, Timeout)]
      \/ p.do = "stop" /\ client' = [s EXCEPT !.clock[p.of] = Off]
      \/ p.do = "close" /\ client' = [s EXCEPT !.own = @ \ {p.of}, !.wire = @ \ {p.of}]
      \/ p.do = "send" /\ \E luck \in Lucks : client' = sendRequestInternal(s, p.of, luck)
      \/ p.do = "abandon" /\ \E i \in Known(s, p.of) : Abandon(s, i, "cancelled")
      \/ p.do \in {"start", "abandon"} /\ Known(s, p.of) = {} /\ client' = s
  BY Zenon DEF Posted
<1>4. p = Head(C.queue) /\ s = Popped(C)
  BY <1>1 DEF Popped
<1>5. p \in Posts(C) /\ p \in Post /\ p.of \in RequestIds /\ s = [C EXCEPT !.queue = s.queue]
  BY ONLY <1>2, <1>4, PoppedIs
<1>6. SUFFICES Sound(T, 0) /\ Follows(C, T)
  BY <1>1, Zenon
<1>7. CASE p.do = "start" /\ client' = [s EXCEPT !.clock[p.of] = Armed(s, p.of, Timeout)]
  <2>1. Sound(T, 0) /\ Leads(C, T)
    BY <1>1, <1>2, <1>4, <1>7, StartRuns
  <2> QED BY ONLY <2>1, LeadsFollows
<1>8. CASE p.do = "stop" /\ client' = [s EXCEPT !.clock[p.of] = Off]
  <2>1. Sound(T, 0) /\ Leads(C, T)
    BY <1>1, <1>2, <1>4, <1>8, StopRuns
  <2> QED BY ONLY <2>1, LeadsFollows
<1>9. CASE p.do = "close" /\ client' = [s EXCEPT !.own = @ \ {p.of}, !.wire = @ \ {p.of}]
  <2>1. Sound(T, 0) /\ Leads(C, T)
    BY <1>1, <1>2, <1>4, <1>9, CloseRuns
  <2> QED BY ONLY <2>1, LeadsFollows
<1>10. CASE p.do = "send" /\ \E luck \in Lucks : client' = sendRequestInternal(s, p.of, luck)
  <2>1. PICK luck \in Lucks : T = sendRequestInternal(s, p.of, luck)
    BY <1>1, <1>10
  <2>2. Sound(T, 0) /\ Leads(C, T)
    BY <1>2, <1>4, <1>10, <2>1, SendRuns
  <2> QED BY ONLY <2>2, LeadsFollows
<1>11. CASE p.do = "abandon" /\ \E i \in Known(s, p.of) : Abandon(s, i, "cancelled")
  <2>. PICK how : how = "cancelled"
    OBVIOUS
  <2>1. PICK i \in Known(s, p.of) : Abandon(s, i, how)
    BY <1>11, Zenon
  <2>2. how \in Hows
    BY ONLY how = "cancelled" DEF Hows, Answers
  <2>3. Ready(C, p, 0)
    BY ONLY <1>2, <1>4, <1>11 DEF Ready
  <2>4. Sound(s, 0) /\ Leads(C, s) /\ Free(C) \subseteq Free(s)
    <3>1. Sound(s, 0) /\ Leads(C, s)
      BY ONLY <1>2, <1>4, <2>3, PoppedSound
    <3>2. Free(C) \subseteq Free(s)
      BY ONLY <1>2, <1>4, PoppedFree
    <3> QED BY ONLY <3>1, <3>2
  <2>5. Sound(client', 0) /\ Follows(s, client')
    BY ONLY <1>2, <2>1, <2>2, <2>4, FoundIs, i \in Known(s, p.of)
  <2>6. client' \in Client
    BY ONLY <2>5 DEF Sound, Nearly
  <2> QED BY ONLY <1>1, <2>4, <2>5, <2>6, FollowsOn
<1>12. CASE p.do \in {"start", "abandon"} /\ Known(s, p.of) = {} /\ client' = s
  <2>1. ASSUME NEW k \in RequestIds, ~world.threads, calling(C, k), C.request[k].origin = p.of
        PROVE  FALSE
    <3>1. k \in C.tracked
      BY <1>2, <2>1, Constants DEF Nearly, Tied, calling
    <3>2. s.tracked = C.tracked /\ s.request = C.request
      BY ONLY <1>2, <1>5 DEF Client
    <3> QED BY <1>12, <2>1, <3>1, <3>2 DEF Known
  <2>2. Ready(C, p, 0)
    BY <1>2, <1>4, <1>12, <2>1 DEF Ready
  <2>3. Sound(s, 0) /\ Leads(C, s)
    BY ONLY <1>2, <1>4, <2>2, PoppedSound
  <2>4. T = s
    BY <1>1, <1>12
  <2> QED BY ONLY <2>3, <2>4, LeadsFollows
<1> QED BY <1>3, <1>7, <1>8, <1>9, <1>10, <1>11, <1>12

\* onRequestTimedOut.
LEMMA TimerFiresIs ==
  ASSUME Sound(client, 0), TimerFires
  PROVE  Sound(client', 0) /\ Follows(client, client')
<1>1. PICK C, T, v : C = client /\ T = client' /\ v = Off
  OBVIOUS
<1>2. Free(C) # {} /\ Sound(C, 0) /\ Nearly(C, 0) /\ C \in Client
  BY <1>1 DEF TimerFires, Sound, Nearly
<1>0. PICK o \in {m \in RequestIds : client.clock[m] = 0} :
        \E s \in {[client EXCEPT !.clock[o] = Off]} :
          \/ onRequestTimedOut(s, o) = {} /\ client' = s
          \/ \E i \in onRequestTimedOut(s, o) : Abandon(s, i, "timed out")
  BY Zenon DEF TimerFires
<1>3. PICK s \in {[client EXCEPT !.clock[o] = Off]} :
        \/ onRequestTimedOut(s, o) = {} /\ client' = s
        \/ \E i \in onRequestTimedOut(s, o) : Abandon(s, i, "timed out")
  BY <1>0, Zenon
<1>4. o \in RequestIds /\ C.clock[o] = 0 /\ s = Clocked(C, o, v)
  BY <1>1, <1>3 DEF Clocked
<1>5. v \in 0..Off /\ v = Off
  BY <1>1, Constants
<1>6. s.request = C.request /\ s.tracked = C.tracked
  BY ONLY <1>2, <1>4 DEF Clocked, Client
<1>7. SUFFICES Sound(T, 0) /\ Follows(C, T)
  BY <1>1, Zenon
<1>8. CASE Known(s, o) = {} /\ client' = s
  <2>1. \A k \in RequestIds :
          ~world.threads /\ calling(C, k) /\ ~C.request[k].task /\ C.request[k].origin = o => FALSE
    BY <1>2, <1>6, <1>8, Constants DEF Nearly, Tied, calling, Known
  <2>2. Sound(s, 0) /\ Leads(C, s)
    BY ONLY <1>2, <1>4, <1>5, <2>1, ClockedIs
  <2>3. T = s
    BY <1>1, <1>8
  <2> QED BY ONLY <2>2, <2>3, LeadsFollows
<1>9. CASE \E i \in Known(s, o) : Abandon(s, i, "timed out")
  <2>. PICK how : how = "timed out"
    OBVIOUS
  <2>1. PICK i \in Known(s, o) : Abandon(s, i, how)
    BY <1>9, Zenon
  <2>2. how \in Hows
    BY ONLY how = "timed out" DEF Hows, Answers
  <2>3. i \in RequestIds /\ i \in C.tracked /\ C.request[i].origin = o
    BY ONLY <1>2, <1>6, i \in Known(s, o), ClientIs DEF Known
  <2>4. live(C, i) /\ i \notin C.begun
    BY ONLY <1>2, <2>3 DEF Nearly, Tied, Unnamed
  <2>5. Sound(C, i) /\ Nearly(C, i)
    BY ONLY <1>2, <2>3, <2>4, Singled DEF Sound
  <2>6. ASSUME NEW k \in RequestIds, calling(C, k), C.request[k].origin = o
        PROVE  k = i
    <3>1. CASE calling(C, i)
      BY ONLY <1>2, <2>3, <2>6, <3>1, k \in RequestIds DEF Nearly, Promised
    <3>2. CASE ~calling(C, i)
      <4>1. C.request[i].origin = i
        BY ONLY <1>2, <2>3, <2>4, <3>2 DEF Nearly, Called, calling
      <4>2. o = i /\ i \in Calls
        BY ONLY <1>2, <2>3, <2>6, <4>1, k \in RequestIds DEF Nearly, Called, calling
      <4>3. C.request[i].work = "call"
        BY ONLY <1>2, <2>4, <4>2 DEF Nearly, Called, live
      <4> QED BY ONLY <2>4, <3>2, <4>3 DEF calling
    <3> QED BY ONLY <3>1, <3>2
  <2>7. Nearly(s, i) /\ Sound(s, i) /\ Leads(C, s) /\ s.begun = C.begun
    BY ONLY <1>4, <1>5, <2>5, <2>6, ClockedIs
  <2>8. live(s, i) /\ i \notin s.begun
    BY ONLY <1>6, <2>4, <2>7 DEF live
  <2>9. Free(s) # {}
    <3>1. PICK k : k \in Free(C)
      BY ONLY <1>2
    <3>2. /\ s.wire = C.wire /\ s.own = C.own /\ s.waiting = C.waiting
          /\ s.polling = C.polling /\ s.queue = C.queue /\ s.held = C.held
          /\ s.clock \in [RequestIds -> 0..Off] /\ C.clock \in [RequestIds -> 0..Off]
          /\ s.clock = [C.clock EXCEPT ![o] = v] /\ s \in Client
      <4>1. s \in Client
        BY ONLY <2>7 DEF Leads
      <4> QED BY ONLY <1>2, <1>4, <4>1 DEF Clocked, Client
    <3>3. Posts(s) = Posts(C) /\ Holds(s) = Holds(C)
      BY ONLY <3>2 DEF Posts, Holds
    <3>4. k \in RequestIds
      BY ONLY <1>2, <3>1, FreeIs
    <3>5. C.clock[k] = Off => s.clock[k] = Off
      BY ONLY <1>4, <1>5, <3>2, <3>4
    <3>6. k \in Free(s)
      BY ONLY <1>2, <1>6, <3>1, <3>2, <3>3, <3>5, FreeIs
    <3> QED BY ONLY <3>6
  <2>10. Sound(client', 0) /\ Follows(s, client')
    BY ONLY <2>1, <2>2, <2>3, <2>7, <2>8, <2>9, AbandonedIs
  <2>11. client' \in Client
    BY ONLY <2>10 DEF Sound, Nearly
  <2> QED BY ONLY <1>1, <2>7, <2>10, <2>11, FollowsOn
<1> QED BY <1>3, <1>8, <1>9 DEF onRequestTimedOut

\* routeProgress.
LEMMA ProgressIs ==
  ASSUME Sound(client, 0), Progress
  PROVE  Sound(client', 0) /\ Follows(client, client')
<1>1. PICK C, T : C = client /\ T = client'
  OBVIOUS
<1>2. Sound(C, 0) /\ Nearly(C, 0) /\ C \in Client
  BY <1>1 DEF Sound, Nearly
<1>3. PICK i \in C.tracked :
        /\ C.clock[C.request[i].origin] # Off
        /\ T = [C EXCEPT !.clock[C.request[i].origin] = Armed(C, C.request[i].origin, Timeout)]
  BY <1>1 DEF Progress
<1>4. PICK o, v : o = C.request[i].origin /\ v = Armed(C, o, Timeout)
  OBVIOUS
<1>5. o \in RequestIds /\ C.age[o] \in 0..Off /\ C.clock[o] \in 0..Off /\ C.clock[o] # Off
  BY <1>2, <1>3, <1>4, ClientIs, ContextIs
<1>6. C.age[o] + C.clock[o] <= MaxTime
  BY <1>2, <1>5 DEF Nearly, Timed
<1>7. v \in 0..Off /\ v # Off /\ C.age[o] + v <= MaxTime
  BY ONLY <1>4, <1>5, <1>6, RequestsAssumption DEF Armed, Off
<1>8. T = Clocked(C, o, v)
  BY <1>3, <1>4 DEF Clocked
<1>9. Sound(T, 0) /\ Leads(C, T)
  BY ONLY <1>2, <1>5, <1>7, <1>8, ClockedIs
<1> QED BY <1>1, <1>9, LeadsFollows

\* cancelRequest.
LEMMA CancelIs ==
  ASSUME Sound(client, 0), cancelRequest
  PROVE  Sound(client', 0) /\ Follows(client, client')
<1>1. PICK C, T : C = client /\ T = client'
  OBVIOUS
<1>2. Sound(C, 0) /\ Nearly(C, 0) /\ C \in Client
  BY <1>1 DEF Sound, Nearly
<1>3. PICK c \in Calls : Known(C, c) # {} /\ T = Put(C, "abandon", c)
  BY <1>1 DEF cancelRequest
<1>4. PICK i \in C.tracked : C.request[i].origin = c
  BY <1>3 DEF Known
<1>5. i \in RequestIds /\ c \in RequestIds /\ live(C, i)
  BY <1>2, <1>4, Constants, ClientIs DEF Nearly, Tied
<1>6. C.request[c].work # "none"
  <2>1. CASE C.request[i].work = "call"
    BY <1>2, <1>4, <1>5, <2>1 DEF Nearly, Called
  <2>2. CASE C.request[i].work # "call"
    BY <1>2, <1>4, <1>5, <2>2 DEF Nearly, Called, live
  <2> QED BY <2>1, <2>2
<1>7. /\ T \in Client /\ T = [C EXCEPT !.queue = T.queue]
      /\ Posts(T) = Posts(C) \cup {[do |-> "abandon", of |-> c]}
      /\ SendsOnce(C) => SendsOnce(T)
  BY ONLY <1>2, <1>3, <1>5, AbandonIs
<1>8. /\ T.request = C.request /\ T.tracked = C.tracked /\ T.answer = C.answer
      /\ T.held = C.held /\ T.reinitializing = C.reinitializing /\ T.begun = C.begun
      /\ T.wire = C.wire /\ T.waiting = C.waiting /\ T.polling = C.polling /\ T.own = C.own
      /\ T.age = C.age /\ T.clock = C.clock /\ T.net = C.net
  BY ONLY <1>2, <1>7 DEF Client
<1>9. \A p \in Posts(T) \ Posts(C) : C.request[p.of].work # "none" /\ p.do # "send"
  BY <1>6, <1>7
<1>10. Moved(C, T, 0)
  BY <1>2, <1>7, <1>8, <1>9 DEF Moved, Nearly, Called
<1>11. /\ \A k \in RequestIds : live(T, k) <=> live(C, k)
       /\ \A k \in RequestIds : calling(T, k) <=> calling(C, k)
       /\ C.own \subseteq RequestIds
       /\ \A k \in RequestIds : C.request[k].origin \in RequestIds
  BY <1>2, <1>8, ClientIs, ContextIs DEF live, calling
<1>12. \A k \in RequestIds :
         /\ Does(T, "start", k) <=> Does(C, "start", k)
         /\ Does(T, "stop", k) <=> Does(C, "stop", k)
         /\ Does(T, "close", k) <=> Does(C, "close", k)
  BY <1>7 DEF Does
<1>13. Timed(T, 0)
  BY <1>2, <1>8, <1>11, <1>12 DEF Nearly, Timed
<1>14. Owned(T)
  BY <1>2, <1>8, <1>11, <1>12 DEF Nearly, Owned
<1>15. Sound(T, 0) /\ Leads(C, T)
  BY ONLY <1>2, <1>10, <1>13, <1>14, MovedSound
<1> QED BY <1>1, <1>15, LeadsFollows

\* Time passes.
LEMMA TickIs ==
  ASSUME Sound(client, 0), Tick
  PROVE  Sound(client', 0) /\ Follows(client, client')
<1>1. PICK C, T : C = client /\ T = client'
  OBVIOUS
<1>2. Sound(C, 0) /\ Nearly(C, 0) /\ C \in Client
  BY <1>1 DEF Sound, Nearly
<1>3. /\ C.queue = <<>> /\ \A o \in RequestIds : C.clock[o] # 0
      /\ T = [C EXCEPT
               !.age = [o \in RequestIds |->
                          IF Known(C, o) = {} /\ o \notin C.begun THEN 0
                          ELSE IF C.age[o] < Off THEN C.age[o] + 1 ELSE Off],
               !.clock = [o \in RequestIds |-> IF C.clock[o] = Off THEN Off ELSE C.clock[o] - 1]]
  BY <1>1 DEF Tick, Client
<1>4. PICK ages, clocks :
        /\ ages = [o \in RequestIds |->
                     IF Known(C, o) = {} /\ o \notin C.begun THEN 0
                     ELSE IF C.age[o] < Off THEN C.age[o] + 1 ELSE Off]
        /\ clocks = [o \in RequestIds |-> IF C.clock[o] = Off THEN Off ELSE C.clock[o] - 1]
  OBVIOUS
<1>5. T = [C EXCEPT !.age = ages, !.clock = clocks]
  BY ONLY <1>3, <1>4
<1>6. \A o \in RequestIds : C.age[o] \in 0..Off /\ C.clock[o] \in 0..Off
  BY ONLY <1>2, ClientIs
<1>7. ages \in [RequestIds -> 0..Off] /\ clocks \in [RequestIds -> 0..Off]
  <2>1. Off \in Nat
    BY ONLY Constants
  <2>2. \A o \in RequestIds : ages[o] \in 0..Off /\ clocks[o] \in 0..Off
    BY ONLY <1>3, <1>4, <1>6, <2>1
  <2> QED BY ONLY <1>4, <2>2
<1>8. /\ T \in Client
      /\ T.request = C.request /\ T.tracked = C.tracked /\ T.answer = C.answer
      /\ T.held = C.held /\ T.reinitializing = C.reinitializing /\ T.begun = C.begun
      /\ T.wire = C.wire /\ T.waiting = C.waiting /\ T.polling = C.polling /\ T.own = C.own
      /\ T.queue = C.queue /\ T.net = C.net /\ T.age = ages /\ T.clock = clocks
  BY ONLY <1>2, <1>5, <1>7 DEF Client
<1>9. Posts(C) = {} /\ Posts(T) = {} /\ SendsOnce(T)
  BY ONLY <1>3, <1>8 DEF Posts, SendsOnce
<1>10. \A k \in RequestIds :
         /\ live(T, k) <=> live(C, k)
         /\ calling(T, k) <=> calling(C, k)
  BY ONLY <1>8 DEF live, calling
<1>11. ASSUME NEW c \in Calls, C.answer[c] = "unsent" PROVE T.age[c] = 0
  <2>1. c \in RequestIds /\ C.request[c].work = "none"
    BY <1>2, <1>11, Constants DEF Nearly, Called
  <2>2. Known(C, c) = {}
    <3> SUFFICES ASSUME NEW i \in C.tracked, C.request[i].origin = c PROVE FALSE
      BY DEF Known
    <3>1. i \in RequestIds /\ live(C, i)
      BY <1>2, ClientIs DEF Nearly, Tied
    <3> QED BY <1>2, <1>11, <2>1, <3>1 DEF Nearly, Called, live
  <2>3. c \notin C.begun
    BY <1>2, <2>1 DEF Nearly, Tied, calling, live
  <2> QED BY <1>4, <1>8, <2>1, <2>2, <2>3
<1>12. Moved(C, T, 0)
  BY <1>2, <1>8, <1>9, <1>11 DEF Moved
<1>13. Timed(T, 0)
  <2> SUFFICES ASSUME NEW k \in RequestIds
               PROVE  /\ T.clock[k] # Off => T.age[k] + T.clock[k] <= MaxTime
                      /\ Does(T, "start", k) => T.age[k] = 0
                      /\ Does(T, "stop", k) => \A i \in RequestIds : live(T, i) => T.request[i].origin # k
                      /\ ~world.threads =>
                           (calling(T, k) /\ k # 0 /\ ~T.request[k].task =>
                              T.clock[T.request[k].origin] # Off
                                \/ Does(T, "start", T.request[k].origin))
    BY DEF Timed
  <2>1. T.clock[k] # Off => T.age[k] + T.clock[k] <= MaxTime
    <3>1. C.clock[k] # Off => C.age[k] + C.clock[k] <= MaxTime
      BY <1>2 DEF Nearly, Timed
    <3>2. PICK a, b : a = C.age[k] /\ b = C.clock[k]
      OBVIOUS
    <3>3. /\ ages[k] = 0 \/ ages[k] = IF a < Off THEN a + 1 ELSE Off
          /\ clocks[k] = IF b = Off THEN Off ELSE b - 1
          /\ a \in 0..Off /\ b \in 0..Off /\ b # 0
      BY ONLY <1>3, <1>4, <1>6, <3>2, k \in RequestIds
    <3> QED BY ONLY <1>8, <3>1, <3>2, <3>3, RequestsAssumption DEF Off
  <2>2. ~Does(T, "start", k) /\ ~Does(T, "stop", k)
    BY <1>9 DEF Does
  <2>3. ASSUME ~world.threads, calling(T, k), k # 0, ~T.request[k].task
        PROVE  T.clock[T.request[k].origin] # Off
    <3>1. PICK o : o = C.request[k].origin
      OBVIOUS
    <3>2. o \in RequestIds /\ C.clock[o] # Off
      <4>1. o \in RequestIds
        BY <1>2, <3>1, ClientIs, ContextIs
      <4>2. ~Does(C, "start", o)
        BY <1>9 DEF Does
      <4> QED BY <1>2, <1>8, <1>10, <2>3, <3>1, <4>1, <4>2 DEF Nearly, Timed
    <3>3. clocks[o] # Off
      BY ONLY <1>3, <1>4, <1>6, <3>2, Constants
    <3> QED BY ONLY <1>8, <3>1, <3>3
  <2> QED BY <2>1, <2>2, <2>3
<1>14. Owned(T)
  BY <1>2, <1>8, <1>9 DEF Nearly, Owned, Does, live
<1>15. Sound(T, 0) /\ Leads(C, T)
  BY ONLY <1>2, <1>12, <1>13, <1>14, MovedSound
<1> QED BY <1>1, <1>15, LeadsFollows

\* The call c, of which nobody else knew, as it begins: tracked, or begun by
\* another thread.
Entered(S, c, r, tracked, begun) ==
  [S EXCEPT !.answer[c] = "waiting", !.request[c] = r, !.tracked = tracked, !.begun = begun,
            !.queue = Append(@, [do |-> "start", of |-> c])]

\* T is what Entered makes of S.
IsEntered(S, c, r, tracked, begun, T) ==
  /\ T \in Client /\ T.request[c] = r /\ T.answer[c] = "waiting"
  /\ \A k \in RequestIds : k # c => T.request[k] = S.request[k]
  /\ \A d \in Calls : d # c => T.answer[d] = S.answer[d]
  /\ T.tracked = tracked /\ T.begun = begun /\ T.age = S.age /\ T.clock = S.clock
  /\ T.waiting = S.waiting /\ T.polling = S.polling /\ T.net = S.net
  /\ T.wire = S.wire /\ T.own = S.own /\ T.held = S.held
  /\ T.reinitializing = S.reinitializing /\ Holds(T) = Holds(S)
  /\ Posts(T) = Posts(S) \cup {[do |-> "start", of |-> c]}
  /\ SendsOnce(S) => SendsOnce(T)

LEMMA EnteredIs ==
  ASSUME NEW S \in Client, NEW c \in Calls, NEW r \in Context,
         NEW tracked \in SUBSET RequestIds, NEW begun \in SUBSET Calls,
         NEW T, T = Entered(S, c, r, tracked, begun)
  PROVE  IsEntered(S, c, r, tracked, begun, T)
<1>1. c \in RequestIds /\ S.request \in [RequestIds -> Context] /\ S.answer \in [Calls -> Answers]
  BY Constants, ClientIs
<1>2. PICK U : U = Put(S, "start", c)
  OBVIOUS
<1>3. /\ U \in Client /\ U = [S EXCEPT !.queue = U.queue]
      /\ Posts(U) = Posts(S) \cup {[do |-> "start", of |-> c]}
      /\ SendsOnce(S) => SendsOnce(U)
  BY ONLY <1>1, <1>2, S \in Client, StartIs
<1>4. U.queue = Append(S.queue, [do |-> "start", of |-> c])
  BY <1>2 DEF Put, Client
<1>5. PICK waits : waits = "waiting"
  OBVIOUS
<1>6. waits \in Answers
  BY <1>5 DEF Answers
<1>7. PICK requests, answers :
        requests = [S.request EXCEPT ![c] = r] /\ answers = [S.answer EXCEPT ![c] = waits]
  OBVIOUS
<1>8. /\ requests \in [RequestIds -> Context] /\ answers \in [Calls -> Answers]
      /\ requests[c] = r /\ answers[c] = waits
      /\ \A k \in RequestIds : k # c => requests[k] = S.request[k]
      /\ \A d \in Calls : d # c => answers[d] = S.answer[d]
  BY ONLY <1>1, <1>6, <1>7, c \in Calls, r \in Context
<1>9. T = [S EXCEPT !.answer = answers, !.request = requests, !.tracked = tracked,
                    !.begun = begun, !.queue = U.queue]
  BY <1>4, <1>5, <1>7 DEF Entered, Client
<1>10. U.queue \in Seq(Post)
  BY ONLY <1>3, ClientIs
<1>11. /\ T \in Client /\ T.request = requests /\ T.answer = answers /\ T.queue = U.queue
       /\ T.tracked = tracked /\ T.begun = begun /\ T.age = S.age /\ T.clock = S.clock
       /\ T.waiting = S.waiting /\ T.polling = S.polling /\ T.net = S.net
       /\ T.wire = S.wire /\ T.own = S.own /\ T.held = S.held
       /\ T.reinitializing = S.reinitializing
  BY ONLY <1>8, <1>9, <1>10, S \in Client, tracked \in SUBSET RequestIds, begun \in SUBSET Calls
     DEF Client
<1>12. Posts(T) = Posts(U) /\ (SendsOnce(U) => SendsOnce(T))
  BY ONLY <1>11 DEF Posts, SendsOnce
<1>13. Holds(T) = Holds(S)
  BY ONLY <1>11 DEF Holds
<1> QED BY <1>3, <1>5, <1>8, <1>11, <1>12, <1>13 DEF IsEntered

\* Before its caller made it, nobody could have known of it.
LEMMA UnsentIs ==
  ASSUME NEW S, Nearly(S, 0), NEW c \in Calls, S.answer[c] = "unsent"
  PROVE  /\ S.request[c].work = "none" /\ S.age[c] = 0 /\ c \in RequestIds
         /\ Unnamed(S, c) /\ c \notin S.begun
         /\ \A p \in Posts(S) : p.of # c
         /\ \A k \in RequestIds : S.request[k].work = "call" => S.request[k].origin # c
<1>1. S \in Client /\ Called(S) /\ Tied(S, 0) /\ c \in RequestIds
  BY Constants DEF Nearly
<1>2. S.request[c].work = "none" /\ S.age[c] = 0
  BY <1>1 DEF Called
<1>3. \A p \in Posts(S) : p.of # c
  BY <1>1, <1>2 DEF Tied
<1>4. ~Does(S, "send", c)
  BY <1>3 DEF Does
<1>5. c \notin S.tracked \cup S.wire \cup S.own \cup S.waiting \cup S.polling \cup Holds(S)
  BY <1>1, <1>2 DEF Tied, live
<1>6. ASSUME NEW k \in RequestIds, live(S, k) PROVE S.request[k].after # c
  <2>1. c # 0
    BY <1>1, Constants
  <2> QED BY <1>1, <1>2, <1>6, <2>1 DEF Called
<1>7. c \notin S.begun
  BY <1>1, <1>2 DEF Tied, calling, live
<1>8. \A k \in RequestIds : S.request[k].work = "call" => S.request[k].origin # c
  BY <1>1 DEF Called
<1> QED BY <1>1, <1>2, <1>3, <1>4, <1>5, <1>6, <1>7, <1>8 DEF Unnamed

\* What callers have been told stands.
Kept(S, T) == \A d \in Calls : S.answer[d] \in Hows => T.answer[d] = S.answer[d]

LEMMA EnteredSound ==
  ASSUME NEW S, Sound(S, 0), NEW c \in Calls, S.answer[c] = "unsent",
         NEW r \in Context, r.work = "call", r.origin = c, r.after = 0,
         ~r.settled, ~r.task, NEW tracked, NEW begun,
         \/ tracked = S.tracked \cup {c} /\ begun = S.begun
         \/ tracked = S.tracked /\ begun = S.begun \cup {c} /\ world.threads,
         NEW T, T = Entered(S, c, r, tracked, begun)
  PROVE  /\ Sound(T, 0) /\ T.wire = S.wire /\ c \notin T.wire
         /\ Kept(S, T)
         /\ c \in tracked => Clear(T, c)
         /\ live(T, c) /\ T.request[c] = r
<1>1. /\ Nearly(S, 0) /\ S \in Client
      /\ tracked \in SUBSET RequestIds /\ begun \in SUBSET Calls
  BY Constants, ClientIs DEF Sound, Nearly
<1>2. /\ S.request[c].work = "none" /\ S.age[c] = 0 /\ c \in RequestIds
      /\ Unnamed(S, c) /\ c \notin S.begun
      /\ \A p \in Posts(S) : p.of # c
      /\ \A k \in RequestIds : S.request[k].work = "call" => S.request[k].origin # c
  BY <1>1, UnsentIs
<1>3. /\ T \in Client /\ T.request[c] = r /\ T.answer[c] = "waiting"
      /\ \A k \in RequestIds : k # c => T.request[k] = S.request[k]
      /\ \A d \in Calls : d # c => T.answer[d] = S.answer[d]
      /\ T.tracked = tracked /\ T.begun = begun /\ T.age = S.age /\ T.clock = S.clock
      /\ T.waiting = S.waiting /\ T.polling = S.polling /\ T.net = S.net
      /\ T.wire = S.wire /\ T.own = S.own /\ T.held = S.held
      /\ T.reinitializing = S.reinitializing /\ Holds(T) = Holds(S)
      /\ Posts(T) = Posts(S) \cup {[do |-> "start", of |-> c]}
      /\ SendsOnce(S) => SendsOnce(T)
  <2>1. IsEntered(S, c, r, tracked, begun, T)
    BY ONLY <1>1, EnteredIs, c \in Calls, r \in Context, T = Entered(S, c, r, tracked, begun)
  <2> QED BY ONLY <2>1 DEF IsEntered
<1>4. /\ live(T, c) /\ calling(T, c) /\ ~live(S, c) /\ ~shaking(T, c)
      /\ T.request[c].work = "call" /\ T.request[c].origin = c /\ T.request[c].after = 0
      /\ ~T.request[c].settled /\ ~T.request[c].task
  BY <1>2, <1>3 DEF live, calling, shaking
<1>5. /\ \A k \in RequestIds : live(T, k) <=> live(S, k) \/ k = c
      /\ \A k \in RequestIds : calling(T, k) <=> calling(S, k) \/ k = c
      /\ \A k \in RequestIds : shaking(T, k) <=> shaking(S, k)
  BY <1>3, <1>4 DEF live, calling, shaking
<1>6. \A j, i \in RequestIds : polls(T, j, i) <=> polls(S, j, i)
  BY <1>3, <1>4 DEF polls, live
<1>7. \A k \in RequestIds : Awaited(T, k) <=> Awaited(S, k)
  BY <1>3, <1>4 DEF Awaited, live
<1>8. \A k \in RequestIds :
        /\ Does(T, "start", k) <=> Does(S, "start", k) \/ k = c
        /\ Does(T, "stop", k) <=> Does(S, "stop", k)
        /\ Does(T, "send", k) <=> Does(S, "send", k)
        /\ Does(T, "close", k) <=> Does(S, "close", k)
  BY <1>3 DEF Does
<1>9. ~Does(S, "stop", c) /\ ~Does(S, "send", c)
  BY <1>2 DEF Does
<1>10. c \notin S.tracked \cup S.wire \cup S.own \cup S.waiting \cup S.polling \cup Holds(S)
  BY <1>2 DEF Unnamed
<1>11. /\ S.wire \subseteq RequestIds /\ S.own \subseteq RequestIds
       /\ S.waiting \subseteq RequestIds /\ S.polling \subseteq RequestIds
       /\ Holds(S) \subseteq RequestIds /\ S.tracked \subseteq RequestIds
       /\ \A p \in Posts(S) : p.of \in RequestIds
       /\ \A k \in RequestIds : /\ S.request[k].after \in RequestIds \cup {0}
                                /\ S.request[k].origin \in RequestIds
  BY <1>1, ClientIs, ContextIs
<1>12. Called(T)
  <2>1. Called(S) /\ 0 \notin RequestIds /\ Calls \subseteq RequestIds
    BY <1>1, Constants DEF Nearly
  <2>2. \A i \in RequestIds :
          /\ T.request[i].work = "call" =>
               T.request[i].origin \in Calls /\ T.answer[T.request[i].origin] # "unsent"
          /\ T.request[i].work # "call" => T.request[i].origin = i
          /\ T.request[i].work \in {"poll", "list"} => T.request[i].after \in RequestIds
          /\ T.request[i].work \notin {"poll", "list"} => T.request[i].after = 0
          /\ T.request[i].task /\ ~T.request[i].settled => T.request[i].work = "call" /\ Modern
    BY <1>2, <1>3, <1>4, <2>1 DEF Called
  <2>3. \A i \in RequestIds :
          live(T, i) /\ T.request[i].after # 0 => T.request[T.request[i].after].work = "call"
    BY <1>3, <1>4, <1>5, <1>11, <2>1 DEF Called
  <2>4. \A d \in Calls :
          /\ T.request[d].work \in {"none", "call"}
          /\ T.request[d].work = "none" <=> T.answer[d] = "unsent"
          /\ T.answer[d] = "unsent" => T.age[d] = 0
    BY <1>3, <1>4, <2>1 DEF Called
  <2>5. \A i \in T.polling : T.request[i].work = "call"
    BY <1>3, <1>4, <1>11, <2>1 DEF Called
  <2> QED BY <2>2, <2>3, <2>4, <2>5 DEF Called
<1>13. Promised(T)
  <2>1. Promised(S)
    BY <1>1 DEF Nearly
  <2>2. \A k \in RequestIds : calling(S, k) => S.request[k].origin # c /\ k # c
    BY <1>2 DEF calling, live
  <2>3. ASSUME NEW i \in RequestIds, calling(T, i) PROVE T.answer[T.request[i].origin] = "waiting"
    <3>1. CASE i = c
      BY <1>3, <1>4, <3>1
    <3>2. CASE i # c
      <4>1. calling(S, i) /\ S.request[i].origin # c /\ S.request[i].origin \in Calls
        BY <1>1, <1>5, <2>2, <2>3, <3>2 DEF Nearly, Called, calling
      <4> QED BY <1>3, <2>1, <3>2, <4>1 DEF Promised
    <3> QED BY <3>1, <3>2
  <2>4. ASSUME NEW i \in RequestIds, NEW j \in RequestIds, calling(T, i), calling(T, j),
               T.request[i].origin = T.request[j].origin
        PROVE  i = j
    <3>1. CASE i = c \/ j = c
      BY <1>3, <1>4, <1>5, <2>2, <2>4, <3>1
    <3>2. CASE i # c /\ j # c
      BY <1>3, <1>5, <2>1, <2>4, <3>2 DEF Promised
    <3> QED BY <3>1, <3>2
  <2>5. ASSUME NEW d \in Calls, T.answer[d] = "waiting"
        PROVE  \E i \in RequestIds : calling(T, i) /\ T.request[i].origin = d
    <3>1. CASE d = c
      BY <1>2, <1>4, <3>1
    <3>2. CASE d # c
      <4>1. PICK i \in RequestIds : calling(S, i) /\ S.request[i].origin = d
        BY <1>3, <2>1, <2>5, <3>2 DEF Promised
      <4> QED BY <1>3, <1>5, <2>2, <4>1
    <3> QED BY <3>1, <3>2
  <2> QED BY <2>3, <2>4, <2>5 DEF Promised
<1>14. Tied(T, 0)
  <2>1. Tied(S, 0)
    BY <1>1 DEF Nearly
  <2>2. \A i \in T.tracked : live(T, i)
    BY <1>3, <1>4, <1>5, <1>11, <2>1 DEF Tied
  <2>3. \A i \in RequestIds : live(T, i) /\ i # 0 => i \in T.tracked \/ i \in T.begun
    BY <1>3, <1>5, <2>1 DEF Tied
  <2>4. ASSUME NEW d \in T.begun
        PROVE  /\ calling(T, d) /\ T.request[d].origin = d /\ ~T.request[d].task
               /\ Unnamed(T, d)
    <3>1. CASE d = c
      <4>1. c \notin T.tracked
        BY <1>2, <1>3, <1>10, <2>4, <3>1
      <4>2. \A j \in RequestIds : live(T, j) => T.request[j].after # c
        BY <1>2, <1>3, <1>4, <1>5, Constants DEF Unnamed
      <4>3. Unnamed(T, c)
        BY <1>2, <1>3, <1>8, <1>9, <1>10, <4>1, <4>2 DEF Unnamed
      <4> QED BY <1>4, <3>1, <4>3
    <3>2. CASE d # c
      <4>1. d \in S.begun /\ d \in RequestIds /\ d # 0
        BY <1>1, <1>3, <2>4, <3>2, Constants
      <4>2. calling(S, d) /\ S.request[d].origin = d /\ ~S.request[d].task /\ Unnamed(S, d)
        BY <2>1, <4>1 DEF Tied
      <4>3. \A j \in RequestIds : live(T, j) => T.request[j].after # d
        BY <1>3, <1>4, <1>5, <4>1, <4>2 DEF Unnamed
      <4>4. d \notin T.tracked
        BY <1>3, <3>2, <4>2 DEF Unnamed
      <4> QED BY <1>3, <1>5, <1>8, <3>2, <4>1, <4>2, <4>3, <4>4 DEF Unnamed
    <3> QED BY <3>1, <3>2
  <2>5. T.begun # {} => world.threads
    BY <1>3, <2>1 DEF Tied
  <2>6. \A i \in T.wire \cup T.own \cup T.waiting \cup T.polling \cup Holds(T) :
          T.request[i].work # "none"
    BY <1>3, <1>4, <1>11, <2>1 DEF Tied
  <2>7. \A p \in Posts(T) : T.request[p.of].work # "none"
    BY <1>3, <1>4, <1>11, <2>1 DEF Tied
  <2> QED BY <2>2, <2>3, <2>4, <2>5, <2>6, <2>7 DEF Tied
<1>15. Timed(T, 0)
  <2>1. Timed(S, 0)
    BY <1>1 DEF Nearly
  <2>2. ASSUME NEW k \in RequestIds
        PROVE  /\ T.clock[k] # Off => T.age[k] + T.clock[k] <= MaxTime
               /\ Does(T, "start", k) => T.age[k] = 0
    BY <1>2, <1>3, <1>8, <2>1 DEF Timed
  <2>3. ASSUME NEW k \in RequestIds, Does(T, "stop", k), NEW i \in RequestIds, live(T, i)
        PROVE  T.request[i].origin # k
    BY <1>3, <1>4, <1>5, <1>8, <1>9, <2>1, <2>3 DEF Timed
  <2>4. ASSUME NEW k \in RequestIds, ~world.threads, calling(T, k), ~T.request[k].task
        PROVE  T.clock[T.request[k].origin] # Off \/ Does(T, "start", T.request[k].origin)
    <3>1. CASE k = c
      BY <1>2, <1>4, <1>8, <3>1
    <3>2. CASE k # c
      <4>1. calling(S, k) /\ ~S.request[k].task /\ k # 0
        BY <1>3, <1>5, <2>4, <3>2, Constants
      <4>2. S.clock[S.request[k].origin] # Off \/ Does(S, "start", S.request[k].origin)
        BY <2>1, <2>4, <4>1 DEF Timed
      <4> QED BY <1>3, <1>8, <1>11, <3>2, <4>2
    <3> QED BY <3>1, <3>2
  <2> QED BY <2>2, <2>3, <2>4 DEF Timed
<1>16. Owned(T)
  BY <1>1, <1>3, <1>5, <1>8, <1>10, <1>11 DEF Nearly, Owned
<1>17. Shaken(T, 0)
  <2>1. Shaken(S, 0)
    BY <1>1 DEF Nearly
  <2>2. \A i, j \in RequestIds : shaking(T, i) /\ shaking(T, j) => i = j
    BY <1>5, <2>1 DEF Shaken
  <2>3. \A i \in RequestIds : shaking(T, i) => T.reinitializing
    BY <1>3, <1>5, <2>1 DEF Shaken
  <2>4. /\ T.held # <<>> => T.reinitializing
        /\ \A m, n \in 1..Len(T.held) : T.held[m] = T.held[n] => m = n
    BY <1>3, <2>1 DEF Shaken
  <2>5. \A i \in Holds(T) : /\ live(T, i) => T.request[i].session_retried
                            /\ world.steady => T.request[i].work = "call"
    BY <1>3, <1>5, <1>10, <1>11, <2>1 DEF Shaken
  <2> QED BY <2>2, <2>3, <2>4, <2>5 DEF Shaken
<1>18. Carried(T, 0)
  <2>1. Carried(S, 0)
    BY <1>1 DEF Nearly
  <2>2. SUFFICES ASSUME world.steady
                 PROVE  /\ T.net = "up" /\ T.waiting = {}
                        /\ \A i \in RequestIds :
                             /\ T.request[i].settled
                                  /\ T.request[i].work \in {"initialize", "poll", "list"} =>
                                    T.request[i].told
                             /\ live(T, i) /\ T.request[i].task =>
                                  i \in T.polling \/ \E j \in RequestIds : polls(T, j, i)
    BY DEF Carried
  <2>3. T.net = "up" /\ T.waiting = {}
    BY <1>3, <2>1, <2>2 DEF Carried
  <2>4. ASSUME NEW i \in RequestIds, i # c
        PROVE  /\ T.request[i].settled
                    /\ T.request[i].work \in {"initialize", "poll", "list"} => T.request[i].told
               /\ live(T, i) /\ T.request[i].task =>
                    i \in T.polling \/ \E j \in RequestIds : polls(T, j, i)
    BY <1>3, <1>5, <1>6, <2>1, <2>2, <2>4, Constants DEF Carried
  <2> QED BY <1>4, <2>3, <2>4
<1>19. OneWay(T)
  <2>1. OneWay(S)
    BY <1>1 DEF Nearly
  <2>2. SUFFICES ASSUME world.steady, Modern
                 PROVE  /\ T.held = <<>> /\ SendsOnce(T)
                        /\ \A i \in RequestIds : live(T, i) =>
                             /\ i \in T.wire => ~Does(T, "send", i) /\ ~T.request[i].task /\ ~Awaited(T, i)
                             /\ Does(T, "send", i) => ~T.request[i].task /\ ~Awaited(T, i)
                             /\ T.request[i].task => ~Awaited(T, i)
    BY DEF OneWay
  <2>3. T.held = <<>> /\ SendsOnce(T)
    BY <1>3, <2>1, <2>2 DEF OneWay
  <2>4. ASSUME NEW i \in RequestIds, live(T, i)
        PROVE  /\ i \in T.wire => ~Does(T, "send", i) /\ ~T.request[i].task /\ ~Awaited(T, i)
               /\ Does(T, "send", i) => ~T.request[i].task /\ ~Awaited(T, i)
               /\ T.request[i].task => ~Awaited(T, i)
    <3>1. CASE i = c
      BY <1>3, <1>4, <1>8, <1>9, <1>10, <3>1
    <3>2. CASE i # c
      BY <1>3, <1>5, <1>7, <1>8, <2>1, <2>2, <2>4, <3>2 DEF OneWay
    <3> QED BY <3>1, <3>2
  <2> QED BY <2>3, <2>4
<1>20. ShakingGoesOn(T, 0)
  BY <1>3, <1>5 DEF Sound, ShakingGoesOn
<1>21. Sound(T, 0)
  BY <1>3, <1>12, <1>13, <1>14, <1>15, <1>16, <1>17, <1>18, <1>19, <1>20 DEF Sound, Nearly
<1>22. ASSUME c \in tracked PROVE Clear(T, c)
  <2>1. ~Awaited(T, c)
    BY <1>2, <1>7 DEF Awaited, Unnamed
  <2>2. c \notin T.begun
    BY <1>2, <1>3, <1>10, <1>22
  <2> QED BY <1>2, <1>4, <1>8, <1>9, <2>1, <2>2 DEF Clear
<1>23. Kept(S, T)
  BY <1>3 DEF Kept, Hows
<1> QED BY <1>3, <1>4, <1>10, <1>21, <1>22, <1>23

\* A call begun by another thread, once it is tracked.
Joined(S, c) == [S EXCEPT !.tracked = @ \cup {c}, !.begun = @ \ {c}]

LEMMA JoinedSound ==
  ASSUME NEW S, Sound(S, 0), NEW c \in S.begun, NEW T, T = Joined(S, c)
  PROVE  /\ Sound(T, 0) /\ c \in RequestIds /\ T.wire = S.wire /\ c \notin T.wire
         /\ T.answer = S.answer /\ T.request = S.request /\ Clear(T, c) /\ live(T, c)
<1>1. Nearly(S, 0) /\ S \in Client /\ S.begun \subseteq Calls /\ c \in RequestIds /\ c # 0
  BY Constants, ClientIs DEF Sound, Nearly
<1>2. /\ T \in Client /\ T.tracked = S.tracked \cup {c} /\ T.begun = S.begun \ {c}
      /\ T.request = S.request /\ T.answer = S.answer /\ T.age = S.age /\ T.clock = S.clock
      /\ T.queue = S.queue /\ T.waiting = S.waiting /\ T.polling = S.polling
      /\ T.net = S.net /\ T.wire = S.wire /\ T.own = S.own /\ T.held = S.held
      /\ T.reinitializing = S.reinitializing
  BY <1>1 DEF Joined, Client
<1>3. Posts(T) = Posts(S) /\ Holds(T) = Holds(S) /\ (SendsOnce(S) => SendsOnce(T))
  BY <1>2 DEF Posts, Holds, SendsOnce
<1>4. calling(S, c) /\ S.request[c].origin = c /\ ~S.request[c].task /\ Unnamed(S, c)
  BY <1>1 DEF Nearly, Tied
<1>5. /\ \A k \in RequestIds : /\ live(T, k) <=> live(S, k)
                               /\ calling(T, k) <=> calling(S, k)
                               /\ shaking(T, k) <=> shaking(S, k)
                               /\ Awaited(T, k) <=> Awaited(S, k)
      /\ \A j, k \in RequestIds : polls(T, j, k) <=> polls(S, j, k)
  BY <1>2 DEF live, calling, shaking, Awaited, polls
<1>7. Called(T)
  BY <1>1, <1>2, <1>5 DEF Nearly, Called
<1>8. Promised(T)
  BY <1>1, <1>2, <1>5 DEF Nearly, Promised
<1>9. Tied(T, 0)
  <2>1. Tied(S, 0) /\ S.tracked \subseteq RequestIds
    BY <1>1, ClientIs DEF Nearly
  <2>2. \A i \in T.tracked : live(T, i)
    BY <1>1, <1>2, <1>4, <1>5, <2>1 DEF Tied, calling
  <2>3. \A i \in RequestIds : live(T, i) /\ i # 0 => i \in T.tracked \/ i \in T.begun
    BY <1>2, <1>5, <2>1 DEF Tied
  <2>4. ASSUME NEW d \in T.begun
        PROVE  /\ calling(T, d) /\ T.request[d].origin = d /\ ~T.request[d].task
               /\ Unnamed(T, d)
    <3>1. d \in S.begun /\ d # c /\ d \in RequestIds
      BY <1>1, <1>2, Constants
    <3>2. calling(S, d) /\ S.request[d].origin = d /\ ~S.request[d].task /\ Unnamed(S, d)
      BY <2>1, <3>1 DEF Tied
    <3>3. ~Does(S, "send", d)
      BY <3>2 DEF Unnamed
    <3>4. ~Does(T, "send", d)
      BY <1>3, <3>3 DEF Does
    <3>5. Unnamed(T, d)
      BY <1>2, <1>3, <1>5, <3>1, <3>2, <3>4 DEF Unnamed
    <3> QED BY <1>2, <1>5, <3>1, <3>2, <3>5
  <2>5. /\ T.begun # {} => world.threads
        /\ \A i \in T.wire \cup T.own \cup T.waiting \cup T.polling \cup Holds(T) :
             T.request[i].work # "none"
        /\ \A p \in Posts(T) : T.request[p.of].work # "none"
    BY <1>2, <1>3, <2>1 DEF Tied
  <2> QED BY <2>2, <2>3, <2>4, <2>5 DEF Tied
<1>10. Timed(T, 0)
  BY ZenonT(30), <1>1, <1>2, <1>3, <1>5 DEF Nearly, Timed, Does
<1>11. Owned(T)
  BY <1>1, <1>2, <1>3 DEF Nearly, Owned, Does, live
<1>12. Shaken(T, 0)
  <2>1. Shaken(S, 0) /\ Holds(S) \subseteq RequestIds
    BY <1>1, ClientIs DEF Nearly
  <2>2. \A i, j \in RequestIds : shaking(T, i) /\ shaking(T, j) => i = j
    BY ONLY <1>5, <2>1 DEF Shaken
  <2>3. \A i \in RequestIds : shaking(T, i) => T.reinitializing
    BY ONLY <1>2, <1>5, <2>1 DEF Shaken
  <2>4. /\ T.held # <<>> => T.reinitializing
        /\ \A m, n \in 1..Len(T.held) : T.held[m] = T.held[n] => m = n
    BY ONLY <1>2, <2>1 DEF Shaken
  <2>5. \A i \in Holds(T) : /\ live(T, i) => T.request[i].session_retried
                            /\ world.steady => T.request[i].work = "call"
    BY ONLY <1>2, <1>3, <1>5, <2>1 DEF Shaken
  <2> QED BY ONLY <2>2, <2>3, <2>4, <2>5 DEF Shaken
<1>13. Carried(T, 0)
  BY <1>1, <1>2, <1>5 DEF Nearly, Carried
<1>14. OneWay(T)
  BY <1>1, <1>2, <1>3, <1>5 DEF Nearly, OneWay, Does
<1>15. ShakingGoesOn(T, 0)
  BY <1>2, <1>5 DEF Sound, ShakingGoesOn
<1>16. Sound(T, 0)
  BY <1>1, <1>2, <1>7, <1>8, <1>9, <1>10, <1>11, <1>12, <1>13, <1>14, <1>15 DEF Sound, Nearly
<1>17. Clear(T, c)
  <2>1. ~Does(S, "send", c) /\ ~Awaited(S, c)
    BY <1>4 DEF Unnamed, Awaited
  <2>2. ~Does(T, "send", c)
    BY <1>3, <2>1 DEF Does
  <2>3. S.request[c].work # "none"
    BY <1>4 DEF calling, live
  <2> QED BY <1>1, <1>2, <1>4, <1>5, <2>1, <2>2, <2>3 DEF Clear
<1> QED BY <1>1, <1>2, <1>4, <1>5, <1>16, <1>17 DEF Unnamed, calling

\* A request that must be cancellable alone is posted to be sent.
LEMMA PostedToSend ==
  ASSUME NEW S, Sound(S, 0), NEW c \in RequestIds, Clear(S, c), live(S, c), c \notin S.wire,
         NEW T, T = Put(S, "send", c)
  PROVE  Sound(T, 0) /\ Leads(S, T) /\ T.wire = S.wire
<1>1. Nearly(S, 0) /\ S \in Client
  BY DEF Sound, Nearly
<1>2. /\ T \in Client /\ T = [S EXCEPT !.queue = T.queue]
      /\ Posts(T) = Posts(S) \cup {[do |-> "send", of |-> c]}
      /\ SendsOnce(S) /\ ~Does(S, "send", c) => SendsOnce(T)
  BY <1>1, SendPostIs
<1>3. /\ T.tracked = S.tracked /\ T.begun = S.begun
      /\ T.request = S.request /\ T.answer = S.answer /\ T.age = S.age /\ T.clock = S.clock
      /\ T.waiting = S.waiting /\ T.polling = S.polling
      /\ T.net = S.net /\ T.wire = S.wire /\ T.own = S.own /\ T.held = S.held
      /\ T.reinitializing = S.reinitializing
  BY <1>1, <1>2 DEF Client
<1>4. Holds(T) = Holds(S)
  BY <1>3 DEF Holds
<1>5. /\ \A k \in RequestIds : /\ live(T, k) <=> live(S, k)
                               /\ calling(T, k) <=> calling(S, k)
                               /\ shaking(T, k) <=> shaking(S, k)
                               /\ Awaited(T, k) <=> Awaited(S, k)
      /\ \A j, k \in RequestIds : polls(T, j, k) <=> polls(S, j, k)
  BY <1>3 DEF live, calling, shaking, Awaited, polls
<1>6. \A k \in RequestIds :
        /\ Does(T, "start", k) <=> Does(S, "start", k)
        /\ Does(T, "stop", k) <=> Does(S, "stop", k)
        /\ Does(T, "send", k) <=> Does(S, "send", k) \/ k = c
        /\ Does(T, "close", k) <=> Does(S, "close", k)
  BY <1>2 DEF Does
<1>7. S.own \subseteq RequestIds /\ \A k \in RequestIds : S.request[k].origin \in RequestIds
  BY <1>1, ClientIs, ContextIs
<1>8. Called(T)
  BY <1>1, <1>3, <1>5 DEF Nearly, Called
<1>9. Promised(T)
  BY <1>1, <1>3, <1>5 DEF Nearly, Promised
<1>10. Tied(T, 0)
  <2>1. Tied(S, 0) /\ S.tracked \subseteq RequestIds /\ S.begun \subseteq RequestIds
    BY <1>1, ClientIs, Constants DEF Nearly
  <2>2. /\ \A i \in T.tracked : live(T, i)
        /\ \A i \in RequestIds : live(T, i) /\ i # 0 => i \in T.tracked \/ i \in T.begun
    BY <1>3, <1>5, <2>1 DEF Tied
  <2>3. ASSUME NEW d \in T.begun
        PROVE  /\ calling(T, d) /\ T.request[d].origin = d /\ ~T.request[d].task
               /\ Unnamed(T, d)
    <3>1. d \in S.begun /\ d # c /\ d \in RequestIds
      BY <1>3, <2>1 DEF Clear
    <3>2. calling(S, d) /\ S.request[d].origin = d /\ ~S.request[d].task /\ Unnamed(S, d)
      BY <2>1, <3>1 DEF Tied
    <3>3. Unnamed(T, d)
      BY <1>3, <1>4, <1>5, <1>6, <3>1, <3>2 DEF Unnamed
    <3> QED BY <1>3, <1>5, <3>1, <3>2, <3>3
  <2>4. /\ T.begun # {} => world.threads
        /\ \A i \in T.wire \cup T.own \cup T.waiting \cup T.polling \cup Holds(T) :
             T.request[i].work # "none"
    BY <1>3, <1>4, <2>1 DEF Tied
  <2>5. \A p \in Posts(T) : T.request[p.of].work # "none"
    BY <1>2, <1>3, <2>1 DEF Tied, Clear
  <2> QED BY <2>2, <2>3, <2>4, <2>5 DEF Tied
<1>11. Timed(T, 0)
  BY <1>1, <1>3, <1>5, <1>6, <1>7 DEF Nearly, Timed
<1>12. Owned(T)
  BY <1>1, <1>3, <1>5, <1>6, <1>7 DEF Nearly, Owned
<1>13. Shaken(T, 0)
  <2>1. Shaken(S, 0) /\ Holds(S) \subseteq RequestIds
    BY <1>1, ClientIs DEF Nearly
  <2>2. \A i, j \in RequestIds : shaking(T, i) /\ shaking(T, j) => i = j
    BY ONLY <1>5, <2>1 DEF Shaken
  <2>3. \A i \in RequestIds : shaking(T, i) => T.reinitializing
    BY ONLY <1>3, <1>5, <2>1 DEF Shaken
  <2>4. /\ T.held # <<>> => T.reinitializing
        /\ \A m, n \in 1..Len(T.held) : T.held[m] = T.held[n] => m = n
    BY ONLY <1>3, <2>1 DEF Shaken
  <2>5. \A i \in Holds(T) : /\ live(T, i) => T.request[i].session_retried
                            /\ world.steady => T.request[i].work = "call"
    BY ONLY <1>3, <1>4, <1>5, <2>1 DEF Shaken
  <2> QED BY ONLY <2>2, <2>3, <2>4, <2>5 DEF Shaken
<1>14. Carried(T, 0)
  BY <1>1, <1>3, <1>5 DEF Nearly, Carried
<1>15. OneWay(T)
  <2>1. OneWay(S)
    BY <1>1 DEF Nearly
  <2>2. SUFFICES ASSUME world.steady, Modern
                 PROVE  /\ T.held = <<>> /\ SendsOnce(T)
                        /\ \A i \in RequestIds : live(T, i) =>
                             /\ i \in T.wire => ~Does(T, "send", i) /\ ~T.request[i].task /\ ~Awaited(T, i)
                             /\ Does(T, "send", i) => ~T.request[i].task /\ ~Awaited(T, i)
                             /\ T.request[i].task => ~Awaited(T, i)
    BY DEF OneWay
  <2>3. T.held = <<>> /\ SendsOnce(T)
    <3>1. ~Does(S, "send", c)
      BY <2>2 DEF Clear
    <3> QED BY <1>2, <1>3, <2>1, <2>2, <3>1 DEF OneWay
  <2>4. ASSUME NEW i \in RequestIds, live(T, i)
        PROVE  /\ i \in T.wire => ~Does(T, "send", i) /\ ~T.request[i].task /\ ~Awaited(T, i)
               /\ Does(T, "send", i) => ~T.request[i].task /\ ~Awaited(T, i)
               /\ T.request[i].task => ~Awaited(T, i)
    <3>1. CASE i = c
      BY <1>3, <1>5, <1>6, <2>1, <2>2, <2>4, <3>1 DEF OneWay, Clear
    <3>2. CASE i # c
      BY <1>3, <1>5, <1>6, <2>1, <2>2, <2>4, <3>2 DEF OneWay
    <3> QED BY <3>1, <3>2
  <2> QED BY <2>3, <2>4
<1>16. ShakingGoesOn(T, 0)
  BY <1>3, <1>5 DEF Sound, ShakingGoesOn
<1>17. Sound(T, 0)
  BY <1>1, <1>2, <1>8, <1>9, <1>10, <1>11, <1>12, <1>13, <1>14, <1>15, <1>16 DEF Sound, Nearly
<1>18. Leads(S, T)
  BY <1>1, <1>2, <1>3 DEF Leads
<1> QED BY <1>3, <1>17, <1>18

\* A call is tracked, and sent.
LEMMA TrackedGoes ==
  ASSUME NEW U, Sound(U, 0), NEW c \in RequestIds, Clear(U, c), live(U, c), c \notin U.wire,
         NEW luck \in Lucks,
         NEW T, T = IF U.request[c].apart THEN Put(U, "send", c)
                    ELSE sendRequestInternal(U, c, luck)
  PROVE  /\ Sound(T, 0) /\ Leads(U, T)
         /\ \A k \in T.wire \ U.wire : ~T.request[k].settled
<1>1. CASE U.request[c].apart
  <2>1. T = Put(U, "send", c)
    BY <1>1
  <2>2. Sound(T, 0) /\ Leads(U, T) /\ T.wire = U.wire
    BY <2>1, PostedToSend
  <2> QED BY <2>2
<1>2. CASE ~U.request[c].apart
  <2>1. T = sendRequestInternal(U, c, luck)
    BY <1>2
  <2>2. Nearly(U, 0)
    BY DEF Sound
  <2> QED BY <2>1, <2>2, SendIs
<1> QED BY <1>1, <1>2

\* sendRequest and sendCancellableRequest.
LEMMA CallIs ==
  ASSUME world \in Worlds, Sound(client, 0), Call
  PROVE  Sound(client', 0) /\ Follows(client, client')
<1>1. PICK c \in 1..world.calls, apart \in BOOLEAN, extends \in BOOLEAN, luck \in Lucks :
        /\ client.answer[c] = "unsent" /\ \A d \in Calls : d < c => client.answer[d] # "unsent"
        /\ extends => apart
        /\ LET s == Began(client, c, apart, extends)
           IN client' = IF world.threads THEN [s EXCEPT !.begun = @ \cup {c}]
                        ELSE Tracked(s, c, luck)
  BY Zenon DEF Call
<1>2. PICK C, T, s : C = client /\ T = client' /\ s = Began(C, c, apart, extends)
  OBVIOUS
<1>3. Sound(C, 0) /\ Nearly(C, 0) /\ C \in Client
  BY <1>2 DEF Sound, Nearly
<1>4. T = IF world.threads THEN [s EXCEPT !.begun = @ \cup {c}] ELSE Tracked(s, c, luck)
  BY <1>1, <1>2, Zenon
<1>5. SUFFICES Sound(T, 0) /\ Follows(C, T)
  BY <1>2, Zenon
<1>6. C.answer[c] = "unsent" /\ c \in Calls /\ c \in RequestIds
  <2>1. c \in Calls
    BY world \in Worlds, RequestsAssumption DEF World, Calls
  <2> QED BY <1>1, <1>2, <2>1, Constants
<1>7. PICK work : work = "call"
  OBVIOUS
<1>8. PICK r : r = [NewContext(work, c, 0) EXCEPT !.apart = apart, !.extends = extends]
  OBVIOUS
<1>9. /\ r \in Context /\ r.work = "call" /\ r.origin = c /\ r.after = 0
      /\ ~r.settled /\ ~r.task
  <2>1. work \in Works /\ 0 \in RequestIds \cup {0}
    BY ONLY <1>7 DEF Works
  <2>2. PICK n : n = NewContext(work, c, 0)
    OBVIOUS
  <2>3. /\ n \in Context /\ n.work = "call" /\ n.origin = c /\ n.after = 0
        /\ ~n.settled /\ ~n.task
    BY ONLY <1>6, <1>7, <2>1, <2>2, NewContextIs
  <2> QED BY ONLY <1>8, <2>2, <2>3, apart \in BOOLEAN, extends \in BOOLEAN DEF Context
<1>10. /\ s = [C EXCEPT !.answer[c] = "waiting", !.request[c] = r,
                        !.queue = Append(C.queue, [do |-> "start", of |-> c])]
       /\ s.tracked = C.tracked /\ s.begun = C.begun /\ s.request[c] = r
  <2>1. s = Put([C EXCEPT !.answer[c] = "waiting", !.request[c] = r], "start", c)
    BY <1>2, <1>7, <1>8, Zenon DEF Began
  <2> QED BY ONLY <1>3, <1>6, <2>1 DEF Put, Client
<1>11. CASE world.threads
  <2>1. T = [s EXCEPT !.begun = @ \cup {c}]
    BY <1>4, <1>11
  <2>2. PICK begun : begun = C.begun \cup {c}
    OBVIOUS
  <2>3. T = Entered(C, c, r, C.tracked, begun)
    BY ONLY <1>3, <1>10, <2>1, <2>2 DEF Entered, Client
  <2>4. /\ Sound(T, 0) /\ T.wire = C.wire
        /\ Kept(C, T)
    BY ONLY <1>3, <1>6, <1>9, <1>11, <2>2, <2>3, EnteredSound
  <2> QED BY ONLY <2>4 DEF Follows, Kept
<1>12. CASE ~world.threads
  <2>1. PICK tracked, begun, U :
          /\ tracked = C.tracked \cup {c} /\ begun = C.begun
          /\ U = [s EXCEPT !.tracked = tracked]
    OBVIOUS
  <2>2. U = Entered(C, c, r, tracked, begun)
    BY ONLY <1>3, <1>10, <2>1 DEF Entered, Client
  <2>3. /\ Sound(U, 0) /\ U.wire = C.wire /\ c \notin U.wire /\ Clear(U, c) /\ live(U, c)
        /\ U.request[c] = r
        /\ \A d \in Calls : C.answer[d] \in Hows => U.answer[d] = C.answer[d]
    <3>1. tracked = C.tracked \cup {c} /\ begun = C.begun /\ c \in tracked
      BY ONLY <2>1
    <3>2. /\ Sound(U, 0) /\ U.wire = C.wire /\ c \notin U.wire /\ live(U, c)
          /\ U.request[c] = r /\ (c \in tracked => Clear(U, c))
      BY ONLY <1>3, <1>6, <1>9, <2>2, <3>1, EnteredSound
    <3>3. Kept(C, U)
      BY ONLY <1>3, <1>6, <1>9, <2>2, <3>1, EnteredSound
    <3> QED BY ONLY <3>1, <3>2, <3>3 DEF Kept
  <2>4. T = IF U.request[c].apart THEN Put(U, "send", c) ELSE sendRequestInternal(U, c, luck)
    BY <1>4, <1>10, <1>12, <2>1, <2>3 DEF Tracked
  <2>5. /\ Sound(T, 0) /\ Leads(U, T)
        /\ \A k \in T.wire \ U.wire : ~T.request[k].settled
    BY ONLY <1>6, <2>3, <2>4, TrackedGoes, luck \in Lucks
  <2> QED BY ONLY <2>3, <2>5, FollowsNew
<1> QED BY <1>11, <1>12

LEMMA CallGoesOnIs ==
  ASSUME Sound(client, 0), CallGoesOn
  PROVE  Sound(client', 0) /\ Follows(client, client')
<1>1. PICK c \in client.begun, luck \in Lucks :
        client' = Tracked([client EXCEPT !.begun = @ \ {c}], c, luck)
  BY Zenon DEF CallGoesOn
<1>2. PICK C, T, s : C = client /\ T = client' /\ s = [C EXCEPT !.begun = C.begun \ {c}]
  OBVIOUS
<1>3. Sound(C, 0) /\ C \in Client /\ c \in C.begun /\ T = Tracked(s, c, luck)
  BY <1>1, <1>2 DEF Sound, Nearly
<1>4. SUFFICES Sound(T, 0) /\ Follows(C, T)
  BY <1>2, Zenon
<1>5. PICK U : U = Joined(C, c)
  OBVIOUS
<1>6. /\ Sound(U, 0) /\ c \in RequestIds /\ U.wire = C.wire /\ c \notin U.wire
      /\ U.answer = C.answer /\ U.request = C.request /\ Clear(U, c) /\ live(U, c)
  BY ONLY <1>3, <1>5, JoinedSound
<1>7. U = [s EXCEPT !.tracked = @ \cup {c}] /\ s.request = C.request
  BY <1>2, <1>3, <1>5 DEF Joined, Client
<1>8. T = IF U.request[c].apart THEN Put(U, "send", c) ELSE sendRequestInternal(U, c, luck)
  BY ONLY <1>3, <1>6, <1>7 DEF Tracked
<1>9. /\ Sound(T, 0) /\ Leads(U, T)
      /\ \A k \in T.wire \ U.wire : ~T.request[k].settled
  BY ONLY <1>6, <1>8, TrackedGoes, luck \in Lucks
<1> QED BY ONLY <1>6, <1>9, FollowsNew
-----------------------------------------------------------------------------
(* The invariant, and what follows from it.                                *)

RequestsSound == world \in Worlds /\ Sound(client, 0)

LEMMA RequestsInitSound == RequestsInit => RequestsSound
<1> SUFFICES ASSUME RequestsInit PROVE RequestsSound
  OBVIOUS
<1>1. PICK C : C = client
  OBVIOUS
<1>2. PICK kind, unsent, up : kind = "none" /\ unsent = "unsent" /\ up = "up"
  OBVIOUS
<1>3. PICK requests, answers, ages, clocks, sessions, reinit :
        /\ requests = [i \in RequestIds |-> NewContext(kind, i, 0)]
        /\ answers = [c \in Calls |-> unsent]
        /\ ages = [i \in RequestIds |-> 0] /\ clocks = [i \in RequestIds |-> Off]
        /\ sessions = (world.era = "session") /\ reinit = FALSE
  BY Zenon
<1>4. /\ world \in Worlds
      /\ C = [request |-> requests, tracked |-> {}, answer |-> answers, age |-> ages,
              clock |-> clocks, queue |-> <<>>, waiting |-> {}, polling |-> {}, net |-> up,
              wire |-> {}, own |-> {}, held |-> <<>>, session |-> sessions,
              reinitializing |-> reinit, begun |-> {}]
  BY <1>1, <1>2, <1>3, Zenon DEF RequestsInit
<1>5. kind \in Works /\ kind = "none" /\ unsent \in Answers /\ unsent = "unsent" /\ up = "up"
  BY ONLY <1>2 DEF Works, Answers
<1>6. /\ requests \in [RequestIds -> Context]
      /\ \A i \in RequestIds :
           /\ requests[i].work = "none" /\ requests[i].origin = i /\ requests[i].after = 0
           /\ ~requests[i].task
  BY ONLY <1>3, <1>5, NewContextIs
<1>7. /\ answers \in [Calls -> Answers] /\ \A c \in Calls : answers[c] = "unsent"
      /\ ages \in [RequestIds -> 0..Off] /\ \A i \in RequestIds : ages[i] = 0
      /\ clocks \in [RequestIds -> 0..Off] /\ \A i \in RequestIds : clocks[i] = Off
  BY ONLY <1>3, <1>5, Constants
<1>8. sessions \in BOOLEAN /\ reinit \in BOOLEAN /\ ~reinit
  <2>1. reinit \in BOOLEAN /\ ~reinit
    BY ONLY <1>3, Zenon
  <2>2. sessions \in BOOLEAN
    BY ONLY <1>3, Zenon
  <2> QED BY ONLY <2>1, <2>2
<1>9. /\ C.request = requests /\ C.tracked = {} /\ C.answer = answers /\ C.age = ages
      /\ C.clock = clocks /\ C.queue = <<>> /\ C.waiting = {} /\ C.polling = {} /\ C.net = "up"
      /\ C.wire = {} /\ C.own = {} /\ C.held = <<>> /\ C.session = sessions
      /\ C.reinitializing = reinit /\ C.begun = {}
  BY ONLY <1>4, <1>5
<1>10. C \in Client
  BY ONLY <1>4, <1>5, <1>6, <1>7, <1>8 DEF Client
<1>11. Posts(C) = {} /\ Holds(C) = {}
  BY ONLY <1>9 DEF Posts, Holds
<1>12. \A k \in RequestIds : ~live(C, k) /\ ~calling(C, k) /\ ~shaking(C, k)
  BY ONLY <1>6, <1>9 DEF live, calling, shaking
<1>13. Called(C)
  BY ONLY <1>6, <1>7, <1>9, <1>12, Constants DEF Called
<1>14. Promised(C)
  BY ONLY <1>7, <1>9, <1>12 DEF Promised
<1>15. Tied(C, 0)
  BY ONLY <1>9, <1>11, <1>12 DEF Tied
<1>16. Timed(C, 0)
  BY ONLY <1>7, <1>9, <1>11, <1>12 DEF Timed, Does
<1>17. Owned(C)
  BY ONLY <1>9 DEF Owned
<1>18. Shaken(C, 0)
  BY ONLY <1>9, <1>11, <1>12 DEF Shaken
<1>19. Carried(C, 0)
  BY ONLY <1>6, <1>9, <1>12 DEF Carried
<1>20. OneWay(C)
  BY ONLY <1>9, <1>12 DEF OneWay, SendsOnce
<1>21. ShakingGoesOn(C, 0)
  BY ONLY <1>8, <1>9 DEF ShakingGoesOn
<1>22. Sound(C, 0)
  BY ONLY <1>10, <1>13, <1>14, <1>15, <1>16, <1>17, <1>18, <1>19, <1>20, <1>21 DEF Sound, Nearly
<1> QED BY <1>1, <1>4, <1>22 DEF RequestsSound

LEMMA StepSound ==
  ASSUME RequestsSound, RequestsNext
  PROVE  Sound(client', 0) /\ Follows(client, client') /\ world' = world
<1>1. Sound(client, 0) /\ world \in Worlds /\ world' = world
  BY DEF RequestsSound, RequestsNext
<1>2. CASE Call
  BY <1>1, <1>2, CallIs
<1>3. CASE CallGoesOn
  BY <1>1, <1>3, CallGoesOnIs
<1>4. CASE cancelRequest
  BY <1>1, <1>4, CancelIs
<1>5. CASE Heard
  BY <1>1, <1>5, HeardIs
<1>6. CASE Posted
  BY <1>1, <1>6, PostedIs
<1>7. CASE Progress
  BY <1>1, <1>7, ProgressIs
<1>8. CASE TimerFires
  BY <1>1, <1>8, TimerFiresIs
<1>9. CASE RetryFires
  BY <1>1, <1>9, RetryFiresIs
<1>10. CASE PollFires
  BY <1>1, <1>10, PollFiresIs
<1>11. CASE Reconnected
  BY <1>1, <1>11, ReconnectedIs
<1>12. CASE Lost
  BY <1>1, <1>12, LostIs
<1>13. CASE Tick
  BY <1>1, <1>13, TickIs
<1> QED BY <1>1, <1>2, <1>3, <1>4, <1>5, <1>6, <1>7, <1>8, <1>9, <1>10, <1>11, <1>12, <1>13
        DEF RequestsNext, Step

LEMMA RequestsNextSound == RequestsSound /\ [RequestsNext]_requestVars => RequestsSound'
<1>1. ASSUME RequestsSound, RequestsNext PROVE RequestsSound'
  <2>1. Sound(client', 0) /\ world' = world /\ world \in Worlds
    BY <1>1, StepSound DEF RequestsSound
  <2>2. Sound(client, 0)'
    BY ONLY SMTT(30), <2>1 DEF Sound, Nearly, Called, Promised, Tied, Timed, Owned, Shaken, ShakingGoesOn,
         Carried, OneWay, Unnamed, SendsOnce, live, calling, shaking, polls, Awaited, Does, Posts,
         Holds, Modern
  <2> QED BY <2>1, <2>2 DEF RequestsSound
<1>2. ASSUME RequestsSound, UNCHANGED requestVars PROVE RequestsSound'
  <2>1. client' = client /\ world' = world /\ world \in Worlds /\ Sound(client, 0)
    BY <1>2 DEF RequestsSound, requestVars
  <2>2. Sound(client, 0)'
    BY ONLY SMTT(30), <2>1 DEF Sound, Nearly, Called, Promised, Tied, Timed, Owned, Shaken, ShakingGoesOn,
         Carried, OneWay, Unnamed, SendsOnce, live, calling, shaking, polls, Awaited, Does, Posts,
         Holds, Modern
  <2> QED BY <2>1, <2>2 DEF RequestsSound
<1> QED BY <1>1, <1>2

LEMMA RequestsAreSound == RequestsSpec => []RequestsSound
BY RequestsInitSound, RequestsNextSound, PTL DEF RequestsSpec

LEMMA WorkGoesOnIs == ASSUME Sound(client, 0) PROVE WorkGoesOn
<1>1. PICK C : C = client
  OBVIOUS
<1>2. Nearly(C, 0) /\ C \in Client /\ C.tracked \subseteq RequestIds /\ 0 \notin RequestIds
  BY <1>1, ClientIs, Constants DEF Sound, Nearly
<1>3. SUFFICES ASSUME world.steady
               PROVE  /\ \A i \in RequestIds :
                           C.request[i].work \in {"initialize", "poll", "list"}
                             /\ C.request[i].settled => C.request[i].told
                      /\ \A i \in C.tracked : C.request[i].task =>
                           i \in C.polling
                             \/ \E j \in C.tracked :
                                  C.request[j].work = "poll" /\ C.request[j].after = i
  BY <1>1 DEF WorkGoesOn
<1>4. ASSUME NEW i \in RequestIds, C.request[i].settled,
             C.request[i].work \in {"initialize", "poll", "list"}
      PROVE  C.request[i].told
  BY <1>2, <1>3, <1>4 DEF Nearly, Carried
<1>5. ASSUME NEW i \in C.tracked, C.request[i].task, i \notin C.polling
      PROVE  \E j \in C.tracked : C.request[j].work = "poll" /\ C.request[j].after = i
  <2>1. i \in RequestIds /\ live(C, i)
    BY <1>2 DEF Nearly, Tied
  <2>2. PICK j \in RequestIds : polls(C, j, i)
    BY <1>2, <1>3, <1>5, <2>1 DEF Nearly, Carried
  <2>3. live(C, j) /\ C.request[j].work = "poll" /\ C.request[j].after = i
    BY <2>2 DEF polls
  <2>4. j \notin C.begun
    BY <1>2, <2>3 DEF Nearly, Tied, calling
  <2>5. j \in C.tracked
    BY <1>2, <2>3, <2>4 DEF Nearly, Tied
  <2> QED BY <2>3, <2>5
<1> QED BY <1>4, <1>5

LEMMA OneHandshakeIs == ASSUME Sound(client, 0) PROVE OneHandshake
<1>1. PICK C : C = client
  OBVIOUS
<1>2. /\ Nearly(C, 0) /\ ShakingGoesOn(C, 0) /\ C \in Client /\ C.tracked \subseteq RequestIds
      /\ 0 \notin RequestIds
  BY <1>1, ClientIs, Constants DEF Sound, Nearly
<1>3. \A i \in C.tracked : C.request[i].work = "initialize" <=> shaking(C, i)
  BY <1>2 DEF Nearly, Tied, shaking
<1>4. Cardinality({i \in C.tracked : C.request[i].work = "initialize"}) <= 1
  <2>. PICK H : H = {i \in C.tracked : C.request[i].work = "initialize"}
    OBVIOUS
  <2>1. \A i, j \in H : i = j
    BY <1>2, <1>3 DEF Nearly, Shaken
  <2>. SUFFICES Cardinality(H) <= 1
    OBVIOUS
  <2>2. CASE H = {}
    BY <2>2, FS_EmptySet
  <2>3. CASE H # {}
    <3>1. PICK i : i \in H
      BY <2>3
    <3>2. H = {i}
      BY <2>1, <3>1
    <3>3. PICK K : K = {i}
      OBVIOUS
    <3>4. Cardinality(K) = 1
      BY <3>3, FS_Singleton
    <3>5. H = K
      BY <3>2, <3>3
    <3> QED BY ONLY <3>4, <3>5
  <2> QED BY <2>2, <2>3
<1>5. C.held # <<>> => C.reinitializing
  BY <1>2 DEF Nearly, Shaken
<1>6. ASSUME world.steady, C.reinitializing
      PROVE  \E i \in C.tracked : C.request[i].work = "initialize"
  <2>1. PICK i \in RequestIds : shaking(C, i)
    BY <1>2, <1>6 DEF ShakingGoesOn
  <2>2. live(C, i) /\ C.request[i].work = "initialize"
    BY <2>1 DEF shaking
  <2>3. i \notin C.begun
    BY <1>2, <2>2 DEF Nearly, Tied, calling
  <2>4. i \in C.tracked
    BY <1>2, <2>2, <2>3 DEF Nearly, Tied
  <2> QED BY <2>2, <2>4
<1>7. \A m, n \in 1..Len(C.held) : C.held[m] = C.held[n] => m = n
  BY <1>2 DEF Nearly, Shaken
<1> QED BY <1>1, <1>4, <1>5, <1>6, <1>7 DEF OneHandshake

LEMMA WithinMaximumIs == ASSUME Sound(client, 0) PROVE WithinMaximum
<1>1. PICK C : C = client
  OBVIOUS
<1>2. Nearly(C, 0) /\ C \in Client /\ 0 \notin RequestIds
  BY <1>1, Constants DEF Sound, Nearly
<1>3. SUFFICES ASSUME ~world.threads, NEW c \in Calls, C.answer[c] = "waiting",
                      ~\E i \in Known(C, c) : C.request[i].task
               PROVE  C.age[c] <= MaxTime
  BY <1>1 DEF WithinMaximum, Waiting, IsTask
<1>4. PICK i \in RequestIds : calling(C, i) /\ C.request[i].origin = c
  BY <1>2, <1>3 DEF Nearly, Promised
<1>5. i \in C.tracked
  BY <1>2, <1>3, <1>4 DEF Nearly, Tied, calling
<1>6. ~C.request[i].task
  BY <1>3, <1>4, <1>5 DEF Known
<1>7. C.clock[c] # Off \/ Does(C, "start", c)
  BY <1>2, <1>3, <1>4, <1>6 DEF Nearly, Timed
<1>8. c \in RequestIds /\ C.age[c] \in 0..Off /\ C.clock[c] \in 0..Off
  BY <1>2, Constants, ClientIs
<1>9. CASE C.clock[c] # Off
  <2>1. C.age[c] + C.clock[c] <= MaxTime
    BY <1>2, <1>8, <1>9 DEF Nearly, Timed
  <2> QED BY <1>8, <2>1, RequestsAssumption
<1>10. CASE Does(C, "start", c)
  <2>1. C.age[c] = 0
    BY <1>2, <1>8, <1>10 DEF Nearly, Timed
  <2> QED BY <2>1, RequestsAssumption
<1> QED BY <1>7, <1>9, <1>10

LEMMA OwnConnectionsEndIs == ASSUME Sound(client, 0) PROVE OwnConnectionsEnd
<1>1. PICK C : C = client
  OBVIOUS
<1>2. Nearly(C, 0) /\ C \in Client /\ C.own \subseteq RequestIds /\ 0 \notin RequestIds
  BY <1>1, Constants, ClientIs DEF Sound, Nearly
<1>3. SUFFICES ASSUME NEW i \in C.own
               PROVE  \/ i \in C.tracked /\ ~C.request[i].settled
                      \/ \E n \in 1..Len(C.queue) : C.queue[n] = [do |-> "close", of |-> i]
  BY <1>1 DEF OwnConnectionsEnd, UnderWay
<1>4. CASE live(C, i)
  <2>1. i \notin C.begun
    BY <1>2 DEF Nearly, Tied, Unnamed
  <2>2. i \in C.tracked
    BY <1>2, <1>4, <2>1 DEF Nearly, Tied
  <2> QED BY <1>4, <2>2 DEF live
<1>5. CASE Does(C, "close", i)
  BY <1>5 DEF Does, Posts
<1> QED BY <1>2, <1>4, <1>5 DEF Nearly, Owned

\* Nothing waits for what is not coming, and nothing outlasts what it is for,
\* for any number of calls and ids and any limits: what is carried on with
\* hears of its end and one handshake at a time is under way while connections
\* hold (abandonRequest, completeRequestWithError, startReinitialize), no call
\* made on the dispatcher outlasts request_timeout_max (armRequestTimeout), and
\* no connection of its own the request it was dialled for (on_settled).
THEOREM RequestsNothingStranded == RequestsSpec => []NothingIsStranded
<1>1. RequestsSound => NothingIsStranded
  <2> SUFFICES ASSUME RequestsSound PROVE NothingIsStranded
    OBVIOUS
  <2>1. Sound(client, 0) /\ world \in Worlds
    BY DEF RequestsSound
  <2>2. RequestsTypeOK
    BY <2>1 DEF Sound, Nearly, RequestsTypeOK
  <2> QED BY <2>1, <2>2, WorkGoesOnIs, OneHandshakeIs, WithinMaximumIs, OwnConnectionsEndIs
          DEF NothingIsStranded
<1> QED BY <1>1, RequestsAreSound, PTL

\* The end of a request is its end, for any number of calls and ids and any
\* limits: its caller's promise is kept once, and nothing is sent of it any
\* more, under any id it was carried over to (RequestContext::finish,
\* carryOver, sendRequestInternal).
THEOREM RequestsEndIsFinal == RequestsSpec => EndIsFinal
<1>1. ASSUME RequestsSound, RequestsNext PROVE AnsweredOnce /\ NothingSentAfterItsEnd
  <2>1. Follows(client, client') /\ client \in Client
    BY <1>1, StepSound DEF RequestsSound, Sound, Nearly
  <2>2. AnsweredOnce
    <3> SUFFICES ASSUME NEW c \in Calls, client.answer[c] \notin {"unsent", "waiting"}
                 PROVE  client'.answer[c] = client.answer[c]
      BY DEF AnsweredOnce
    <3>1. client.answer[c] \in Answers
      BY <2>1, ClientIs
    <3>2. client.answer[c] \in Hows
      BY <3>1 DEF Hows
    <3> QED BY <2>1, <3>2 DEF Follows
  <2>3. NothingSentAfterItsEnd
    BY <2>1 DEF Follows, NothingSentAfterItsEnd
  <2> QED BY <2>2, <2>3
<1>2. RequestsSound /\ [RequestsNext]_requestVars
        => [AnsweredOnce /\ NothingSentAfterItsEnd]_requestVars
  BY <1>1
<1> QED BY <1>2, RequestsAreSound, PTL DEF RequestsSpec, EndIsFinal
=============================================================================
