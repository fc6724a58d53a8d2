------------------------ MODULE ListenRegistryProofs ------------------------
(***************************************************************************)
(* Theorems of ListenRegistry, for any callers, streams, number of calls   *)
(* and depth of nesting.                                                   *)
(***************************************************************************)
EXTENDS ListenRegistry, FiniteSetTheorems, SequenceTheorems, TLAPS

-----------------------------------------------------------------------------
(* The inductive invariant. *)

\* A call other than open() is about older subscriptions only.
About(f, i, made) == i \in made /\ (f.op # "open" => i < f.by)

FrameOK(f, n, made) ==
  /\ f.by <= n
  /\ f.to # 0 => About(f, f.to, made)
  /\ \A j \in 1..Len(f.left) : About(f, f.left[j], made)

FramesOK ==
  /\ \A j \in 1..Len(stack) : FrameOK(stack[j], calls, DOMAIN sub)
  /\ \A j, l \in 1..Len(stack) : stack[j].by = stack[l].by => j = l

\* Who watches a stream has it, and who is held watches its stream.
Watched ==
  /\ \A s \in Streams : \A i \in observers[s] : i \in DOMAIN sub /\ sub[i].stream = s
  /\ \A k \in Keys : subscriptions[k] # NoSubscription =>
       LET s == sub[subscriptions[k]].stream
       IN subscriptions[k] \in observers[s] /\ stream[s] # "gone"

\* A request on its way was sent by a call that will send no other.
OutOK ==
  /\ \A m \in out : m.by <= calls /\ (m.kind # "ack" => m.to < m.by)
  /\ \A m \in out, j \in 1..Len(stack) :
       (m.kind = "request" /\ m.by = stack[j].by) =>
         /\ stack[j].op = "sendRequest"
         /\ stack[j].result = "sent"
         /\ stack[j].to # 0 \/ stack[j].left = <<>>

\* A call that lets go of a live subscription is about to answer its stream.
Closing(f, i) == f.to = i /\ f.op \in {"close", "closeAll"} /\ f.result = "calling"

HeldOrClosing ==
  \A i \in DOMAIN sub :
    (Registered(i) /\ stream[sub[i].stream] = "up") =>
      isCurrent(subscriptions, i) \/ \E j \in 1..Len(stack) : Closing(stack[j], i)

IInv == TypeOK /\ FramesOK /\ Watched /\ OutOK /\ RequestSentOnce /\ HeldOrClosing

-----------------------------------------------------------------------------
(* The stack. *)

LEMMA PushLemma ==
  ASSUME stack \in Seq(Frame), NEW f \in Frame
  PROVE  /\ Append(stack, f) \in Seq(Frame)
         /\ Len(Append(stack, f)) = Len(stack) + 1
         /\ \A j \in 1..Len(stack) : Append(stack, f)[j] = stack[j]
         /\ Append(stack, f)[Len(stack) + 1] = f
OBVIOUS

LEMMA TopLemma ==
  ASSUME stack \in Seq(Frame), stack # <<>>
  PROVE  Len(stack) \in Nat /\ Len(stack) \in 1..Len(stack) /\ Top \in Frame
BY DEF Top

LEMMA WithTopLemma ==
  ASSUME stack \in Seq(Frame), stack # <<>>, NEW f \in Frame
  PROVE  /\ WithTop(f) \in Seq(Frame)
         /\ Len(WithTop(f)) = Len(stack)
         /\ WithTop(f)[Len(stack)] = f
         /\ \A j \in 1..Len(stack) : j # Len(stack) => WithTop(f)[j] = stack[j]
BY DEF WithTop

LEMMA PopLemma ==
  ASSUME stack \in Seq(Frame), stack # <<>>
  PROVE  /\ Popped \in Seq(Frame)
         /\ Len(Popped) = Len(stack) - 1
         /\ \A j \in 1..Len(Popped) : Popped[j] = stack[j]
<1> DEFINE n == Len(stack) - 1
<1>1. n \in Nat /\ 1 \in Int /\ n \in Int /\ \A j \in 1..n : stack[j] \in Frame
  OBVIOUS
<1>2. /\ SubSeq(stack, 1, n) \in Seq(Frame)
      /\ Len(SubSeq(stack, 1, n)) = IF 1 <= n THEN n - 1 + 1 ELSE 0
      /\ \A j \in 1..n - 1 + 1 : SubSeq(stack, 1, n)[j] = stack[1 + j - 1]
  <2> HIDE DEF n
  <2> QED BY <1>1, SubSeqProperties
<1>3. Popped = SubSeq(stack, 1, n)
  BY DEF Popped
<1> HIDE DEF n
<1>4. Len(Popped) = n
  BY <1>1, <1>2, <1>3
<1>5. \A j \in 1..n : 1 + j - 1 = j
  BY <1>1
<1>6. \A j \in 1..n : Popped[j] = stack[j]
  BY <1>1, <1>2, <1>3, <1>5
<1> QED BY <1>2, <1>3, <1>4, <1>6 DEF n

\* A snapshot lists members of its set.
LEMMA SnapshotLemma ==
  ASSUME NEW S, S \subseteq Numbers, NEW left \in Snapshots(S)
  PROVE  left \in Seq(Numbers) /\ \A n \in 1..Len(left) : left[n] \in S
<1>1. IsFiniteSet(S)
  <2>1. IsFiniteSet(1..MaxCalls)
    BY FS_Interval, ListenAssumption
  <2> QED BY <2>1, FS_Subset DEF Numbers
<1>2. Cardinality(S) \in Nat
  BY <1>1, FS_CardinalityType
<1>3. left \in [1..Cardinality(S) -> S]
  BY DEF Snapshots, SetToSeqs
<1>4. left \in Seq(S)
  BY <1>2, <1>3
<1>5. Len(left) \in Nat /\ DOMAIN left = 1..Len(left) /\ \A n \in 1..Len(left) : left[n] \in S
  BY <1>4
<1>6. left = [n \in 1..Len(left) |-> left[n]]
  BY <1>2, <1>3, <1>5
<1>7. \A n \in 1..Len(left) : left[n] \in Numbers
  BY <1>5
<1> HIDE DEF Numbers
<1> QED BY <1>5, <1>6, <1>7

LEMMA NewFrameType ==
  ASSUME NEW op \in {"open", "publish", "sendRequest", "close", "closeAll"}, NEW n \in Numbers,
         NEW left \in Seq(Numbers)
  PROVE  NewFrame(op, n, left) \in Frame
<1>1. Range(left) \subseteq Numbers
  BY DEF Range
<1> QED BY <1>1 DEF NewFrame, Frame

-----------------------------------------------------------------------------
(* Calls into the registry. *)

\* A new frame is about the past, whatever the call.
LEMMA EnterInv ==
  ASSUME IInv,
         NEW op \in {"open", "publish", "sendRequest", "close", "closeAll"},
         NEW left \in Seq(Numbers),
         Enter(op, left),
         UNCHANGED <<subscriptions, stream, observers, out, refused>>,
         DOMAIN sub' \subseteq 1..(calls + 1),
         \A i \in DOMAIN sub' : sub'[i] \in Subscription,
         \A i \in DOMAIN sub : i \in DOMAIN sub' /\ sub'[i] = sub[i],
         \A n \in 1..Len(left) : left[n] \in DOMAIN sub' /\ (op # "open" => left[n] < calls + 1)
  PROVE  IInv'
<1> DEFINE f == NewFrame(op, calls + 1, left)
<1>1. calls \in Nat /\ calls + 1 \in Numbers /\ calls' = calls + 1 /\ calls' \in 0..MaxCalls
  BY ListenAssumption DEF IInv, TypeOK, Enter, Numbers
<1>2. f \in Frame
  BY <1>1, NewFrameType
<1>3. stack \in Seq(Frame) /\ stack' = Append(stack, f)
  BY DEF IInv, TypeOK, Enter
<1>4. f.by = calls + 1 /\ f.to = 0 /\ f.left = left /\ f.op = op
  BY DEF NewFrame
<1> HIDE DEF f
<1>5. /\ stack' \in Seq(Frame) /\ Len(stack) \in Nat
      /\ Len(stack') = Len(stack) + 1
      /\ \A j \in 1..Len(stack) : stack'[j] = stack[j]
      /\ stack'[Len(stack) + 1] = f
  BY <1>2, <1>3, PushLemma
<1>6. \A j \in 1..Len(stack') : j \in 1..Len(stack) \/ j = Len(stack) + 1
  BY <1>5
<1>7. TypeOK'
  BY <1>1, <1>5 DEF IInv, TypeOK
<1>8. FramesOK'
  <2>1. ASSUME NEW j \in 1..Len(stack)
        PROVE  FrameOK(stack'[j], calls', DOMAIN sub')
    <3>1. FrameOK(stack[j], calls, DOMAIN sub) /\ stack'[j] = stack[j]
      BY <1>5 DEF IInv, FramesOK
    <3>2. stack[j] \in Frame
      BY <1>3
    <3>3. stack[j].by \in Nat
      BY <3>2 DEF Frame, Numbers
    <3> QED BY <1>1, <3>1, <3>3 DEF FrameOK, About
  <2>2. FrameOK(stack'[Len(stack) + 1], calls', DOMAIN sub')
    BY <1>1, <1>4, <1>5 DEF FrameOK, About
  <2>3. \A j \in 1..Len(stack) : stack[j].by <= calls
    BY DEF IInv, FramesOK, FrameOK
  <2>4. \A j, l \in 1..Len(stack') : stack'[j].by = stack'[l].by => j = l
    <3> SUFFICES ASSUME NEW j \in 1..Len(stack'), NEW l \in 1..Len(stack'),
                        stack'[j].by = stack'[l].by
                 PROVE  j = l
      OBVIOUS
    <3>1. CASE j \in 1..Len(stack) /\ l \in 1..Len(stack)
      BY <1>5, <3>1 DEF IInv, FramesOK
    <3>2. CASE j \in 1..Len(stack) /\ l = Len(stack) + 1
      BY <1>1, <1>3, <1>4, <1>5, <2>3, <3>2 DEF Frame, Numbers
    <3>3. CASE j = Len(stack) + 1 /\ l \in 1..Len(stack)
      BY <1>1, <1>3, <1>4, <1>5, <2>3, <3>3 DEF Frame, Numbers
    <3> QED BY <1>6, <3>1, <3>2, <3>3
  <2> QED BY <1>6, <2>1, <2>2, <2>4 DEF FramesOK
<1>9. Watched'
  BY DEF IInv, Watched, TypeOK
<1>10. OutOK'
  <2>1. \A m \in out : m.by \in Nat /\ m.by <= calls
    BY DEF IInv, OutOK, TypeOK, Message, Numbers
  <2>2. \A m \in out : m.by # stack'[Len(stack) + 1].by
    BY <1>1, <1>4, <1>5, <2>1
  <2>3. \A m \in out : m.by <= calls'
    BY <1>1, <2>1
  <2> QED BY <1>5, <1>6, <2>2, <2>3 DEF IInv, OutOK
<1>11. RequestSentOnce'
  BY DEF IInv, RequestSentOnce
<1>12. HeldOrClosing'
  <2> SUFFICES ASSUME NEW i \in DOMAIN sub', Registered(i)', (stream[sub[i].stream] = "up")'
               PROVE  isCurrent(subscriptions, i)' \/ \E j \in 1..Len(stack') : Closing(stack'[j], i)
    BY DEF HeldOrClosing
  <2>1. i \in DOMAIN sub /\ sub'[i] = sub[i]
    BY DEF Registered, IInv, Watched, Subscription
  <2>2. isCurrent(subscriptions, i) \/ \E j \in 1..Len(stack) : Closing(stack[j], i)
    BY <2>1 DEF IInv, HeldOrClosing, Registered
  <2>3. isCurrent(subscriptions, i) => isCurrent(subscriptions, i)'
    BY <2>1 DEF isCurrent
  <2>4. ASSUME NEW j \in 1..Len(stack), Closing(stack[j], i)
        PROVE  \E l \in 1..Len(stack') : Closing(stack'[l], i)
    <3>1. j \in 1..Len(stack')
      BY <1>5
    <3>2. Closing(stack'[j], i)
      BY <1>5, <2>4
    <3> QED BY <3>1, <3>2
  <2> QED BY <2>2, <2>3, <2>4
<1> QED BY <1>7, <1>8, <1>9, <1>10, <1>11, <1>12 DEF IInv

\* The subscriptions held were made by earlier calls.
LEMMA HeldLemma ==
  ASSUME IInv
  PROVE  /\ calls \in Nat /\ DOMAIN sub \subseteq 1..calls /\ DOMAIN sub \subseteq Numbers
         /\ HeldNow \subseteq DOMAIN sub
         /\ \A i \in DOMAIN sub : i < calls + 1
<1>1. calls \in Nat /\ calls <= MaxCalls /\ DOMAIN sub \subseteq 1..calls
  BY ListenAssumption DEF IInv, TypeOK
<1>2. HeldNow \subseteq DOMAIN sub
  BY DEF IInv, TypeOK, HeldNow
<1> QED BY <1>1, <1>2, ListenAssumption DEF Numbers

LEMMA OpenInv ==
  ASSUME IInv, NEW k \in Keys, NEW s \in Streams, NEW wants \in SUBSET Topics, open(k, s, wants)
  PROVE  IInv'
<1>1. /\ calls \in Nat /\ DOMAIN sub \subseteq 1..calls /\ calls + 1 \notin DOMAIN sub
      /\ calls + 1 \in Numbers
  BY HeldLemma, ListenAssumption DEF open, Enter, Numbers
<1>2. /\ DOMAIN sub' = DOMAIN sub \cup {calls + 1}
      /\ \A i \in DOMAIN sub : sub'[i] = sub[i]
      /\ sub'[calls + 1] = [key |-> k, stream |-> s, wants |-> wants]
  BY <1>1 DEF open
<1>3. \A i \in DOMAIN sub' : sub'[i] \in Subscription
  BY <1>2 DEF IInv, TypeOK, Subscription
<1>4. /\ <<calls + 1>> \in Seq(Numbers)
      /\ \A n \in 1..Len(<<calls + 1>>) : <<calls + 1>>[n] = calls + 1
  BY <1>1
<1>5. DOMAIN sub' \subseteq 1..(calls + 1)
  BY <1>1, <1>2
<1>6. UNCHANGED <<subscriptions, stream, observers, out, refused>> /\ Enter("open", <<calls + 1>>)
  BY DEF open
<1> QED BY <1>1, <1>2, <1>3, <1>4, <1>5, <1>6, EnterInv

\* Calls about a snapshot of the subscriptions held.
LEMMA SnapshotInv ==
  ASSUME IInv, NEW op \in {"publish", "sendRequest", "close", "closeAll"},
         NEW S, S \subseteq HeldNow, NEW left \in Snapshots(S), Enter(op, left),
         UNCHANGED <<subscriptions, sub, stream, observers, out, refused>>
  PROVE  IInv'
<1>1. S \subseteq DOMAIN sub /\ S \subseteq Numbers
  BY HeldLemma
<1>2. left \in Seq(Numbers) /\ \A n \in 1..Len(left) : left[n] \in S
  BY <1>1, SnapshotLemma
<1>3. DOMAIN sub' \subseteq 1..(calls + 1) /\ sub' = sub
  BY HeldLemma
<1>4. \A i \in DOMAIN sub' : sub'[i] \in Subscription
  BY DEF IInv, TypeOK
<1>5. \A n \in 1..Len(left) : left[n] \in DOMAIN sub' /\ left[n] < calls + 1
  BY <1>1, <1>2, <1>3, HeldLemma
<1> QED BY <1>2, <1>3, <1>4, <1>5, EnterInv

LEMMA CloseInv == ASSUME IInv, NEW k \in Keys, close(k) PROVE IInv'
<1> DEFINE i == subscriptions[k]
<1>1. i \in DOMAIN sub /\ i \in Numbers /\ i < calls + 1
  BY HeldLemma DEF close, IInv, TypeOK
<1>2. <<i>> \in Seq(Numbers) /\ \A n \in 1..Len(<<i>>) : <<i>>[n] = i
  BY <1>1
<1>3. Enter("close", <<i>>) /\ UNCHANGED <<subscriptions, sub, stream, observers, out, refused>>
  BY DEF close
<1>4. DOMAIN sub' \subseteq 1..(calls + 1) /\ \A j \in DOMAIN sub' : sub'[j] \in Subscription
  BY <1>3, HeldLemma DEF IInv, TypeOK
<1> HIDE DEF i
<1> QED BY <1>1, <1>2, <1>3, <1>4, EnterInv

-----------------------------------------------------------------------------
(* Steps of the innermost call. *)

\* The top frame is replaced by one of the same call, about the same past.
LEMMA FramesKeep ==
  ASSUME IInv, stack # <<>>, NEW f \in Frame, f.by = Top.by, FrameOK(f, calls, DOMAIN sub),
         stack' = WithTop(f), UNCHANGED <<sub, calls>>
  PROVE  /\ FramesOK'
         /\ stack' \in Seq(Frame)
         /\ Len(stack) \in Nat /\ Len(stack) \in 1..Len(stack) /\ Len(stack') = Len(stack)
         /\ stack'[Len(stack)] = f
         /\ \A j \in 1..Len(stack) : j # Len(stack) => stack'[j] = stack[j]
         /\ \A j \in 1..Len(stack) : j # Len(stack) => stack[j].by # Top.by
<1>1. stack \in Seq(Frame)
  BY DEF IInv, TypeOK
<1>2. Len(stack) \in Nat /\ Len(stack) \in 1..Len(stack)
  BY <1>1, TopLemma
<1>3. /\ stack' \in Seq(Frame) /\ Len(stack') = Len(stack)
      /\ stack'[Len(stack)] = f
      /\ \A j \in 1..Len(stack) : j # Len(stack) => stack'[j] = stack[j]
  BY <1>1, WithTopLemma
<1>4. \A j \in 1..Len(stack) : stack'[j].by = stack[j].by
  BY <1>3 DEF Top
<1>5. \A j \in 1..Len(stack) : FrameOK(stack'[j], calls', DOMAIN sub')
  BY <1>3 DEF IInv, FramesOK
<1>6. FramesOK'
  BY <1>3, <1>4, <1>5 DEF IInv, FramesOK
<1>7. \A j \in 1..Len(stack) : j # Len(stack) => stack[j].by # Top.by
  BY <1>2 DEF IInv, FramesOK, Top
<1> QED BY <1>2, <1>3, <1>6, <1>7

\* The top frame: its type, and what it is about.
LEMMA TopFacts ==
  ASSUME IInv, stack # <<>>
  PROVE  /\ Top \in Frame
         /\ FrameOK(Top, calls, DOMAIN sub)
         /\ Top.by \in Nat /\ calls \in Nat
         /\ Top.left \in Seq(Numbers)
         /\ \A i \in DOMAIN sub : i \in Numbers /\ i # NoSubscription
<1>1. Top \in Frame /\ Len(stack) \in 1..Len(stack)
  BY TopLemma DEF IInv, TypeOK
<1>2. FrameOK(Top, calls, DOMAIN sub)
  BY <1>1 DEF Top, IInv, FramesOK
<1> QED BY <1>1, <1>2, HeldLemma DEF Frame, Numbers, NoSubscription

LEMMA VisitInv == ASSUME IInv, Visit PROVE IInv'
<1> DEFINE i == Recipient(Head(Top.left))
           f == [Top EXCEPT !.left = Tail(@), !.to = i, !.result = "calling"]
<1>1. stack # <<>> /\ Top.left # <<>> /\ Top.to = 0
  BY DEF Visit, Running
<1>2. Top \in Frame /\ FrameOK(Top, calls, DOMAIN sub) /\ Top.left \in Seq(Numbers)
  BY <1>1, TopFacts
<1>3. Len(Top.left) \in Nat /\ Len(Top.left) > 0 /\ Head(Top.left) = Top.left[1]
  BY <1>1, <1>2
<1>4. About(Top, Head(Top.left), DOMAIN sub)
  BY <1>2, <1>3 DEF FrameOK
<1>5. i = NoSubscription \/ i = Head(Top.left)
  BY DEF Recipient
<1>6. i # NoSubscription => About(Top, i, DOMAIN sub) /\ i \in Numbers
  BY <1>1, <1>4, <1>5, TopFacts DEF About
<1>7. i \in Numbers \cup {0}
  BY <1>6 DEF NoSubscription
<1> HIDE DEF i
<1>8. /\ Tail(Top.left) \in Seq(Numbers) /\ Len(Tail(Top.left)) = Len(Top.left) - 1
      /\ \A j \in 1..Len(Tail(Top.left)) : Tail(Top.left)[j] = Top.left[j + 1]
  BY <1>1, <1>2
<1>9. /\ f \in Frame /\ f.by = Top.by /\ f.op = Top.op /\ f.left = Tail(Top.left) /\ f.to = i
      /\ f.result = "calling"
  BY <1>2, <1>7, <1>8 DEF Frame
<1>10. stack' = WithTop(f) /\ UNCHANGED <<sub, stream, observers, calls, out, refused>>
  BY DEF Visit, i
<1> HIDE DEF f
<1>11. FrameOK(f, calls, DOMAIN sub)
  <2>1. \A j \in 1..Len(f.left) : About(f, f.left[j], DOMAIN sub)
    BY <1>2, <1>3, <1>8, <1>9 DEF FrameOK, About
  <2> QED BY <1>2, <1>6, <1>9, <2>1 DEF FrameOK, About, NoSubscription
<1>12. /\ FramesOK' /\ stack' \in Seq(Frame)
       /\ Len(stack) \in Nat /\ Len(stack) \in 1..Len(stack) /\ Len(stack') = Len(stack)
       /\ stack'[Len(stack)] = f
       /\ \A j \in 1..Len(stack) : j # Len(stack) => stack'[j] = stack[j]
  BY <1>1, <1>9, <1>10, <1>11, FramesKeep
\* What is held afterwards: everything, or everything but i.
<1>13. /\ subscriptions' \in [Keys -> Numbers \cup {NoSubscription}]
       /\ \A k \in Keys : subscriptions'[k] # NoSubscription => subscriptions'[k] = subscriptions[k]
  BY DEF Visit, i, IInv, TypeOK
<1>14. TypeOK'
  BY <1>10, <1>12, <1>13 DEF IInv, TypeOK
<1>15. Watched'
  BY <1>10, <1>13 DEF IInv, Watched
<1>16. OutOK'
  <2>1. \A m \in out : ~(m.kind = "request" /\ m.by = Top.by)
    BY <1>1, <1>12 DEF IInv, OutOK, Top
  <2> QED BY <1>9, <1>10, <1>12, <2>1 DEF IInv, OutOK
<1>17. RequestSentOnce'
  BY <1>10 DEF IInv, RequestSentOnce
<1>18. HeldOrClosing'
  <2> SUFFICES ASSUME NEW n \in DOMAIN sub, Registered(n), stream[sub[n].stream] = "up"
               PROVE  isCurrent(subscriptions', n) \/ \E j \in 1..Len(stack) : Closing(stack'[j], n)
    BY <1>10, <1>12 DEF HeldOrClosing, Registered, isCurrent
  <2>1. CASE \E j \in 1..Len(stack) : Closing(stack[j], n)
    <3>1. ~Closing(Top, n)
      BY <1>1, TopFacts DEF Closing, NoSubscription
    <3> QED BY <1>12, <2>1, <3>1 DEF Top
  <2>2. CASE isCurrent(subscriptions, n)
    <3>1. CASE subscriptions' = subscriptions
      BY <2>2, <3>1 DEF isCurrent
    <3>2. CASE /\ i # NoSubscription /\ Top.op \in {"close", "closeAll"}
               /\ subscriptions' = [subscriptions EXCEPT ![sub[i].key] = NoSubscription]
      <4>1. CASE n = i
        BY <1>9, <1>12, <3>2, <4>1 DEF Closing
      <4>2. CASE n # i
        <5>1. isCurrent(subscriptions, i)
          BY <3>2 DEF i, Recipient
        <5>2. sub[n].key \in Keys /\ sub[i].key # sub[n].key
          BY <2>2, <4>2, <5>1 DEF isCurrent, IInv, TypeOK, Subscription
        <5> QED BY <2>2, <3>2, <5>2 DEF isCurrent, IInv, TypeOK
      <4> QED BY <4>1, <4>2
    <3> QED BY <3>1, <3>2 DEF Visit, i
  <2> QED BY <2>1, <2>2 DEF IInv, HeldOrClosing
<1> QED BY <1>12, <1>14, <1>15, <1>16, <1>17, <1>18 DEF IInv

LEMMA ReturnInv == ASSUME IInv, Return PROVE IInv'
<1>1. /\ stack # <<>> /\ Top.to = 0 /\ stack \in Seq(Frame) /\ stack' = Popped
      /\ UNCHANGED <<subscriptions, sub, stream, observers, calls, out, refused>>
  BY DEF Return, Running, IInv, TypeOK
<1>2. /\ stack' \in Seq(Frame) /\ Len(stack') = Len(stack) - 1 /\ Len(stack) \in Nat
      /\ \A j \in 1..Len(stack') : j \in 1..Len(stack) /\ stack'[j] = stack[j]
  BY <1>1, PopLemma
<1>3. TypeOK'
  BY <1>1, <1>2 DEF IInv, TypeOK
<1>4. FramesOK'
  BY <1>1, <1>2 DEF IInv, FramesOK
<1>5. Watched' /\ RequestSentOnce'
  BY <1>1 DEF IInv, Watched, RequestSentOnce
<1>6. OutOK'
  BY <1>1, <1>2 DEF IInv, OutOK
<1>7. HeldOrClosing'
  <2> SUFFICES ASSUME NEW n \in DOMAIN sub, Registered(n), stream[sub[n].stream] = "up",
                      ~isCurrent(subscriptions, n)
               PROVE  \E j \in 1..Len(stack') : Closing(stack'[j], n)
    BY <1>1 DEF HeldOrClosing, Registered, isCurrent
  <2>1. PICK j \in 1..Len(stack) : Closing(stack[j], n)
    BY DEF IInv, HeldOrClosing
  <2>2. j # Len(stack)
    BY <1>1, <2>1, TopFacts DEF Closing, Top, NoSubscription
  <2>3. j \in 1..Len(stack')
    BY <1>2, <2>2
  <2> QED BY <1>2, <2>1, <2>3
<1> QED BY <1>3, <1>4, <1>5, <1>6, <1>7 DEF IInv

-----------------------------------------------------------------------------
(* What happens inside a send, and when it returns. *)

\* A send ends well or badly; if it ended a stream, the stream was open, and
\* a closing one leaves no stream open.
LEMMA SendEnds ==
  ASSUME IInv, Sending, NEW r \in {"sent", "refused"}, NEW v,
         stack' = WithTop([Top EXCEPT !.result = r]),
         stream' = [stream EXCEPT ![sub[Top.to].stream] = v],
         v = stream[sub[Top.to].stream] \/ (stream[sub[Top.to].stream] = "up" /\ v = "answered"),
         (Top.op \in {"close", "closeAll"} /\ stream[sub[Top.to].stream] = "up") => v = "answered",
         UNCHANGED <<subscriptions, sub, observers, calls>>
  PROVE  /\ FramesOK' /\ Watched' /\ HeldOrClosing'
         /\ stack' \in Seq(Frame) /\ stream' \in [Streams -> {"up", "answered", "gone"}]
         /\ \A s \in Streams : stream'[s] = "gone" => stream[s] = "gone"
         /\ Len(stack) \in Nat /\ Len(stack) \in 1..Len(stack) /\ Len(stack') = Len(stack)
         /\ stack'[Len(stack)].by = Top.by /\ stack'[Len(stack)].op = Top.op
         /\ stack'[Len(stack)].to = Top.to /\ stack'[Len(stack)].result = r
         /\ \A j \in 1..Len(stack) : j # Len(stack) => stack'[j] = stack[j] /\ stack[j].by # Top.by
<1> DEFINE f == [Top EXCEPT !.result = r]
           s0 == sub[Top.to].stream
<1>1. stack # <<>> /\ Top.to # 0 /\ Top.result = "calling"
  BY DEF Sending
<1>2. Top \in Frame /\ FrameOK(Top, calls, DOMAIN sub)
  BY <1>1, TopFacts
<1>3. /\ f \in Frame /\ f.by = Top.by /\ f.op = Top.op /\ f.left = Top.left /\ f.to = Top.to
      /\ f.result = r
  BY <1>2 DEF Frame
<1>4. stack' = WithTop(f)
  OBVIOUS
<1> HIDE DEF f
<1>5. FrameOK(f, calls, DOMAIN sub)
  BY <1>2, <1>3 DEF FrameOK, About
<1>6. /\ FramesOK' /\ stack' \in Seq(Frame)
      /\ Len(stack) \in Nat /\ Len(stack) \in 1..Len(stack) /\ Len(stack') = Len(stack)
      /\ stack'[Len(stack)] = f
      /\ \A j \in 1..Len(stack) : j # Len(stack) => stack'[j] = stack[j]
      /\ \A j \in 1..Len(stack) : j # Len(stack) => stack[j].by # Top.by
  BY <1>1, <1>3, <1>4, <1>5, FramesKeep
<1>7. Top.to \in DOMAIN sub /\ s0 \in Streams
  BY <1>1, <1>2 DEF FrameOK, About, IInv, TypeOK, Subscription
<1>8. /\ stream' \in [Streams -> {"up", "answered", "gone"}]
      /\ \A s \in Streams : stream'[s] = "gone" <=> stream[s] = "gone"
      /\ \A s \in Streams : stream'[s] = "up" => stream[s] = "up"
      /\ stream'[s0] = v
  BY <1>7 DEF IInv, TypeOK
<1> HIDE DEF s0
<1>9. \A k \in Keys : subscriptions[k] # NoSubscription => sub[subscriptions[k]].stream \in Streams
  BY DEF IInv, TypeOK, Subscription
<1>10. Watched'
  <2>1. Watched /\ UNCHANGED <<subscriptions, sub, observers>>
    BY DEF IInv
  <2>2. \A k \in Keys : subscriptions[k] # NoSubscription =>
          /\ subscriptions[k] \in observers[sub[subscriptions[k]].stream]
          /\ stream'[sub[subscriptions[k]].stream] # "gone"
    BY <2>1, <1>8, <1>9 DEF Watched
  <2>3. QED BY ONLY <2>1, <2>2 DEF Watched
<1>11. HeldOrClosing'
  <2> SUFFICES ASSUME NEW n \in DOMAIN sub, Registered(n), stream'[sub[n].stream] = "up",
                      ~isCurrent(subscriptions, n)
               PROVE  \E j \in 1..Len(stack) : Closing(stack'[j], n)
    BY <1>6 DEF HeldOrClosing, Registered, isCurrent
  <2>1. sub[n].stream \in Streams
    BY DEF IInv, TypeOK, Subscription
  <2>2. PICK j \in 1..Len(stack) : Closing(stack[j], n)
    BY <1>8, <2>1 DEF IInv, HeldOrClosing
  <2>3. j # Len(stack)
    <3>1. ~Closing(Top, n)
      <4> SUFFICES ASSUME Closing(Top, n) PROVE FALSE
        OBVIOUS
      <4>1. s0 = sub[n].stream /\ Top.op \in {"close", "closeAll"}
        BY DEF Closing, s0
      <4>2. v = "up" /\ stream[s0] = "up"
        BY <1>8, <2>1, <4>1
      <4> QED BY <4>1, <4>2 DEF s0
    <3> QED BY <2>2, <3>1 DEF Top
  <2> QED BY <1>6, <2>2, <2>3
<1> QED BY <1>3, <1>6, <1>8, <1>10, <1>11

LEMMA WriteInv == ASSUME IInv, Write PROVE IInv'
<1> DEFINE m == [kind |-> KindOf(Top.op), by |-> Top.by, to |-> Top.to]
           v == IF KindOf(Top.op) = "bye" THEN "answered" ELSE stream[sub[Top.to].stream]
<1>1. /\ Sending /\ stream[sub[Top.to].stream] = "up"
      /\ out' = out \cup {m}
      /\ stack' = WithTop([Top EXCEPT !.result = "sent"])
      /\ UNCHANGED <<subscriptions, sub, observers, calls, refused>>
  BY DEF Write
<1>2. stack # <<>> /\ Top.to # 0 /\ Top.result = "calling"
  BY <1>1 DEF Sending
<1>3. Top \in Frame /\ FrameOK(Top, calls, DOMAIN sub) /\ Top.by \in Nat
  BY <1>2, TopFacts
<1>4. About(Top, Top.to, DOMAIN sub) /\ Top.to \in Numbers
  BY <1>2, <1>3, TopFacts DEF FrameOK, About
<1>5. /\ KindOf(Top.op) \in {"ack", "note", "request", "bye"}
      /\ Top.op \in {"close", "closeAll"} <=> KindOf(Top.op) = "bye"
      /\ Top.op = "open" <=> KindOf(Top.op) = "ack"
      /\ Top.op = "sendRequest" <=> KindOf(Top.op) = "request"
  BY <1>3 DEF KindOf, Frame
<1>6. stream' = [stream EXCEPT ![sub[Top.to].stream] = v]
  <2>1. sub[Top.to].stream \in Streams
    BY <1>4 DEF About, IInv, TypeOK, Subscription
  <2> QED BY <2>1 DEF Write, IInv, TypeOK
<1>7. /\ v = stream[sub[Top.to].stream] \/ (stream[sub[Top.to].stream] = "up" /\ v = "answered")
      /\ (Top.op \in {"close", "closeAll"} /\ stream[sub[Top.to].stream] = "up") => v = "answered"
  BY <1>1, <1>5
<1> HIDE DEF v
<1>8. /\ FramesOK' /\ Watched' /\ HeldOrClosing'
      /\ stack' \in Seq(Frame) /\ stream' \in [Streams -> {"up", "answered", "gone"}]
      /\ \A s \in Streams : stream'[s] = "gone" => stream[s] = "gone"
      /\ Len(stack) \in Nat /\ Len(stack) \in 1..Len(stack) /\ Len(stack') = Len(stack)
      /\ stack'[Len(stack)].by = Top.by /\ stack'[Len(stack)].op = Top.op
      /\ stack'[Len(stack)].to = Top.to /\ stack'[Len(stack)].result = "sent"
      /\ \A j \in 1..Len(stack) : j # Len(stack) => stack'[j] = stack[j] /\ stack[j].by # Top.by
  BY <1>1, <1>6, <1>7, SendEnds
<1>9. m \in Message /\ m.kind = KindOf(Top.op) /\ m.by = Top.by /\ m.to = Top.to
  BY <1>3, <1>4, <1>5 DEF Message, Frame
<1> HIDE DEF m
<1>10. TypeOK'
  BY <1>1, <1>8, <1>9 DEF IInv, TypeOK
\* Nothing of this call was a request before.
<1>11. \A o \in out : ~(o.kind = "request" /\ o.by = Top.by)
  BY <1>2, <1>8 DEF IInv, OutOK, Top
<1>12. RequestSentOnce'
  BY <1>1, <1>9, <1>11 DEF IInv, RequestSentOnce
<1>13. OutOK'
  <2>1. \A o \in out' : o.by <= calls' /\ (o.kind # "ack" => o.to < o.by)
    BY <1>1, <1>3, <1>4, <1>5, <1>9 DEF IInv, OutOK, FrameOK, About
  <2>2. ASSUME NEW o \in out', NEW j \in 1..Len(stack), o.kind = "request", o.by = stack'[j].by
        PROVE  stack'[j].op = "sendRequest" /\ stack'[j].result = "sent"
               /\ (stack'[j].to # 0 \/ stack'[j].left = <<>>)
    <3>1. CASE o \in out
      BY <1>8, <1>11, <2>2, <3>1 DEF IInv, OutOK
    <3>2. CASE o = m
      BY <1>2, <1>5, <1>8, <1>9, <2>2, <3>2
    <3> QED BY <1>1, <3>1, <3>2
  <2> QED BY <1>8, <2>1, <2>2 DEF OutOK
<1> QED BY <1>8, <1>10, <1>12, <1>13 DEF IInv

LEMMA RefuseInv == ASSUME IInv, Refuse PROVE IInv'
<1> DEFINE v == IF KindOf(Top.op) = "bye" /\ stream[sub[Top.to].stream] = "up"
                THEN "answered" ELSE stream[sub[Top.to].stream]
<1>1. /\ Sending
      /\ refused' = refused \cup {<<Top.by, Top.to>>}
      /\ stack' = WithTop([Top EXCEPT !.result = "refused"])
      /\ UNCHANGED <<subscriptions, sub, observers, calls, out>>
  BY DEF Refuse
<1>2. stack # <<>> /\ Top.to # 0 /\ Top.result = "calling"
  BY <1>1 DEF Sending
<1>3. Top \in Frame /\ FrameOK(Top, calls, DOMAIN sub)
  BY <1>2, TopFacts
<1>4. Top.to \in DOMAIN sub /\ Top.to \in Numbers
  BY <1>2, <1>3, TopFacts DEF FrameOK, About
<1>5. stream' = [stream EXCEPT ![sub[Top.to].stream] = v]
  <2>1. sub[Top.to].stream \in Streams
    BY <1>4 DEF IInv, TypeOK, Subscription
  <2> QED BY <2>1 DEF Refuse, IInv, TypeOK
<1>6. /\ v = stream[sub[Top.to].stream] \/ (stream[sub[Top.to].stream] = "up" /\ v = "answered")
      /\ (Top.op \in {"close", "closeAll"} /\ stream[sub[Top.to].stream] = "up") => v = "answered"
  BY DEF KindOf
<1> HIDE DEF v
<1>7. /\ FramesOK' /\ Watched' /\ HeldOrClosing'
      /\ stack' \in Seq(Frame) /\ stream' \in [Streams -> {"up", "answered", "gone"}]
      /\ \A s \in Streams : stream'[s] = "gone" => stream[s] = "gone"
      /\ Len(stack) \in Nat /\ Len(stack) \in 1..Len(stack) /\ Len(stack') = Len(stack)
      /\ stack'[Len(stack)].by = Top.by
      /\ \A j \in 1..Len(stack) : j # Len(stack) => stack'[j] = stack[j] /\ stack[j].by # Top.by
  BY <1>1, <1>5, <1>6, SendEnds
<1>8. TypeOK'
  BY <1>1, <1>3, <1>4, <1>7 DEF IInv, TypeOK, Frame
<1>9. \A o \in out : ~(o.kind = "request" /\ o.by = Top.by)
  BY <1>2, <1>7 DEF IInv, OutOK, Top
<1>10. OutOK'
  <2>1. OutOK /\ out' = out /\ calls' = calls
    BY <1>1 DEF IInv
  <2>2. ASSUME NEW m \in out, NEW j \in 1..Len(stack'), m.kind = "request", m.by = stack'[j].by
        PROVE  /\ stack'[j].op = "sendRequest" /\ stack'[j].result = "sent"
               /\ stack'[j].to # 0 \/ stack'[j].left = <<>>
    <3>1. j \in 1..Len(stack) /\ j # Len(stack) /\ stack'[j] = stack[j]
      BY ONLY <1>7, <1>9, <2>2
    <3>2. QED BY ONLY <2>1, <2>2, <3>1 DEF OutOK
  <2>3. QED BY ONLY <2>1, <2>2 DEF OutOK
<1>11. RequestSentOnce'
  BY <1>1 DEF IInv, RequestSentOnce
<1> QED BY <1>7, <1>8, <1>10, <1>11 DEF IInv

LEMMA SendReturnsInv == ASSUME IInv, SendReturns PROVE IInv'
<1> DEFINE f == [Top EXCEPT !.left = LeftAfter(Top), !.to = 0]
           i == Top.to
           s0 == sub[i].stream
           k0 == sub[i].key
<1>1. /\ stack # <<>> /\ Top.to # 0 /\ Top.result # "calling"
      /\ stack' = WithTop(f) /\ UNCHANGED <<sub, stream, calls, out, refused>>
  BY DEF SendReturns, Running, Sending
<1>2. /\ Top \in Frame /\ FrameOK(Top, calls, DOMAIN sub)
      /\ i \in DOMAIN sub /\ i \in Numbers /\ i # NoSubscription
  BY <1>1, TopFacts DEF FrameOK, About
<1>3. s0 \in Streams /\ k0 \in Keys
  BY <1>2 DEF IInv, TypeOK, Subscription
<1>4. /\ LeftAfter(Top) = Top.left \/ LeftAfter(Top) = <<>>
      /\ LeftAfter(Top) \in Seq(Numbers)
  BY <1>2 DEF LeftAfter, Frame
<1>5. /\ f \in Frame /\ f.by = Top.by /\ f.op = Top.op /\ f.left = LeftAfter(Top) /\ f.to = 0
      /\ f.result = Top.result
  BY <1>2, <1>4 DEF Frame
<1> HIDE DEF f
<1>6. FrameOK(f, calls, DOMAIN sub)
  BY <1>2, <1>4, <1>5 DEF FrameOK, About
<1>7. /\ FramesOK' /\ stack' \in Seq(Frame)
      /\ Len(stack) \in Nat /\ Len(stack) \in 1..Len(stack) /\ Len(stack') = Len(stack)
      /\ stack'[Len(stack)] = f
      /\ \A j \in 1..Len(stack) : j # Len(stack) => stack'[j] = stack[j]
      /\ \A j \in 1..Len(stack) : j # Len(stack) => stack[j].by # Top.by
  BY <1>1, <1>5, <1>6, FramesKeep
<1> HIDE DEF i, s0, k0
\* Either nothing is held that was not, or i is, under a name that was free.
<1>8. \/ UNCHANGED <<subscriptions, observers>>
      \/ /\ subscriptions[k0] = NoSubscription /\ stream[s0] # "gone"
         /\ subscriptions' = [subscriptions EXCEPT ![k0] = i]
         /\ observers' = [observers EXCEPT ![s0] = @ \cup {i}]
  <2>1. CASE Top.op = "open" /\ Top.result = "sent" /\ subscriptions[k0] = NoSubscription
                                                     /\ stream[s0] = "gone"
    <3> DEFINE held == [subscriptions EXCEPT ![k0] = i]
    <3>1. held \in [Keys -> Numbers \cup {NoSubscription}] /\ held[k0] = i
      BY <1>2, <1>3 DEF IInv, TypeOK
    <3>2. subscriptions' = Cancelled(held, {i}) /\ observers' = observers
      BY <2>1 DEF SendReturns, Hold, i, s0, k0
    <3>3. \A k \in Keys : Cancelled(held, {i})[k] = subscriptions[k]
      BY <1>3, <2>1, <3>1 DEF Cancelled, isCurrent, k0, IInv, TypeOK
    <3>4. Cancelled(held, {i}) = [k \in Keys |-> Cancelled(held, {i})[k]]
      BY DEF Cancelled
    <3>5. subscriptions = [k \in Keys |-> subscriptions[k]]
      BY DEF IInv, TypeOK
    <3> HIDE DEF held
    <3>6. [k \in Keys |-> Cancelled(held, {i})[k]] = [k \in Keys |-> subscriptions[k]]
      BY <3>3
    <3> QED BY <3>2, <3>4, <3>5, <3>6
  <2>2. CASE ~(Top.op = "open" /\ Top.result = "sent" /\ subscriptions[k0] = NoSubscription
                                                      /\ stream[s0] = "gone")
    BY <2>2 DEF SendReturns, Hold, i, s0, k0
  <2> QED BY <2>1, <2>2
<1>9. TypeOK'
  <2>1. subscriptions' \in [Keys -> Numbers \cup {NoSubscription}]
    BY <1>2, <1>3, <1>8 DEF IInv, TypeOK
  <2>2. \A k \in Keys : subscriptions'[k] # NoSubscription =>
          subscriptions'[k] \in DOMAIN sub /\ sub[subscriptions'[k]].key = k
    BY <1>2, <1>3, <1>8 DEF IInv, TypeOK, k0
  <2>3. observers' \in [Streams -> SUBSET Numbers]
    BY <1>2, <1>3, <1>8 DEF IInv, TypeOK
  <2>4. \A s \in Streams : stream[s] = "gone" => observers'[s] = {}
    BY <1>3, <1>8 DEF IInv, TypeOK
  <2> QED BY <1>1, <1>7, <2>1, <2>2, <2>3, <2>4 DEF IInv, TypeOK
<1>10. Watched'
  <2>1. \A s \in Streams : \A n \in observers'[s] : n \in DOMAIN sub /\ sub[n].stream = s
    BY <1>2, <1>3, <1>8 DEF IInv, Watched, TypeOK, s0
  <2>2. ASSUME NEW k \in Keys, subscriptions'[k] # NoSubscription
        PROVE  LET s == sub[subscriptions'[k]].stream
               IN subscriptions'[k] \in observers'[s] /\ stream[s] # "gone"
    <3>1. CASE subscriptions'[k] = subscriptions[k]
      <4>1. sub[subscriptions[k]].stream \in Streams
        BY <2>2, <3>1 DEF IInv, TypeOK, Subscription
      <4>2. observers[sub[subscriptions[k]].stream] \subseteq observers'[sub[subscriptions[k]].stream]
        BY <1>3, <1>8, <4>1 DEF IInv, TypeOK
      <4> QED BY <2>2, <3>1, <4>2 DEF IInv, Watched
    <3>2. CASE subscriptions'[k] # subscriptions[k]
      <4>1. subscriptions'[k] = i /\ i \in observers'[s0] /\ stream[s0] # "gone"
        BY <1>3, <1>8, <2>2, <3>2 DEF IInv, TypeOK
      <4> QED BY <4>1 DEF s0
    <3> QED BY <3>1, <3>2
  <2> QED BY <1>1, <2>1, <2>2 DEF Watched
<1>11. OutOK' /\ RequestSentOnce'
  <2>1. \A m \in out : (m.kind = "request" /\ m.by = Top.by) => f.op = "sendRequest" /\ f.result = "sent" /\ f.left = <<>>
    BY <1>5, <1>7 DEF IInv, OutOK, Top, LeftAfter
  <2> QED BY <1>1, <1>5, <1>7, <2>1 DEF IInv, OutOK, RequestSentOnce
<1>12. HeldOrClosing'
  <2> SUFFICES ASSUME NEW n \in DOMAIN sub, n \in observers'[sub[n].stream], stream[sub[n].stream] = "up"
               PROVE  isCurrent(subscriptions', n) \/ \E j \in 1..Len(stack) : Closing(stack'[j], n)
    BY <1>1, <1>7 DEF HeldOrClosing, Registered, isCurrent
  <2>1. sub[n].stream \in Streams /\ sub[n].key \in Keys /\ n # NoSubscription
    BY HeldLemma DEF IInv, TypeOK, Subscription, NoSubscription, Numbers
  <2>2. CASE n \in observers[sub[n].stream]
    <3>1. CASE \E j \in 1..Len(stack) : Closing(stack[j], n)
      <4>1. ~Closing(Top, n)
        BY <1>1 DEF Closing
      <4> QED BY <1>7, <3>1, <4>1 DEF Top
    <3>2. CASE isCurrent(subscriptions, n)
      BY <1>3, <1>8, <2>1, <3>2 DEF isCurrent, IInv, TypeOK
    <3> QED BY <2>2, <3>1, <3>2 DEF IInv, HeldOrClosing, Registered
  <2>3. CASE n \notin observers[sub[n].stream]
    <3>1. n = i /\ subscriptions' = [subscriptions EXCEPT ![k0] = i]
      BY <1>3, <1>8, <2>1, <2>3 DEF IInv, TypeOK
    <3> QED BY <1>3, <3>1 DEF isCurrent, k0, IInv, TypeOK
  <2> QED BY <2>2, <2>3
<1> QED BY <1>7, <1>9, <1>10, <1>11, <1>12 DEF IInv

LEMMA StreamGoneInv == ASSUME IInv, NEW s \in Streams, StreamGone(s) PROVE IInv'
<1>1. /\ stream' = [stream EXCEPT ![s] = "gone"] /\ observers' = [observers EXCEPT ![s] = {}]
      /\ subscriptions' = Cancelled(subscriptions, observers[s])
      /\ UNCHANGED <<sub, stack, calls, out, refused>>
  BY DEF StreamGone
<1>2. \A k \in Keys : subscriptions'[k] # NoSubscription => subscriptions'[k] = subscriptions[k]
  BY <1>1 DEF Cancelled
<1>3. subscriptions' \in [Keys -> Numbers \cup {NoSubscription}]
  BY <1>1 DEF Cancelled, IInv, TypeOK
<1>4. TypeOK'
  BY <1>1, <1>2, <1>3 DEF IInv, TypeOK
<1>5. FramesOK' /\ OutOK' /\ RequestSentOnce'
  BY <1>1 DEF IInv, FramesOK, OutOK, RequestSentOnce
\* Who is held by another stream stays held.
<1>6. \A i \in DOMAIN sub : (isCurrent(subscriptions, i) /\ sub[i].stream # s) =>
        subscriptions'[sub[i].key] = i
  <2> SUFFICES ASSUME NEW i \in DOMAIN sub, isCurrent(subscriptions, i), sub[i].stream # s
               PROVE  subscriptions'[sub[i].key] = i
    OBVIOUS
  <2>1. sub[i].key \in Keys
    BY DEF IInv, TypeOK, Subscription
  <2>2. ~ \E j \in observers[s] : isCurrent(subscriptions, j) /\ sub[j].key = sub[i].key
    BY DEF isCurrent, IInv, Watched
  <2> QED BY <1>1, <2>1, <2>2 DEF Cancelled, isCurrent
<1>7. Watched'
  <2>1. ASSUME NEW k \in Keys, subscriptions'[k] # NoSubscription
        PROVE  sub[subscriptions[k]].stream # s /\ sub[subscriptions[k]].stream \in Streams
    <3>1. subscriptions[k] # NoSubscription /\ subscriptions[k] \in DOMAIN sub
          /\ sub[subscriptions[k]].key = k
      BY <1>2, <2>1 DEF IInv, TypeOK
    <3>2. sub[subscriptions[k]].stream \in Streams
      BY <3>1 DEF IInv, TypeOK, Subscription
    <3>3. sub[subscriptions[k]].stream = s => subscriptions[k] \in observers[s]
      BY <3>1 DEF IInv, Watched
    <3> QED BY <1>1, <2>1, <3>1, <3>2, <3>3 DEF Cancelled, isCurrent
  <2>2. \A k \in Keys : subscriptions'[k] # NoSubscription =>
          LET t == sub[subscriptions'[k]].stream
          IN subscriptions'[k] \in observers'[t] /\ stream'[t] # "gone"
    BY <1>1, <1>2, <2>1 DEF IInv, Watched, TypeOK
  <2>3. \A t \in Streams : \A i \in observers'[t] : i \in DOMAIN sub /\ sub[i].stream = t
    BY <1>1 DEF IInv, Watched, TypeOK
  <2> QED BY <1>1, <2>2, <2>3 DEF Watched
<1>8. HeldOrClosing'
  <2> SUFFICES ASSUME NEW i \in DOMAIN sub, i \in observers'[sub[i].stream], stream'[sub[i].stream] = "up"
               PROVE  subscriptions'[sub[i].key] = i \/ \E j \in 1..Len(stack) : Closing(stack[j], i)
    BY <1>1 DEF HeldOrClosing, Registered, isCurrent
  <2>1. sub[i].stream \in Streams
    BY DEF IInv, TypeOK, Subscription
  <2>2. sub[i].stream # s /\ Registered(i) /\ stream[sub[i].stream] = "up"
    BY <1>1, <2>1 DEF Registered, IInv, TypeOK
  <2> QED BY <1>6, <2>2 DEF IInv, HeldOrClosing
<1> QED BY <1>4, <1>5, <1>7, <1>8 DEF IInv

LEMMA ForgetDeadInv == ASSUME IInv, forgetDead PROVE IInv'
<1>1. UNCHANGED <<sub, stream, observers, stack, calls, out, refused>>
  BY DEF forgetDead
<1>2. /\ subscriptions' \in [Keys -> Numbers \cup {NoSubscription}]
      /\ \A k \in Keys : subscriptions'[k] # NoSubscription => subscriptions'[k] = subscriptions[k]
      /\ \A k \in Keys : (subscriptions[k] # NoSubscription
                          /\ stream[sub[subscriptions[k]].stream] # "answered")
                         => subscriptions'[k] = subscriptions[k]
  BY DEF forgetDead, IInv, TypeOK
<1>3. TypeOK'
  BY <1>1, <1>2 DEF IInv, TypeOK
<1>4. FramesOK' /\ OutOK' /\ RequestSentOnce'
  BY <1>1 DEF IInv, FramesOK, OutOK, RequestSentOnce
<1>5. Watched'
  BY <1>1, <1>2 DEF IInv, Watched
<1>6. HeldOrClosing'
  <2>1. ASSUME NEW i \in DOMAIN sub, stream[sub[i].stream] = "up", subscriptions[sub[i].key] = i
        PROVE  subscriptions'[sub[i].key] = i
    <3>1. sub[i].key \in Keys /\ i # NoSubscription
      BY HeldLemma DEF IInv, TypeOK, Subscription, NoSubscription
    <3> QED BY <1>2, <2>1, <3>1
  <2> QED BY <1>1, <2>1 DEF IInv, HeldOrClosing, Registered, isCurrent
<1> QED BY <1>3, <1>4, <1>5, <1>6 DEF IInv

-----------------------------------------------------------------------------
(* A change reaches everyone it was for: the rest of the invariant. *)

\* What a publish did about a subscription, and what it has still to do.
Notified(f, i, said, no) ==
  [kind |-> "note", by |-> f.by, to |-> i] \in said \/ <<f.by, i>> \in no
ToNotify(f, i) ==
  (f.to = i /\ f.result = "calling") \/ \E n \in 1..Len(f.left) : f.left[n] = i

\* An open() has its acknowledgement to send, is sending it, or has registered.
Opens(f) ==
  \/ f.to = 0 /\ f.left = <<>>
  \/ f.to = 0 /\ f.left = <<f.by>>
  \/ f.to = f.by /\ f.left = <<>>
Opening(f) == f.op = "open" /\ ~(f.to = 0 /\ f.left = <<>>)

PublishOK(f, made, held, said, no) ==
  f.op = "publish" =>
    /\ f.snapshot \subseteq made
    /\ \A i \in f.snapshot : i \in held => Notified(f, i, said, no) \/ ToNotify(f, i)

\* Who is still being acknowledged is not held, and no publish under way
\* counted on it.  Without that, one passed over because it was not held could
\* come to be held before the publish ends.
NotYet(f, held, calling) ==
  f.op = "open" =>
    /\ Opens(f)
    /\ Opening(f) =>
         /\ f.by \notin held
         /\ \A j \in 1..Len(calling) : calling[j].op = "publish" => f.by \notin calling[j].snapshot

Served ==
  \A j \in 1..Len(stack) :
    /\ PublishOK(stack[j], DOMAIN sub, HeldNow, out, refused)
    /\ NotYet(stack[j], HeldNow, stack)

LEMMA HeldShrinks ==
  ASSUME \A k \in Keys : subscriptions'[k] # NoSubscription => subscriptions'[k] = subscriptions[k]
  PROVE  HeldNow' \subseteq HeldNow
BY DEF HeldNow

\* A call begins.
LEMMA EnterServed ==
  ASSUME IInv, Served,
         NEW op \in {"open", "publish", "sendRequest", "close", "closeAll"},
         NEW left \in Seq(Numbers),
         Enter(op, left),
         UNCHANGED <<subscriptions, out, refused>>,
         DOMAIN sub \subseteq DOMAIN sub',
         op = "publish" => \A n \in 1..Len(left) : left[n] \in HeldNow,
         op = "open" => left = <<calls + 1>>
  PROVE  Served'
<1> DEFINE f == NewFrame(op, calls + 1, left)
<1>1. calls \in Nat /\ calls + 1 \in Numbers
  BY ListenAssumption DEF IInv, TypeOK, Enter, Numbers
<1>2. f \in Frame
  BY <1>1, NewFrameType
<1>3. stack \in Seq(Frame) /\ stack' = Append(stack, f)
  BY DEF IInv, TypeOK, Enter
<1>4. /\ f.by = calls + 1 /\ f.to = 0 /\ f.left = left /\ f.op = op
      /\ f.snapshot = Range(left)
  BY DEF NewFrame
<1> HIDE DEF f
<1>5. /\ Len(stack) \in Nat
      /\ Len(stack') = Len(stack) + 1
      /\ \A j \in 1..Len(stack) : stack'[j] = stack[j]
      /\ stack'[Len(stack) + 1] = f
  BY <1>2, <1>3, PushLemma
<1>6. \A j \in 1..Len(stack') : j \in 1..Len(stack) \/ j = Len(stack) + 1
  BY <1>5
<1>7. HeldNow' = HeldNow
  BY DEF HeldNow
<1>8. HeldNow \subseteq DOMAIN sub /\ DOMAIN sub \subseteq 1..calls
  BY HeldLemma
<1>9. op = "publish" => f.snapshot \subseteq HeldNow
  BY <1>4 DEF Range
<1>10. PublishOK(f, DOMAIN sub', HeldNow', out', refused')
  <2>1. \A i \in Range(left) : \E n \in 1..Len(left) : left[n] = i
    BY DEF Range
  <2>2. QED BY <1>4, <1>7, <1>8, <1>9, <2>1 DEF PublishOK, ToNotify
<1>11. \A j \in 1..Len(stack) : stack[j].op = "publish" => stack[j].snapshot \subseteq DOMAIN sub
  BY DEF Served, PublishOK
<1>12. calls + 1 \notin DOMAIN sub
  BY <1>1, <1>8
<1>13. NotYet(f, HeldNow', stack')
  <2>1. op = "open" => f.op = "open" /\ f.by = calls + 1 /\ Opens(f)
    BY <1>4 DEF Opens
  <2>2. f.by \notin HeldNow'
    BY <1>4, <1>7, <1>8, <1>12
  <2>3. op = "open" =>
          \A j \in 1..Len(stack') : stack'[j].op = "publish" => f.by \notin stack'[j].snapshot
    BY <1>4, <1>5, <1>6, <1>11, <1>12
  <2>4. QED BY ONLY <1>4, <2>1, <2>2, <2>3 DEF NotYet, Opening, Opens
<1>14. ASSUME NEW j \in 1..Len(stack) 
      PROVE  PublishOK(stack[j], DOMAIN sub', HeldNow', out', refused') /\ NotYet(stack[j], HeldNow', stack')
  <2>1. /\ PublishOK(stack[j], DOMAIN sub, HeldNow, out, refused)
        /\ NotYet(stack[j], HeldNow, stack) /\ stack'[j] = stack[j]
    BY <1>5 DEF Served
  <2>2. out' = out /\ refused' = refused /\ DOMAIN sub \subseteq DOMAIN sub'
    OBVIOUS
  <2>3. PublishOK(stack[j], DOMAIN sub', HeldNow', out', refused')
    BY ONLY <1>7, <2>1, <2>2 DEF PublishOK, Notified, ToNotify
  <2>4. NotYet(stack[j], HeldNow', stack')
    <3>3. SUFFICES ASSUME Opening(stack[j]), NEW l \in 1..Len(stack'), stack'[l].op = "publish"
                   PROVE  stack[j].by \notin stack'[l].snapshot
      BY ONLY <1>7, <2>1, <3>3 DEF NotYet, Opening, Opens
    <3>4. CASE l \in 1..Len(stack)
      BY ONLY <1>5, <2>1, <3>3, <3>4 DEF NotYet, Opening
    <3>5. CASE l = Len(stack) + 1
      <4>1. stack[j].by \notin HeldNow
        BY ONLY <2>1, <3>3 DEF NotYet, Opening
      <4>2. QED BY ONLY <1>4, <1>5, <1>9, <3>3, <3>5, <4>1
    <3>6. QED BY <1>6, <3>4, <3>5
  <2>5. QED BY <2>1, <2>3, <2>4
<1>15. \A j \in 1..Len(stack') : PublishOK(stack'[j], DOMAIN sub', HeldNow', out', refused') /\ NotYet(stack'[j], HeldNow', stack')
  BY ONLY <1>5, <1>6, <1>10, <1>13, <1>14
<1>16. QED BY ONLY <1>15 DEF Served

\* What is held shrinks, and nothing is begun or ended.
LEMMA QuietServed ==
  ASSUME Served, UNCHANGED <<sub, stack, out, refused>>,
         \A k \in Keys : subscriptions'[k] # NoSubscription => subscriptions'[k] = subscriptions[k]
  PROVE  Served'
<1>1. HeldNow' \subseteq HeldNow
  BY HeldShrinks
<1>2. sub' = sub /\ stack' = stack /\ out' = out /\ refused' = refused
  OBVIOUS
<1>3. ASSUME NEW j \in 1..Len(stack)
      PROVE  /\ PublishOK(stack[j], DOMAIN sub, HeldNow', out, refused)
             /\ NotYet(stack[j], HeldNow', stack)
  <2>1. /\ PublishOK(stack[j], DOMAIN sub, HeldNow, out, refused)
        /\ NotYet(stack[j], HeldNow, stack)
    BY DEF Served
  <2>2. QED BY ONLY <1>1, <2>1 DEF PublishOK, NotYet
<1>4. QED BY ONLY <1>2, <1>3 DEF Served

\* The top frame goes on; what comes to be held was being acknowledged by it.
LEMMA TopServed ==
  ASSUME IInv, Served, stack # <<>>, NEW f \in Frame,
         f.by = Top.by, f.op = Top.op, f.snapshot = Top.snapshot,
         stack' = WithTop(f), UNCHANGED sub, out \subseteq out', refused \subseteq refused',
         \/ HeldNow' \subseteq HeldNow
         \/ Opening(Top) /\ ~Opening(f) /\ HeldNow' \subseteq HeldNow \cup {Top.by},
         f.op = "publish" =>
           \A i \in f.snapshot : i \in HeldNow' => Notified(f, i, out', refused') \/ ToNotify(f, i),
         f.op = "open" => Opens(f) /\ (Opening(f) => Opening(Top))
  PROVE  Served'
<1>1. stack \in Seq(Frame)
  BY DEF IInv, TypeOK
<1>2. Len(stack) \in Nat /\ Len(stack) \in 1..Len(stack)
  BY <1>1, TopLemma
<1>3. /\ Len(stack') = Len(stack) /\ stack'[Len(stack)] = f
      /\ \A j \in 1..Len(stack) : j # Len(stack) => stack'[j] = stack[j]
  BY <1>1, WithTopLemma
<1>4. \A j \in 1..Len(stack) :
        stack'[j].op = stack[j].op /\ stack'[j].snapshot = stack[j].snapshot
        /\ stack'[j].by = stack[j].by
  BY <1>3 DEF Top
<1>5. /\ PublishOK(Top, DOMAIN sub, HeldNow, out, refused)
      /\ NotYet(Top, HeldNow, stack)
  BY <1>2 DEF Served, Top
<1>6. \/ HeldNow' \subseteq HeldNow
      \/ Opening(Top) /\ ~Opening(f) /\ HeldNow' \subseteq HeldNow \cup {Top.by}
  OBVIOUS
<1>7. sub' = sub /\ out \subseteq out' /\ refused \subseteq refused'
  OBVIOUS
<1>8. /\ f.by = Top.by /\ f.op = Top.op /\ f.snapshot = Top.snapshot
      /\ f.op = "publish" =>
           \A i \in f.snapshot : i \in HeldNow' => Notified(f, i, out', refused') \/ ToNotify(f, i)
      /\ f.op = "open" => Opens(f) /\ (Opening(f) => Opening(Top))
  OBVIOUS
<1>9. PublishOK(f, DOMAIN sub, HeldNow', out', refused')
  BY ONLY <1>5, <1>8 DEF PublishOK
<1>10. NotYet(f, HeldNow', stack')
  <2>1. SUFFICES ASSUME Opening(f), f.op = "open"
                 PROVE  /\ f.by \notin HeldNow'
                        /\ \A j \in 1..Len(stack) :
                             stack'[j].op = "publish" => f.by \notin stack'[j].snapshot
    BY ONLY <1>3, <1>8, <2>1 DEF NotYet, Opening
  <2>2. Opening(Top) /\ Top.op = "open" /\ HeldNow' \subseteq HeldNow
    BY ONLY <1>6, <1>8, <2>1
  <2>3. QED BY ONLY <1>4, <1>5, <1>8, <2>2 DEF NotYet
<1>11. ASSUME NEW j \in 1..Len(stack), j # Len(stack)
       PROVE  /\ PublishOK(stack[j], DOMAIN sub, HeldNow', out', refused')
              /\ NotYet(stack[j], HeldNow', stack')
  <2>1. /\ PublishOK(stack[j], DOMAIN sub, HeldNow, out, refused)
        /\ NotYet(stack[j], HeldNow, stack)
    BY DEF Served
  <2>2. stack[j].by # Top.by
    BY <1>2, <1>11 DEF IInv, FramesOK, Top
  <2>3. stack[j].op = "publish" => (Opening(Top) => Top.by \notin stack[j].snapshot)
    BY ONLY <1>5 DEF NotYet, Opening
  <2>4. PublishOK(stack[j], DOMAIN sub, HeldNow', out', refused')
    BY ONLY <1>6, <1>7, <2>1, <2>3 DEF PublishOK, Notified
  <2>5. NotYet(stack[j], HeldNow', stack')
    BY ONLY <1>3, <1>4, <1>6, <2>1, <2>2 DEF NotYet
  <2>6. QED BY <2>4, <2>5
<1>12. ASSUME NEW j \in 1..Len(stack)
       PROVE  /\ PublishOK(stack'[j], DOMAIN sub, HeldNow', out', refused')
              /\ NotYet(stack'[j], HeldNow', stack')
  BY ONLY <1>3, <1>9, <1>10, <1>11
<1>13. QED BY ONLY <1>3, <1>7, <1>12 DEF Served

\* The frame on top, and what it owes.
LEMMA TopOwes ==
  ASSUME IInv, Served, stack # <<>>
  PROVE  /\ PublishOK(Top, DOMAIN sub, HeldNow, out, refused)
         /\ NotYet(Top, HeldNow, stack)
<1>1. Len(stack) \in 1..Len(stack)
  BY TopLemma DEF IInv, TypeOK
<1>2. QED BY <1>1 DEF Served, Top

\* One passed over is not held; it will not be held before the call ends.
LEMMA VisitServed == ASSUME IInv, Served, Visit PROVE Served'
<1> DEFINE h == Head(Top.left)
           i == Recipient(h)
           f == [Top EXCEPT !.left = Tail(@), !.to = i, !.result = "calling"]
<1>1. /\ stack # <<>> /\ Top.left # <<>> /\ Top.to = 0
      /\ UNCHANGED <<sub, out, refused>> /\ stack' = WithTop(f)
  BY DEF Visit, Running
<1>2. Top \in Frame /\ Top.left \in Seq(Numbers) /\ FrameOK(Top, calls, DOMAIN sub)
  BY <1>1, TopFacts
<1>3. /\ Len(Top.left) \in Nat /\ Len(Top.left) > 0 /\ h = Top.left[1] /\ h \in Numbers
      /\ h \in DOMAIN sub
  BY <1>1, <1>2 DEF FrameOK, About
<1>4. i = NoSubscription \/ i = h
  BY DEF Recipient
<1>5. Top.op = "publish" /\ i # h => ~isCurrent(subscriptions, h)
  BY DEF Recipient
<1>6. Top.op = "open" => i = h
  BY DEF Recipient
<1>7. ~isCurrent(subscriptions, h) => h \notin HeldNow
  BY <1>3 DEF isCurrent, HeldNow, IInv, TypeOK
<1>8. \A k \in Keys : subscriptions'[k] # NoSubscription => subscriptions'[k] = subscriptions[k]
  BY DEF Visit, IInv, TypeOK
<1> HIDE DEF i, h
<1>9. /\ Tail(Top.left) \in Seq(Numbers) /\ Len(Tail(Top.left)) = Len(Top.left) - 1
      /\ \A j \in 1..Len(Tail(Top.left)) : Tail(Top.left)[j] = Top.left[j + 1]
  BY <1>1, <1>2
<1>10. /\ f \in Frame /\ f.by = Top.by /\ f.op = Top.op /\ f.left = Tail(Top.left) /\ f.to = i
       /\ f.result = "calling" /\ f.snapshot = Top.snapshot
  BY <1>2, <1>3, <1>4, <1>9 DEF Frame, NoSubscription
<1> HIDE DEF f
<1>11. HeldNow' \subseteq HeldNow
  BY <1>8, HeldShrinks
<1>12. /\ PublishOK(Top, DOMAIN sub, HeldNow, out, refused)
       /\ NotYet(Top, HeldNow, stack)
  BY <1>1, TopOwes
<1>13. ASSUME f.op = "publish", NEW n \in f.snapshot, n \in HeldNow'
       PROVE  Notified(f, n, out', refused') \/ ToNotify(f, n)
  <2>1. n \in HeldNow /\ Top.op = "publish" /\ n \in Top.snapshot
    BY <1>10, <1>11, <1>13
  <2>2. Notified(Top, n, out, refused) \/ ToNotify(Top, n)
    BY ONLY <1>12, <2>1 DEF PublishOK
  <2>3. CASE Notified(Top, n, out, refused)
    BY ONLY <1>1, <1>10, <2>3 DEF Notified
  <2>4. CASE ToNotify(Top, n)
    <3>1. n # 0
      <4>1. Top.snapshot \subseteq DOMAIN sub
        BY ONLY <1>12, <2>1 DEF PublishOK
      <4>2. QED BY <1>1, <2>1, <4>1, TopFacts DEF NoSubscription
    <3>2. PICK l \in 1..Len(Top.left) : Top.left[l] = n
      BY ONLY <1>1, <2>4, <3>1 DEF ToNotify
    <3>3. CASE l = 1
      <4>1. n = h
        BY ONLY <1>3, <3>2, <3>3
      <4>2. i = h
        BY ONLY <1>5, <1>7, <2>1, <4>1
      <4>3. QED BY ONLY <1>10, <4>1, <4>2 DEF ToNotify
    <3>4. CASE l # 1
      <4>1. l - 1 \in 1..Len(Tail(Top.left)) /\ (l - 1) + 1 = l
        BY ONLY <1>3, <1>9, <3>2, <3>4
      <4>2. f.left[l - 1] = n /\ l - 1 \in 1..Len(f.left)
        BY ONLY <1>9, <1>10, <3>2, <4>1
      <4>3. QED BY ONLY <4>2 DEF ToNotify
    <3>5. QED BY <3>3, <3>4
  <2>5. QED BY <2>2, <2>3, <2>4
<1>14. f.op = "open" => Opens(f) /\ (Opening(f) => Opening(Top))
  <2>1. SUFFICES ASSUME Top.op = "open"
                 PROVE  Opens(f) /\ Opening(Top)
    BY ONLY <1>10, <2>1
  <2>2. Opens(Top)
    BY ONLY <1>12, <2>1 DEF NotYet
  <2>3. Top.left = <<Top.by>> \/ (Top.left = <<>> /\ Top.to = Top.by)
    BY ONLY <1>1, <2>2 DEF Opens
  <2>4. Top.left = <<Top.by>>
    BY ONLY <1>1, <2>3
  <2>5. Tail(Top.left) = <<>> /\ h = Top.by
    BY ONLY <1>3, <2>4
  <2>6. Opens(f)
    BY ONLY <1>6, <1>10, <2>1, <2>5 DEF Opens
  <2>7. QED BY ONLY <1>1, <2>1, <2>6 DEF Opening
<1>15. f.op = "publish" =>
         \A n \in f.snapshot : n \in HeldNow' => Notified(f, n, out', refused') \/ ToNotify(f, n)
  BY <1>13
<1>16. stack' = WithTop(f) /\ sub' = sub /\ out \subseteq out' /\ refused \subseteq refused'
  BY <1>1
<1>17. QED BY <1>1, <1>10, <1>11, <1>14, <1>15, <1>16, TopServed

LEMMA ReturnServed == ASSUME IInv, Served, Return PROVE Served'
<1>1. /\ stack # <<>> /\ stack \in Seq(Frame) /\ stack' = Popped
      /\ UNCHANGED <<subscriptions, sub, out, refused>>
  BY DEF Return, Running, IInv, TypeOK
<1>2. /\ Len(stack) \in Nat
      /\ \A j \in 1..Len(stack') : j \in 1..Len(stack) /\ stack'[j] = stack[j]
  BY <1>1, PopLemma
<1>3. HeldNow' = HeldNow /\ sub' = sub /\ out' = out /\ refused' = refused
  BY <1>1 DEF HeldNow
<1>4. ASSUME NEW j \in 1..Len(stack')
      PROVE  PublishOK(stack[j], DOMAIN sub, HeldNow, out, refused) /\ NotYet(stack[j], HeldNow, stack)
  BY <1>2 DEF Served
<1>5. ASSUME NEW j \in 1..Len(stack') PROVE NotYet(stack'[j], HeldNow, stack')
  BY ONLY <1>2, <1>4 DEF NotYet
<1>6. QED BY ONLY <1>2, <1>3, <1>4, <1>5 DEF Served

\* A send ends: what it was for is written down, one way or the other.
LEMMA SendServed ==
  ASSUME IInv, Served, Sending, NEW r \in {"sent", "refused"},
         stack' = WithTop([Top EXCEPT !.result = r]),
         UNCHANGED <<subscriptions, sub>>, out \subseteq out', refused \subseteq refused',
         Top.op = "publish" => Notified(Top, Top.to, out', refused')
  PROVE  Served'
<1> DEFINE f == [Top EXCEPT !.result = r]
<1>1. stack # <<>> /\ Top.to # 0
  BY DEF Sending
<1>2. Top \in Frame
  BY <1>1, TopFacts
<1>3. /\ f \in Frame /\ f.by = Top.by /\ f.op = Top.op /\ f.left = Top.left /\ f.to = Top.to
      /\ f.snapshot = Top.snapshot
  BY <1>2 DEF Frame
<1>4. stack' = WithTop(f)
  OBVIOUS
<1> HIDE DEF f
<1>5. HeldNow' = HeldNow
  BY DEF HeldNow
<1>6. /\ PublishOK(Top, DOMAIN sub, HeldNow, out, refused)
      /\ NotYet(Top, HeldNow, stack)
  BY <1>1, TopOwes
<1>7. /\ out \subseteq out' /\ refused \subseteq refused'
      /\ Top.op = "publish" => Notified(Top, Top.to, out', refused')
  OBVIOUS
<1>8. ASSUME f.op = "publish", NEW n \in f.snapshot, n \in HeldNow'
      PROVE  Notified(f, n, out', refused') \/ ToNotify(f, n)
  <2>1. Notified(Top, n, out, refused) \/ ToNotify(Top, n)
    BY ONLY <1>3, <1>5, <1>6, <1>8 DEF PublishOK
  <2>2. CASE Notified(Top, n, out, refused)
    BY ONLY <1>3, <1>7, <2>2 DEF Notified
  <2>3. CASE \E l \in 1..Len(Top.left) : Top.left[l] = n
    BY ONLY <1>3, <2>3 DEF ToNotify
  <2>4. CASE Top.to = n
    BY ONLY <1>3, <1>7, <1>8, <2>4 DEF Notified
  <2>5. QED BY ONLY <2>1, <2>2, <2>3, <2>4 DEF ToNotify
<1>9. f.op = "open" => Opens(f) /\ (Opening(f) => Opening(Top))
  BY ONLY <1>3, <1>6 DEF NotYet, Opens, Opening
<1>10. f.op = "publish" =>
         \A n \in f.snapshot : n \in HeldNow' => Notified(f, n, out', refused') \/ ToNotify(f, n)
  BY <1>8
<1>11. HeldNow' \subseteq HeldNow /\ sub' = sub
  BY <1>5
<1>12. QED BY <1>1, <1>3, <1>4, <1>7, <1>9, <1>10, <1>11, TopServed

LEMMA SendReturnsServed == ASSUME IInv, Served, SendReturns PROVE Served'
<1> DEFINE f == [Top EXCEPT !.left = LeftAfter(Top), !.to = 0]
<1>1. /\ stack # <<>> /\ Top.to # 0 /\ Top.result # "calling"
      /\ stack' = WithTop(f) /\ UNCHANGED <<sub, out, refused>>
  BY DEF SendReturns, Running, Sending
<1>2. Top \in Frame
  BY <1>1, TopFacts
<1>3. LeftAfter(Top) \in Seq(Numbers) /\ (Top.op # "sendRequest" => LeftAfter(Top) = Top.left)
  BY <1>2 DEF LeftAfter, Frame
<1>4. /\ f \in Frame /\ f.by = Top.by /\ f.op = Top.op /\ f.left = LeftAfter(Top) /\ f.to = 0
      /\ f.snapshot = Top.snapshot
  BY <1>2, <1>3 DEF Frame
<1> HIDE DEF f
<1>5. /\ PublishOK(Top, DOMAIN sub, HeldNow, out, refused)
      /\ NotYet(Top, HeldNow, stack)
  BY <1>1, TopOwes
<1>6. ASSUME f.op = "publish", NEW n \in f.snapshot, n \in HeldNow
      PROVE  Notified(f, n, out, refused) \/ ToNotify(f, n)
  <2>1. Notified(Top, n, out, refused) \/ ToNotify(Top, n)
    BY ONLY <1>4, <1>5, <1>6 DEF PublishOK
  <2>2. CASE Notified(Top, n, out, refused)
    BY ONLY <1>4, <2>2 DEF Notified
  <2>3. CASE ToNotify(Top, n)
    <3>1. f.left = Top.left
      BY ONLY <1>3, <1>4, <1>6
    <3>2. QED BY ONLY <1>1, <2>3, <3>1 DEF ToNotify
  <2>4. QED BY <2>1, <2>2, <2>3
<1>7. CASE Top.op # "open"
  <2>1. UNCHANGED subscriptions
    BY <1>7 DEF SendReturns
  <2>2. HeldNow' = HeldNow
    BY <2>1 DEF HeldNow
  <2>3. f.op = "publish" =>
          \A n \in f.snapshot : n \in HeldNow' => Notified(f, n, out', refused') \/ ToNotify(f, n)
    BY <1>1, <1>6, <2>2
  <2>4. f.op # "open" /\ HeldNow' \subseteq HeldNow /\ sub' = sub
        /\ out \subseteq out' /\ refused \subseteq refused'
    BY <1>1, <1>4, <1>7, <2>2
  <2>5. QED BY <1>1, <1>4, <2>3, <2>4, TopServed
<1>8. CASE Top.op = "open"
  <2>1. Top.to = Top.by /\ Top.left = <<>>
    BY ONLY <1>1, <1>5, <1>8 DEF NotYet, Opens
  <2>2. Opening(Top) /\ ~Opening(f) /\ Opens(f)
    BY ONLY <1>1, <1>3, <1>4, <1>8, <2>1 DEF Opening, Opens
  <2>3. \A k \in Keys : subscriptions'[k] # NoSubscription =>
          subscriptions'[k] = subscriptions[k] \/ subscriptions'[k] = Top.to
    <3>1. \/ UNCHANGED subscriptions
          \/ \E held : /\ held = [subscriptions EXCEPT ![sub[Top.to].key] = Top.to]
                       /\ \/ subscriptions' = held
                          \/ subscriptions' = Cancelled(held, {Top.to})
      BY DEF SendReturns, Hold
    <3>2. CASE UNCHANGED subscriptions
      BY <3>2
    <3>3. ASSUME NEW held, held = [subscriptions EXCEPT ![sub[Top.to].key] = Top.to],
                 subscriptions' = held \/ subscriptions' = Cancelled(held, {Top.to})
          PROVE  \A k \in Keys : subscriptions'[k] # NoSubscription =>
                   subscriptions'[k] = subscriptions[k] \/ subscriptions'[k] = Top.to
      <4>1. \A k \in Keys : held[k] = subscriptions[k] \/ held[k] = Top.to
        BY <3>3 DEF IInv, TypeOK
      <4>2. \A k \in Keys : subscriptions'[k] # NoSubscription => subscriptions'[k] = held[k]
        BY <3>3 DEF Cancelled
      <4>3. QED BY ONLY <4>1, <4>2
    <3>4. QED BY <3>1, <3>2, <3>3
  <2>4. HeldNow' \subseteq HeldNow \cup {Top.by}
    BY <2>1, <2>3 DEF HeldNow
  <2>5. f.op # "publish" /\ sub' = sub /\ out \subseteq out' /\ refused \subseteq refused'
    BY <1>1, <1>4, <1>8
  <2>6. QED BY <1>1, <1>4, <2>2, <2>4, <2>5, TopServed
<1>9. QED BY <1>7, <1>8

LEMMA InitServed == Init => Served
BY DEF Init, Served

LEMMA StepServed == IInv /\ Served /\ [Next]_vars => Served'
<1> SUFFICES ASSUME IInv, Served, [Next]_vars PROVE Served'
  OBVIOUS
<1>1. ASSUME NEW k \in Keys, NEW s \in Streams, NEW wants \in SUBSET Topics, open(k, s, wants)
      PROVE  Served'
  <2>1. calls + 1 \in Numbers /\ <<calls + 1>> \in Seq(Numbers)
    BY <1>1, HeldLemma, ListenAssumption DEF open, Enter, Numbers
  <2>2. /\ Enter("open", <<calls + 1>>) /\ UNCHANGED <<subscriptions, out, refused>>
        /\ DOMAIN sub \subseteq DOMAIN sub'
    BY <1>1 DEF open
  <2>3. QED BY <2>1, <2>2, EnterServed
<1>2. ASSUME NEW op \in {"publish", "sendRequest", "closeAll"}, NEW S, S \subseteq HeldNow,
             NEW left \in Snapshots(S), Enter(op, left),
             UNCHANGED <<subscriptions, sub, out, refused>>
      PROVE  Served'
  <2>1. S \subseteq Numbers
    BY <1>2, HeldLemma
  <2>2. left \in Seq(Numbers) /\ \A n \in 1..Len(left) : left[n] \in HeldNow
    BY <1>2, <2>1, SnapshotLemma
  <2>3. QED BY <1>2, <2>2, EnterServed
<1>3. ASSUME NEW topic \in Topics, publish(topic) PROVE Served'
  <2> DEFINE S == {i \in HeldNow : topic \in sub[i].wants}
  <2>1. PICK left \in Snapshots(S) : Enter("publish", left)
    BY <1>3 DEF publish
  <2>2. S \subseteq HeldNow
    OBVIOUS
  <2> HIDE DEF S
  <2>3. QED BY <1>2, <1>3, <2>1, <2>2 DEF publish
<1>4. ASSUME NEW c \in Callers, sendRequest(c) PROVE Served'
  <2> DEFINE S == {i \in HeldNow : sub[i].key[1] = c}
  <2>1. PICK left \in Snapshots(S) : Enter("sendRequest", left)
    BY <1>4 DEF sendRequest
  <2>2. S \subseteq HeldNow
    OBVIOUS
  <2> HIDE DEF S
  <2>3. QED BY <1>2, <1>4, <2>1, <2>2 DEF sendRequest
<1>5. ASSUME NEW k \in Keys, close(k) PROVE Served'
  <2> DEFINE i == subscriptions[k]
  <2>1. i \in Numbers
    BY <1>5, HeldLemma DEF close, IInv, TypeOK
  <2>2. /\ <<i>> \in Seq(Numbers)
        /\ Enter("close", <<i>>) /\ UNCHANGED <<subscriptions, sub, out, refused>>
    BY <1>5, <2>1 DEF close
  <2> HIDE DEF i
  <2>3. QED BY <2>2, EnterServed
<1>6. CASE closeAll
  <2>1. PICK left \in Snapshots(HeldNow) : Enter("closeAll", left)
    BY <1>6 DEF closeAll
  <2>2. QED BY <1>2, <1>6, <2>1 DEF closeAll
<1>7. CASE Visit
  BY <1>7, VisitServed
<1>8. CASE Return
  BY <1>8, ReturnServed
<1>9. CASE Write
  <2>1. /\ Sending /\ stack' = WithTop([Top EXCEPT !.result = "sent"])
        /\ UNCHANGED <<subscriptions, sub>> /\ refused' = refused
        /\ out' = out \cup {[kind |-> KindOf(Top.op), by |-> Top.by, to |-> Top.to]}
    BY <1>9 DEF Write
  <2>2. Top.op = "publish" => Notified(Top, Top.to, out', refused')
    BY <2>1 DEF Notified, KindOf
  <2>3. QED BY <2>1, <2>2, SendServed
<1>10. CASE Refuse
  <2>1. /\ Sending /\ stack' = WithTop([Top EXCEPT !.result = "refused"])
        /\ UNCHANGED <<subscriptions, sub>> /\ out' = out
        /\ refused' = refused \cup {<<Top.by, Top.to>>}
    BY <1>10 DEF Refuse
  <2>2. Notified(Top, Top.to, out', refused')
    BY <2>1 DEF Notified
  <2>3. QED BY <2>1, <2>2, SendServed
<1>11. ASSUME NEW s \in Streams, StreamGone(s) PROVE Served'
  <2>1. UNCHANGED <<sub, stack, out, refused>>
    BY <1>11 DEF StreamGone
  <2>2. \A k \in Keys : subscriptions'[k] # NoSubscription => subscriptions'[k] = subscriptions[k]
    BY <1>11 DEF StreamGone, Cancelled
  <2>3. QED BY <2>1, <2>2, QuietServed
<1>12. CASE SendReturns
  BY <1>12, SendReturnsServed
<1>13. CASE forgetDead
  <2>1. UNCHANGED <<sub, stack, out, refused>>
    BY <1>13 DEF forgetDead
  <2>2. \A k \in Keys : subscriptions'[k] # NoSubscription => subscriptions'[k] = subscriptions[k]
    BY <1>13 DEF forgetDead
  <2>3. QED BY <2>1, <2>2, QuietServed
<1>14. CASE UNCHANGED vars
  BY <1>14, QuietServed DEF vars
<1>15. QED
  BY <1>1, <1>3, <1>4, <1>5, <1>6, <1>7, <1>8, <1>9, <1>10, <1>11, <1>12, <1>13, <1>14 DEF Next

\* Only a call's return makes the stack shorter.
LEMMA OnlyReturnEnds ==
  ASSUME IInv, [Next]_vars, Len(stack') < Len(stack)
  PROVE  Return
<1>1. stack \in Seq(Frame) /\ Len(stack) \in Nat
  BY DEF IInv, TypeOK
<1>2. ASSUME NEW op, NEW left, Enter(op, left) PROVE FALSE
  <2>1. Len(stack') = Len(stack) + 1
    BY <1>1, <1>2 DEF Enter
  <2>2. QED BY <1>1, <2>1
<1>3. ASSUME NEW f, stack' = WithTop(f) PROVE FALSE
  <2>1. Len(stack') = Len(stack)
    BY <1>1, <1>3 DEF WithTop
  <2>2. QED BY <1>1, <2>1
<1>4. stack' # stack
  BY <1>1
<1>5. ~(UNCHANGED vars) /\ ~forgetDead /\ ~(\E s \in Streams : StreamGone(s))
  BY <1>4 DEF vars, forgetDead, StreamGone
<1>6. ~Visit /\ ~Write /\ ~Refuse /\ ~SendReturns
  BY <1>3 DEF Visit, Write, Refuse, SendReturns
<1>7. /\ ~(\E k \in Keys, s \in Streams, wants \in SUBSET Topics : open(k, s, wants))
      /\ ~(\E topic \in Topics : publish(topic))
      /\ ~(\E c \in Callers : sendRequest(c))
      /\ ~(\E k \in Keys : close(k))
      /\ ~closeAll
  BY <1>2 DEF open, publish, sendRequest, close, closeAll
<1>8. QED BY <1>5, <1>6, <1>7 DEF Next

LEMMA PublishEnds ==
  ASSUME IInv, Served, [Next]_vars, Len(stack') < Len(stack), Top.op = "publish"
  PROVE  \A i \in Top.snapshot \cap HeldNow :
           [kind |-> "note", by |-> Top.by, to |-> i] \in out \/ <<Top.by, i>> \in refused
<1>1. stack # <<>> /\ Top.left = <<>> /\ Top.to = 0
  BY OnlyReturnEnds DEF Return, Running
<1>2. PublishOK(Top, DOMAIN sub, HeldNow, out, refused)
  BY <1>1, TopOwes
<1>3. \A i \in DOMAIN sub : i # 0
  BY <1>1, TopFacts DEF NoSubscription
<1>4. SUFFICES ASSUME NEW i \in Top.snapshot, i \in HeldNow
               PROVE  Notified(Top, i, out, refused)
  BY DEF Notified
<1>5. Notified(Top, i, out, refused) \/ ToNotify(Top, i)
  BY <1>2, <1>4 DEF PublishOK
<1>6. i # 0
  BY <1>2, <1>3 DEF PublishOK
<1>7. ~ToNotify(Top, i)
  BY ONLY <1>1, <1>6 DEF ToNotify
<1>8. QED BY <1>5, <1>7

-----------------------------------------------------------------------------
(* The theorems. *)

LEMMA InitInv == Init => IInv
<1> SUFFICES ASSUME Init PROVE IInv
  OBVIOUS
<1> USE DEF Init
<1>1. DOMAIN sub = {} /\ Len(stack) = 0 /\ stack \in Seq(Frame)
  OBVIOUS
<1>2. TypeOK
  BY <1>1, ListenAssumption DEF TypeOK, NoSubscription
<1>3. FramesOK /\ Watched /\ OutOK /\ RequestSentOnce /\ HeldOrClosing
  BY <1>1 DEF FramesOK, Watched, OutOK, RequestSentOnce, HeldOrClosing, NoSubscription
<1> QED BY <1>2, <1>3 DEF IInv

LEMMA StepInv == IInv /\ [Next]_vars => IInv'
<1> SUFFICES ASSUME IInv, [Next]_vars PROVE IInv'
  OBVIOUS
<1>1. ASSUME NEW k \in Keys, NEW s \in Streams, NEW wants \in SUBSET Topics, open(k, s, wants)
      PROVE  IInv'
  BY <1>1, OpenInv
<1>2. ASSUME NEW topic \in Topics, publish(topic) PROVE IInv'
  <2> DEFINE S == {i \in HeldNow : topic \in sub[i].wants}
  <2>1. PICK left \in Snapshots(S) : Enter("publish", left)
    BY <1>2 DEF publish
  <2>2. S \subseteq HeldNow
    OBVIOUS
  <2> HIDE DEF S
  <2> QED BY <1>2, <2>1, <2>2, SnapshotInv DEF publish
<1>3. ASSUME NEW c \in Callers, sendRequest(c) PROVE IInv'
  <2> DEFINE S == {i \in HeldNow : sub[i].key[1] = c}
  <2>1. PICK left \in Snapshots(S) : Enter("sendRequest", left)
    BY <1>3 DEF sendRequest
  <2>2. S \subseteq HeldNow
    OBVIOUS
  <2> HIDE DEF S
  <2> QED BY <1>3, <2>1, <2>2, SnapshotInv DEF sendRequest
<1>4. ASSUME NEW k \in Keys, close(k) PROVE IInv'
  BY <1>4, CloseInv
<1>5. CASE closeAll
  <2>1. PICK left \in Snapshots(HeldNow) : Enter("closeAll", left)
    BY <1>5 DEF closeAll
  <2> QED BY <1>5, <2>1, SnapshotInv DEF closeAll
<1>6. CASE Visit
  BY <1>6, VisitInv
<1>7. CASE Return
  BY <1>7, ReturnInv
<1>8. CASE Write
  BY <1>8, WriteInv
<1>9. CASE Refuse
  BY <1>9, RefuseInv
<1>10. ASSUME NEW s \in Streams, StreamGone(s) PROVE IInv'
  BY <1>10, StreamGoneInv
<1>11. CASE SendReturns
  BY <1>11, SendReturnsInv
<1>12. CASE forgetDead
  BY <1>12, ForgetDeadInv
<1>13. CASE UNCHANGED vars
  BY <1>13 DEF vars, IInv, TypeOK, FramesOK, Watched, OutOK, RequestSentOnce, HeldOrClosing,
               Registered, isCurrent
<1> QED BY <1>1, <1>2, <1>3, <1>4, <1>5, <1>6, <1>7, <1>8, <1>9, <1>10, <1>11, <1>12, <1>13 DEF Next

LEMMA Invariant == Spec => []IInv
BY InitInv, StepInv, PTL DEF Spec

\* Every state is of its type (the registry's maps, its streams and its calls).
THEOREM TypeCorrect == Spec => []TypeOK
<1>1. IInv => TypeOK
  BY DEF IInv
<1> QED BY <1>1, Invariant, PTL

\* publish, sendRequest, close and closeAll speak to no subscription opened
\* after they began, however deep the calls nest.
THEOREM NewcomersLeftAlone == Spec => []OnlyThoseThere
<1>1. IInv => OnlyThoseThere
  BY DEF IInv, OutOK, OnlyThoseThere
<1> QED BY <1>1, Invariant, PTL

\* sendRequest writes its request to one stream.
THEOREM OneRequest == Spec => []RequestSentOnce
<1>1. IInv => RequestSentOnce
  BY DEF IInv
<1> QED BY <1>1, Invariant, PTL

\* The registry holds no subscription whose stream was cancelled, whether the
\* cancellation came before, during or after its registration.
THEOREM NoneUnreachable == Spec => []HeldIsReachable
<1>1. IInv => HeldIsReachable
  BY DEF IInv, Watched, HeldIsReachable, HeldNow
<1> QED BY <1>1, Invariant, PTL

\* A live subscription is held until a closing call is about to answer it;
\* what happens to another under its name does not touch it.
THEOREM NoneDropped == Spec => []LiveStaysHeld
<1>1. IInv => LiveStaysHeld
  <2> SUFFICES ASSUME IInv PROVE LiveStaysHeld
    OBVIOUS
  <2>1. DOMAIN stack = 1..Len(stack)
    BY DEF IInv, TypeOK
  <2> QED BY <2>1 DEF IInv, HeldOrClosing, LiveStaysHeld, Closing
<1> QED BY <1>1, Invariant, PTL

\* What a call says goes to those it was for, whatever its sends let happen.
THEOREM SendsCorrect == Spec => []SentAsAsked
BY NewcomersLeftAlone, OneRequest, PTL DEF SentAsAsked

\* The registry holds exactly the subscriptions it should between any two steps.
THEOREM SubscriptionsCorrect == Spec => []SubscriptionsSound
BY TypeCorrect, NoneDropped, NoneUnreachable, PTL DEF SubscriptionsSound

\* publish() reaches every subscription it settled on that is still held when
\* it returns, unless that one's own stream refused the message, whatever its
\* other sends opened, closed, replaced or cancelled.
THEOREM PublishCorrect == Spec => PublishReachesAll
<1>1. Spec => []Served
  <2>1. IInv /\ Served /\ [Next]_vars => Served'
    BY StepServed
  <2>2. QED BY Invariant, InitServed, <2>1, PTL DEF Spec
<1>2. IInv /\ Served /\ [Next]_vars =>
        [(Len(stack') < Len(stack) /\ Top.op = "publish") =>
           \A i \in Top.snapshot \cap HeldNow :
             [kind |-> "note", by |-> Top.by, to |-> i] \in out \/ <<Top.by, i>> \in refused]_vars
  BY PublishEnds
<1>3. QED BY Invariant, <1>1, <1>2, PTL DEF Spec, PublishReachesAll
=============================================================================
