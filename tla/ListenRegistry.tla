--------------------------- MODULE ListenRegistry ---------------------------
(***************************************************************************)
(* ListenRegistry: the subscriptions a server holds open and what goes     *)
(* down the stream of each.                                                *)
(*                                                                         *)
(* One thread runs the registry, but every send on a stream is a call out  *)
(* of it: before the call returns, any stream may be cancelled and any     *)
(* operation of the registry may be called again.  The calls under way     *)
(* form a stack; only its top makes steps of its own.                      *)
(*                                                                         *)
(* Abstractions.  A call has a number, and a subscription is named by the  *)
(* number of the open() that made it.  A filter is the set of the topics   *)
(* it wants.  A send either puts its message on the stream or is refused;  *)
(* it is always refused on a stream that was answered or whose client is   *)
(* gone.                                                                   *)
(***************************************************************************)
EXTENDS Integers, Sequences, FiniteSets, SequencesExt

CONSTANTS
  Callers, Ids,    \* who subscribes, and the request ids they use
  Streams,         \* the response streams their requests opened
  Topics,          \* what a filter can want
  MaxCalls,        \* bound: calls made in all
  MaxDepth         \* bound: calls under way at once

ASSUME ListenAssumption ==
  /\ MaxCalls \in Nat /\ MaxDepth \in Nat
  /\ Streams # {}

VARIABLES
  subscriptions,   \* per key: the subscription held under it, or 0
  sub,             \* per open() made so far: the Subscription it is about
  stream,          \* per stream: "up", "answered" or "gone" (cancelled)
  observers,       \* per stream: the subscriptions its cancellation tells
  stack,           \* the calls under way, the innermost last
  calls,           \* calls made so far
  out,             \* every message sent, on whichever stream
  refused          \* sends refused, as <<call, subscription>>

vars == <<subscriptions, sub, stream, observers, stack, calls, out, refused>>

Keys == Callers \X Ids
Numbers == 1..MaxCalls
Subscription == [key : Keys, stream : Streams, wants : SUBSET Topics]
NoSubscription == 0

\* A call under way: what it is, which number it has, the subscriptions it
\* settled on and those it still has to visit, and the one it is sending to, or 0 between two sends.
Frame == [op : {"open", "publish", "sendRequest", "close", "closeAll"}, by : Numbers,
          snapshot : SUBSET Numbers, left : Seq(Numbers), to : Numbers \cup {0}, result : {"calling", "sent", "refused"}]
Message == [kind : {"ack", "note", "request", "bye"}, by : Numbers, to : Numbers]

NewFrame(op, n, left) == [op |-> op, by |-> n, snapshot |-> Range(left), left |-> left, to |-> 0, result |-> "calling"]

Init ==
  /\ subscriptions = [k \in Keys |-> NoSubscription]
  /\ sub = <<>>
  /\ stream = [s \in Streams |-> "up"]
  /\ observers = [s \in Streams |-> {}]
  /\ stack = <<>>
  /\ calls = 0
  /\ out = {}
  /\ refused = {}

Top == stack[Len(stack)]
WithTop(f) == [stack EXCEPT ![Len(stack)] = f]
Popped == SubSeq(stack, 1, Len(stack) - 1)

\* Code outside the registry runs: nothing is under way, or a send is.
Outside == IF stack = <<>> THEN TRUE ELSE Top.to # 0

isCurrent_ByKey(held, i) == held[sub[i].key] # NoSubscription

\* isCurrent(): held under its key, and the same instance.
isCurrent(held, i) == held[sub[i].key] = i

HeldNow == {subscriptions[k] : k \in Keys} \ {NoSubscription}

\* A snapshot, in some order: the map's is that of its keys.
Snapshots(S) == SetToSeqs(S)

-----------------------------------------------------------------------------
(* Calls into the registry. *)

Enter(op, left) ==
  /\ Outside
  /\ calls < MaxCalls
  /\ Len(stack) < MaxDepth
  /\ calls' = calls + 1
  /\ stack' = Append(stack, NewFrame(op, calls + 1, left))

\* open(): refused at once under a name already taken.
open(k, s, wants) ==
  /\ Enter("open", <<calls + 1>>)
  /\ sub' = [i \in DOMAIN sub \cup {calls + 1} |->
               IF i = calls + 1 THEN [key |-> k, stream |-> s, wants |-> wants] ELSE sub[i]]
  /\ subscriptions[k] = NoSubscription
  /\ UNCHANGED <<subscriptions, stream, observers, out, refused>>

\* publish(): the recipients are settled before anything is sent.
publish(topic) ==
  /\ \E left \in Snapshots({i \in HeldNow : topic \in sub[i].wants}) : Enter("publish", left)
  /\ UNCHANGED <<subscriptions, sub, stream, observers, out, refused>>

\* sendRequest(): the candidates are those of one caller.
sendRequest(c) ==
  /\ \E left \in Snapshots({i \in HeldNow : sub[i].key[1] = c}) : Enter("sendRequest", left)
  /\ UNCHANGED <<subscriptions, sub, stream, observers, out, refused>>

close(k) ==
  /\ subscriptions[k] # NoSubscription
  /\ Enter("close", <<subscriptions[k]>>)
  /\ UNCHANGED <<subscriptions, sub, stream, observers, out, refused>>

closeAll ==
  /\ \E left \in Snapshots(HeldNow) : Enter("closeAll", left)
  /\ UNCHANGED <<subscriptions, sub, stream, observers, out, refused>>

-----------------------------------------------------------------------------
(* A step of the innermost call. *)

Running == IF stack = <<>> THEN FALSE ELSE Top.to = 0

\* Who the next subscription of the snapshot turns out to be: itself if it is
\* still the one held, and nobody otherwise.
Recipient_ByName(i) == IF Top.op = "open" THEN i ELSE subscriptions[sub[i].key]

Recipient(i) ==
  IF /\ Top.op # "open" => isCurrent(subscriptions, i)
     /\ Top.op = "sendRequest" => stream[sub[i].stream] # "answered"
  THEN i ELSE NoSubscription

\* It is passed over, or sent to.  A closing call lets go of it first.
Visit ==
  /\ Running
  /\ Top.left # <<>>
  /\ LET i == Recipient(Head(Top.left)) IN
       /\ stack' = WithTop([Top EXCEPT !.left = Tail(@), !.to = i, !.result = "calling"])
       /\ subscriptions' = IF i # NoSubscription /\ Top.op \in {"close", "closeAll"}
                           THEN [subscriptions EXCEPT ![sub[i].key] = NoSubscription]
                           ELSE subscriptions
  /\ UNCHANGED <<sub, stream, observers, calls, out, refused>>

Return ==
  /\ Running
  /\ Top.left = <<>>
  /\ stack' = Popped
  /\ UNCHANGED <<subscriptions, sub, stream, observers, calls, out, refused>>

-----------------------------------------------------------------------------
(* What happens inside a send. *)

Sending == IF stack = <<>> THEN FALSE ELSE Top.to # 0 /\ Top.result = "calling"

KindOf(op) == CASE op = "open" -> "ack"
                [] op = "publish" -> "note"
                [] op = "sendRequest" -> "request"
                [] op \in {"close", "closeAll"} -> "bye"

\* The bytes go out.  An answer is the last thing its stream carries.
Write ==
  /\ Sending
  /\ LET s == sub[Top.to].stream IN
       /\ stream[s] = "up"
       /\ stream' = [stream EXCEPT ![s] = IF KindOf(Top.op) = "bye" THEN "answered" ELSE @]
  /\ out' = out \cup {[kind |-> KindOf(Top.op), by |-> Top.by, to |-> Top.to]}
  /\ stack' = WithTop([Top EXCEPT !.result = "sent"])
  /\ UNCHANGED <<subscriptions, sub, observers, calls, refused>>

Refuse ==
  /\ Sending
  /\ refused' = refused \cup {<<Top.by, Top.to>>}
  /\ LET s == sub[Top.to].stream IN
       stream' = [stream EXCEPT ![s] = IF KindOf(Top.op) = "bye" /\ @ = "up"
                                       THEN "answered" ELSE @]
  /\ stack' = WithTop([Top EXCEPT !.result = "refused"])
  /\ UNCHANGED <<subscriptions, sub, observers, calls, out>>

\* A stream's client goes: whoever watches it is told, before anything else.
\* Each observer forgets its own subscription, if it is still held.
Cancelled_ByKey(held, watched) ==
  [k \in Keys |-> IF \E i \in watched : isCurrent_ByKey(held, i) /\ sub[i].key = k
                  THEN NoSubscription ELSE held[k]]

Cancelled(held, watched) ==
  [k \in Keys |-> IF \E i \in watched : isCurrent(held, i) /\ sub[i].key = k
                  THEN NoSubscription ELSE held[k]]

StreamGone(s) ==
  /\ Outside
  /\ stream[s] # "gone"
  /\ stream' = [stream EXCEPT ![s] = "gone"]
  /\ observers' = [observers EXCEPT ![s] = {}]
  /\ subscriptions' = Cancelled(subscriptions, observers[s])
  /\ UNCHANGED <<sub, stack, calls, out, refused>>

-----------------------------------------------------------------------------
(* The send returns to the call that made it. *)

\* An acknowledged subscription is held, unless its name was taken meanwhile,
\* and watches its stream; one already cancelled tells it at once.
Hold(i) ==
  LET s == sub[i].stream IN
  IF subscriptions[sub[i].key] # NoSubscription
  THEN UNCHANGED <<subscriptions, observers>>
  ELSE LET held == [subscriptions EXCEPT ![sub[i].key] = i] IN
       IF stream[s] = "gone"
       THEN subscriptions' = Cancelled(held, {i}) /\ UNCHANGED observers
       ELSE subscriptions' = held /\ observers' = [observers EXCEPT ![s] = @ \cup {i}]

LeftAfter_StopsAtRefusal(f) ==
  IF f.op # "open" /\ (f.op = "sendRequest" <=> f.result = "sent") THEN <<>> ELSE f.left

\* A request that went out needs no other stream; one refused tries the next.
LeftAfter(f) == IF f.op = "sendRequest" /\ f.result = "sent" THEN <<>> ELSE f.left

SendReturns ==
  /\ ~Running /\ ~Sending /\ stack # <<>>
  /\ IF Top.op = "open" /\ Top.result = "sent"
     THEN Hold(Top.to) ELSE UNCHANGED <<subscriptions, observers>>
  /\ stack' = WithTop([Top EXCEPT !.left = LeftAfter(Top), !.to = 0])
  /\ UNCHANGED <<sub, stream, calls, out, refused>>

\* forgetDead(), between two calls.
forgetDead ==
  /\ Outside
  /\ \E k \in Keys : /\ subscriptions[k] # NoSubscription
                     /\ stream[sub[subscriptions[k]].stream] = "answered"
  /\ subscriptions' =
       [k \in Keys |-> IF subscriptions[k] # NoSubscription
                          /\ stream[sub[subscriptions[k]].stream] = "answered"
                       THEN NoSubscription ELSE subscriptions[k]]
  /\ UNCHANGED <<sub, stream, observers, stack, calls, out, refused>>

Next ==
  \/ \E k \in Keys, s \in Streams, wants \in SUBSET Topics : open(k, s, wants)
  \/ \E topic \in Topics : publish(topic)
  \/ \E c \in Callers : sendRequest(c)
  \/ \E k \in Keys : close(k)
  \/ closeAll
  \/ Visit
  \/ Return
  \/ Write
  \/ Refuse
  \/ \E s \in Streams : StreamGone(s)
  \/ SendReturns
  \/ forgetDead

Spec == Init /\ [][Next]_vars

-----------------------------------------------------------------------------
(* Properties *)

TypeOK ==
  /\ subscriptions \in [Keys -> Numbers \cup {NoSubscription}]
  /\ DOMAIN sub \subseteq 1..calls
  /\ \A i \in DOMAIN sub : sub[i] \in Subscription
  /\ \A k \in Keys : subscriptions[k] # NoSubscription =>
       subscriptions[k] \in DOMAIN sub /\ sub[subscriptions[k]].key = k
  /\ stream \in [Streams -> {"up", "answered", "gone"}]
  /\ observers \in [Streams -> SUBSET Numbers]
  /\ \A s \in Streams : stream[s] = "gone" => observers[s] = {}
  /\ stack \in Seq(Frame)
  /\ calls \in 0..MaxCalls
  /\ out \subseteq Message
  /\ refused \subseteq Numbers \X Numbers

\* No call speaks to a subscription opened after the call began, whatever was
\* replaced while it was sending: a name reused is not the subscription that
\* was asked for.
OnlyThoseThere == \A m \in out : m.kind # "ack" => m.to < m.by

\* A request is written once, however many streams its caller holds and
\* however the sends before it ended.  ("one JSON-RPC request must be sent
\* once")
RequestSentOnce ==
  \A m1, m2 \in out : (m1.kind = "request" /\ m2.kind = "request" /\ m1.by = m2.by) => m1 = m2

\* A subscription that was acknowledged stays held while its stream is open:
\* nothing that happens to another instance of its name takes it away.
Registered(i) == i \in observers[sub[i].stream]
LiveStaysHeld ==
  \A i \in DOMAIN sub :
    (Registered(i) /\ stream[sub[i].stream] = "up") =>
      \/ isCurrent(subscriptions, i)
      \/ \E j \in DOMAIN stack : stack[j].to = i

\* No subscription is held whose client is gone: a cancellation is heard
\* whenever it comes, before the registration that would watch for it too.
HeldIsReachable == \A i \in HeldNow : stream[sub[i].stream] # "gone"

\* A change reaches every subscription that was held, wanted it and still is
\* held when the call ends, unless that one's own stream refused it.
\* ("A change matching two of a client's subscriptions goes to both")
PublishReachesAll ==
  [][(Len(stack') < Len(stack) /\ Top.op = "publish") =>
       \A i \in Top.snapshot \cap HeldNow :
         [kind |-> "note", by |-> Top.by, to |-> i] \in out \/ <<Top.by, i>> \in refused]_vars

\* What a call says goes to those it was for: a request once, and nothing to a
\* subscription opened after the call began, whatever is cancelled, closed or
\* replaced between two of its sends.
SentAsAsked == OnlyThoseThere /\ RequestSentOnce

\* The registry holds the subscriptions it should: none whose client is gone,
\* and every one whose stream is open, while handlers re-enter it.
SubscriptionsSound == TypeOK /\ LiveStaysHeld /\ HeldIsReachable
=============================================================================
