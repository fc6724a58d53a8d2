------------------------- MODULE RequestExchangeProofs -------------------------
(***************************************************************************)
(* That no exchange is forgotten, that a client can read what it is sent,  *)
(* and that every step of an exchange is a step of RequestLifetime, for    *)
(* every number of requests, kind of client and length of retention.       *)
(*                                                                         *)
(* What makes it inductive is who holds an exchange: the connection's      *)
(* registry, the store, the handler, a call under way or the parser's      *)
(* queue, and what each of them knows of it; and, where answers are to be  *)
(* in order, that only the request begun last is being answered.           *)
(***************************************************************************)
EXTENDS RequestExchange, TLAPS, SequenceTheorems, WellFoundedInduction

Frames == [call : {"dispatch", "finish"}, of : Requests]

\* What the fields of an exchange say of one another.
ExchangeOK(e, r) ==
  /\ e.mode = "none" => e = Unborn
  /\ e.mode # "none" => r <= Len(kind)
  /\ e.retain => e.mode \in {"Stream", "Complete"} /\ ~kind[r].modern
  /\ e.sink = "kept" => e.retain
  /\ e.cancelled <=> e.sink = "gone"
  /\ e.cancelled => e.watching = 0

\* An answer the connection is still to carry.
Live(r) == exchange[r].mode \in {"Open", "Stream"} /\ exchange[r].sink = "connection"

\* Who holds an exchange, and what that says of it.
Owned ==
  /\ \A r \in Requests : ExchangeOK(exchange[r], r)
  /\ \A r \in Requests : Live(r) => conn.up /\ r \in registry
  /\ \A r \in Requests : (exchange[r].mode = "Stream" /\ exchange[r].sink = "kept") => r \in kept
  /\ \A r \in app : exchange[r].mode # "none"
  /\ \A r \in registry : exchange[r].mode # "none" /\ exchange[r].sink = "connection"
  /\ \A r \in kept : exchange[r].sink = "kept"

\* What waits for the parser: requests nobody has begun, each of them once.
Waiting ==
  /\ \A i \in 1..Len(held) : held[i] <= Len(kind) /\ exchange[held[i]].mode = "none"
  /\ \A i, j \in 1..Len(held) : held[i] = held[j] => i = j
  /\ ~conn.up => held = <<>>

\* The calls under way: a stream that is being finished is still a stream, a
\* finish inside a dispatch is of the same request, and one dispatch at most
\* runs inside a finish, of another request.
Calls ==
  /\ Len(stack) <= 3
  /\ \A i \in 1..Len(stack) :
       IF stack[i].call = "finish"
       THEN exchange[stack[i].of].mode = "Stream" /\ exchange[stack[i].of].sink = "connection"
       ELSE stack[i].of \in app
  /\ \A i \in 2..Len(stack) :
       IF stack[i].call = "finish"
       THEN stack[i - 1] = Frame("dispatch", stack[i].of)
       ELSE i = 2 /\ stack[1].call = "finish" /\ stack[1].of # stack[2].of
  /\ Len(stack) = 3 => stack[1].call = "finish"

\* The last request whose answer was begun.
Newest == Len(kind) - Len(held)

Ends == {"tail", "unary"}

\* AnswersInOrder, of any wire, with what makes it possible to add to one: the
\* requests only rise along it, and strictly so after the end of an answer.
Readable(w, first) ==
  \A i \in 1..Len(w) :
    /\ w[i].what # "bare"
    /\ w[i].what \in {"head", "unary"} =>
         (IF i = 1 THEN w[i].of = first
          ELSE w[i].of = w[i - 1].of + 1 /\ w[i - 1].what \in {"tail", "unary"})
    /\ w[i].what \in {"event", "tail"} =>
         i > 1 /\ w[i - 1].of = w[i].of /\ w[i - 1].what \in {"head", "event"}

Rising(w) ==
  \A i, j \in 1..Len(w) :
    i < j => w[i].of <= w[j].of /\ (w[i].what \in Ends => w[i].of < w[j].of)

WireOK(w, n, first) ==
  /\ w \in Seq(Item)
  /\ \A i \in 1..Len(w) : w[i].of <= n
  /\ Rising(w)
  /\ Readable(w, first)

\* Where the wire stands when the answer of n has come to a mode.
Ready(w, n, first) ==
  IF w = <<>> THEN n = first ELSE w[Len(w)].of = n - 1 /\ w[Len(w)].what \in Ends
Inside(w, n) == w # <<>> /\ w[Len(w)].of = n /\ w[Len(w)].what \in {"head", "event"}
Over(w, n)   == w # <<>> /\ w[Len(w)].of = n /\ w[Len(w)].what \in Ends

StandsAt(w, mode, n, first) ==
  /\ mode = "Open" => Ready(w, n, first)
  /\ mode = "Stream" => Inside(w, n)
  /\ mode = "Complete" => Over(w, n)

WireFollows ==
  /\ \A i \in 1..Len(held) : held[i] = Newest + i
  /\ WireOK(wire, Newest, conn.first)
  /\ conn.up =>
       IF Newest < conn.first THEN Newest = conn.first - 1 /\ wire = <<>>
       ELSE /\ exchange[Newest].mode # "none" /\ exchange[Newest].sink = "connection"
            /\ StandsAt(wire, exchange[Newest].mode, Newest, conn.first)

\* Only the newest request is being answered: by its dispatch, where handlers
\* are synchronous, and with nothing behind it, where clients wait.
OneAtATime ==
  /\ \A r \in Requests :
       Live(r) => r = Newest /\ r >= conn.first
                  /\ (IF world.pipelining THEN stack # <<>> ELSE held = <<>>)
  /\ ~world.pipelining => Len(held) <= 1
  /\ world.pipelining /\ stack # <<>> => stack[1] = Frame("dispatch", Newest)
  /\ conn.gated => Newest \in Requests /\ Live(Newest) /\ exchange[Newest].mode = "Stream"
  /\ \A i \in 1..Len(stack) : stack[i].call = "finish" => ~conn.gated

Orderly == (world.pipelining /\ world.async) \/ (WireFollows /\ OneAtATime)

Sound == TypeOK /\ TimerMeetsDeadline /\ Owned /\ Waiting /\ Calls
IInv  == Sound /\ Orderly

-----------------------------------------------------------------------------
(* Sequences, and the soonest of some deadlines. *)

\* A set of numbers with something in it has a least one.
LEMMA Least ==
  ASSUME NEW T, T \subseteq Nat, T # {}
  PROVE  \E x \in T : \A y \in T : x <= y
<1>1. \E x \in T : \A y \in T : ~ (<<y, x>> \in OpToRel(<, Nat))
  BY WFMin, NatLessThanWellFounded
<1>2. PICK x \in T : \A y \in T : ~ (<<y, x>> \in OpToRel(<, Nat))
  BY <1>1
<1>3. \A y \in T : ~(y < x)
  BY <1>2 DEF OpToRel
<1> QED BY <1>3

\* armExpiryTimer arms the timer for no later than any exchange is due.
LEMMA SoonestOK ==
  ASSUME NEW due, \A r \in DOMAIN due : due[r] \in 0..Retention
  PROVE  Soonest(due) \in 0..Off /\ \A r \in DOMAIN due : Soonest(due) <= due[r]
<1>1. Retention \in Nat
  BY ExchangeAssumption
<1>2. CASE DOMAIN due = {}
  BY <1>1, <1>2 DEF Soonest, Off
<1>3. CASE DOMAIN due # {}
  <2> DEFINE T == {due[r] : r \in DOMAIN due}
             wait == CHOOSE x \in T : \A r \in DOMAIN due : x <= due[r]
  <2>1. T \subseteq 0..Retention /\ T # {} /\ T \subseteq Nat
    BY <1>1, <1>3
  <2>2. \E x \in T : \A y \in T : x <= y
    BY <2>1, Least
  <2>3. \E x \in T : \A r \in DOMAIN due : x <= due[r]
    BY <2>2
  <2>4. wait \in T /\ \A r \in DOMAIN due : wait <= due[r]
    BY <2>3
  <2>5. Soonest(due) = wait
    BY <1>3 DEF Soonest
  <2> QED BY <1>1, <2>1, <2>4, <2>5 DEF Off
<1> QED BY <1>2, <1>3

\* What a sequence is when something was added to it.
LEMMA Added ==
  ASSUME NEW S, NEW s \in Seq(S), NEW x \in S
  PROVE  /\ Append(s, x) \in Seq(S) /\ Len(Append(s, x)) = Len(s) + 1 /\ Len(s) \in Nat
         /\ Append(s, x) # <<>>
         /\ \A i \in 1..Len(s) : Append(s, x)[i] = s[i]
         /\ Append(s, x)[Len(s) + 1] = x
         /\ s \o <<x>> = Append(s, x) /\ s \o <<>> = s
  OBVIOUS

\* The call that returns, and those that stay.
LEMMA PopOK ==
  ASSUME stack \in Seq(Frames), stack # <<>>
  PROVE  /\ Len(stack) \in Nat \ {0} /\ Top \in Frames
         /\ Pop \in Seq(Frames) /\ Len(Pop) = Len(stack) - 1
         /\ \A i \in 1..Len(Pop) : Pop[i] = stack[i]
<1> DEFINE n == Len(stack) - 1
<1>1. n \in Nat /\ 1 \in Int /\ n \in Int /\ \A j \in 1..n : stack[j] \in Frames
  OBVIOUS
<1>2. /\ SubSeq(stack, 1, n) \in Seq(Frames)
      /\ Len(SubSeq(stack, 1, n)) = IF 1 <= n THEN n - 1 + 1 ELSE 0
      /\ \A j \in 1..n - 1 + 1 : SubSeq(stack, 1, n)[j] = stack[1 + j - 1]
  <2> HIDE DEF n
  <2> QED BY <1>1, SubSeqProperties
<1>3. Pop = SubSeq(stack, 1, n)
  BY DEF Pop
<1>4. Len(stack) \in Nat \ {0} /\ Top \in Frames
  BY DEF Top
<1> HIDE DEF n
<1>5. Len(Pop) = n
  BY <1>1, <1>2, <1>3
<1>6. \A j \in 1..n : 1 + j - 1 = j
  BY <1>1
<1>7. \A j \in 1..n : Pop[j] = stack[j]
  BY <1>1, <1>2, <1>3, <1>6
<1> QED BY <1>2, <1>3, <1>4, <1>5, <1>7 DEF n

-----------------------------------------------------------------------------
(* What handlers do, and the end of a stream, to the one exchange they are *)
(* about: it keeps its connection, or the loss of it, and never goes back. *)

Acted(r, e) ==
  /\ r \in Requests /\ e \in Exchange
  /\ exchange' = [exchange EXCEPT ![r] = e]
  /\ exchange[r].mode # "none" /\ e.mode # "none"
  /\ e.mode = "Open" => exchange[r].mode = "Open"
  /\ e.mode = "Stream" => exchange[r].mode \in {"Open", "Stream"}
  /\ e.sink = exchange[r].sink /\ e.cancelled = exchange[r].cancelled
  /\ ExchangeOK(e, r)
  /\ UNCHANGED <<world, kind, registry, app, held>>
  /\ conn' \in [up : BOOLEAN, closing : BOOLEAN, gated : BOOLEAN, first : 1..MaxRequests]
  /\ conn'.up = conn.up /\ conn'.first = conn.first

\* The fields of a stream that has begun.
LEMMA BegunFields ==
  ASSUME NEW e \in Exchange, NEW k \in Kind
  PROVE  /\ Begun(e, k) \in Exchange
         /\ Begun(e, k).mode = IF k.http_1_1 THEN "Stream" ELSE "Complete"
         /\ Begun(e, k).retain = ~k.modern
         /\ Begun(e, k).sink = e.sink /\ Begun(e, k).cancelled = e.cancelled
         /\ Begun(e, k).watching = e.watching /\ Begun(e, k).told = e.told
         /\ Begun(e, k).events = e.events
BY DEF Begun, Exchange, Kind

\* A request the handler was given was sent, and its exchange is one.
LEMMA ActFacts ==
  ASSUME Sound, NEW r \in Requests, MayAct(r)
  PROVE  /\ r \in app /\ r \in 1..Len(kind) /\ kind[r] \in Kind
         /\ exchange[r] \in Exchange /\ exchange[r].mode # "none" /\ ExchangeOK(exchange[r], r)
<1>1. /\ r \in app /\ exchange[r] \in Exchange /\ exchange[r].mode # "none"
      /\ ExchangeOK(exchange[r], r) /\ kind \in Seq(Kinds) /\ Kinds \subseteq Kind
  BY ExchangeAssumption DEF MayAct, Sound, TypeOK, Owned
<1>2. r \in 1..Len(kind)
  BY <1>1 DEF ExchangeOK, Requests
<1> QED BY <1>1, <1>2

\* What a notification leaves its exchange as.
Notified(r) ==
  LET e == IF exchange[r].mode = "Open" THEN Begun(exchange[r], kind[r]) ELSE exchange[r]
  IN [e EXCEPT !.events = e.events + (IF e.mode = "Stream" THEN 1 ELSE 0)]

LEMMA NotifyActs ==
  ASSUME Sound, NEW r \in Requests, Notify(r)
  PROVE  /\ Acted(r, Notified(r))
         /\ exchange[r].mode \in {"Open", "Stream"}
         /\ exchange[r].mode = "Open" =>
              Notified(r).mode = IF kind[r].http_1_1 THEN "Stream" ELSE "Complete"
         /\ exchange[r].mode = "Stream" => Notified(r).mode = "Stream"
<1>1. /\ r \in 1..Len(kind) /\ kind[r] \in Kind
      /\ exchange[r] \in Exchange /\ exchange[r].mode # "none" /\ ExchangeOK(exchange[r], r)
  BY ActFacts DEF Notify
<1> DEFINE b == Begun(exchange[r], kind[r])
           e == IF exchange[r].mode = "Open" THEN b ELSE exchange[r]
<1>2. exchange[r].mode \in {"Open", "Stream"}
  BY <1>1 DEF Notify, Answered, Exchange
<1>3. /\ b \in Exchange /\ b.mode = (IF kind[r].http_1_1 THEN "Stream" ELSE "Complete")
      /\ b.retain = ~kind[r].modern
      /\ b.sink = exchange[r].sink /\ b.cancelled = exchange[r].cancelled
      /\ b.watching = exchange[r].watching
  BY <1>1, BegunFields
<1>4. exchange' = [exchange EXCEPT ![r] = Notified(r)]
  BY DEF Notify, Notified
<1>5. Notified(r) = [e EXCEPT !.events = e.events + (IF e.mode = "Stream" THEN 1 ELSE 0)]
  BY DEF Notified
<1> HIDE DEF b
<1>6. e \in Exchange
  BY <1>1, <1>3
<1>7. /\ e.sink = exchange[r].sink /\ e.cancelled = exchange[r].cancelled
      /\ exchange[r].mode = "Open" =>
              e.mode = IF kind[r].http_1_1 THEN "Stream" ELSE "Complete"
      /\ exchange[r].mode = "Stream" => e = exchange[r]
  BY <1>1, <1>3
<1>8. e.mode \in {"Stream", "Complete"} /\ ExchangeOK(e, r)
  BY <1>1, <1>2, <1>3 DEF ExchangeOK, Requests
<1> HIDE DEF e
<1>9. /\ Notified(r) \in Exchange /\ Notified(r).mode = e.mode /\ Notified(r).sink = e.sink
      /\ Notified(r).cancelled = e.cancelled /\ Notified(r).retain = e.retain
      /\ Notified(r).watching = e.watching
  BY <1>5, <1>6 DEF Exchange
<1>10. ExchangeOK(Notified(r), r)
  BY ONLY <1>8, <1>9 DEF ExchangeOK
<1>11. /\ UNCHANGED <<world, kind, registry, app, held>>
       /\ conn' \in [up : BOOLEAN, closing : BOOLEAN, gated : BOOLEAN, first : 1..MaxRequests]
       /\ conn'.up = conn.up /\ conn'.first = conn.first
  BY <1>1 DEF Notify, Sound, TypeOK, Gated, World, Kind
<1> QED BY <1>1, <1>2, <1>4, <1>7, <1>8, <1>9, <1>10, <1>11 DEF Acted

\* One field of an exchange changes, and what its fields say of one another
\* stays true.
LEMMA Answers ==
  ASSUME NEW e \in Exchange, NEW r, ExchangeOK(e, r), e.mode \in {"Open", "Stream"}
  PROVE  LET d == [e EXCEPT !.mode = "Complete"]
         IN d \in Exchange /\ ExchangeOK(d, r) /\ d.mode = "Complete" /\ d.sink = e.sink
            /\ d.cancelled = e.cancelled
BY DEF Exchange, ExchangeOK

LEMMA Counts ==
  ASSUME NEW e \in Exchange, NEW r, ExchangeOK(e, r), e.mode # "none"
  PROVE  LET d == [e EXCEPT !.events = e.events + 1]
         IN d \in Exchange /\ ExchangeOK(d, r) /\ d.mode = e.mode /\ d.sink = e.sink
            /\ d.cancelled = e.cancelled
BY DEF Exchange, ExchangeOK

LEMMA RespondActs ==
  ASSUME Sound, NEW r \in Requests, RespondJson(r)
  PROVE  /\ Acted(r, [exchange[r] EXCEPT !.mode = "Complete"]) /\ exchange[r].mode = "Open"
         /\ [exchange[r] EXCEPT !.mode = "Complete"].mode = "Complete"
<1> DEFINE d == [exchange[r] EXCEPT !.mode = "Complete"]
<1>1. /\ exchange[r] \in Exchange /\ exchange[r].mode = "Open" /\ ExchangeOK(exchange[r], r)
      /\ exchange' = [exchange EXCEPT ![r] = d]
  BY ActFacts DEF RespondJson
<1>2. d \in Exchange /\ ExchangeOK(d, r) /\ d.mode = "Complete" /\ d.sink = exchange[r].sink
      /\ d.cancelled = exchange[r].cancelled
  BY <1>1, Answers
<1>3. conn' = conn /\ UNCHANGED <<world, kind, registry, app, held>>
  BY DEF RespondJson
<1> HIDE DEF d
<1>4. Acted(r, d)
  BY <1>1, <1>2, <1>3 DEF Acted, Sound, TypeOK
<1> QED BY <1>1, <1>2, <1>4 DEF d

LEMMA SendLastActs ==
  ASSUME Sound, NEW r \in Requests, SendLast(r)
  PROVE  /\ Acted(r, [exchange[r] EXCEPT !.events = exchange[r].events + 1])
         /\ exchange[r].mode = "Stream" /\ exchange[r].sink = "connection"
         /\ [exchange[r] EXCEPT !.events = exchange[r].events + 1].mode = "Stream"
<1> DEFINE d == [exchange[r] EXCEPT !.events = exchange[r].events + 1]
<1>1. /\ exchange[r] \in Exchange /\ exchange[r].mode = "Stream" /\ ExchangeOK(exchange[r], r)
      /\ exchange' = [exchange EXCEPT ![r] = d] /\ exchange[r].sink = "connection"
  BY ActFacts DEF SendLast
<1>2. d \in Exchange /\ ExchangeOK(d, r) /\ d.mode = "Stream" /\ d.sink = exchange[r].sink
      /\ d.cancelled = exchange[r].cancelled
  BY <1>1, Counts
<1>3. /\ UNCHANGED <<world, kind, registry, app, held>>
      /\ conn' \in [up : BOOLEAN, closing : BOOLEAN, gated : BOOLEAN, first : 1..MaxRequests]
      /\ conn'.up = conn.up /\ conn'.first = conn.first
  BY DEF SendLast, Sound, TypeOK, World
<1> HIDE DEF d
<1>4. Acted(r, d)
  BY <1>1, <1>2, <1>3 DEF Acted
<1> QED BY <1>1, <1>2, <1>4 DEF d

LEMMA TailActs ==
  ASSUME Sound, WriteTail
  PROVE  /\ stack # <<>> /\ Top \in Frames /\ Top.of \in Requests /\ Top.call = "finish"
         /\ Acted(Top.of, [exchange[Top.of] EXCEPT !.mode = "Complete"])
         /\ exchange[Top.of].mode = "Stream" /\ exchange[Top.of].sink = "connection"
         /\ [exchange[Top.of] EXCEPT !.mode = "Complete"].mode = "Complete"
<1> DEFINE r == Top.of
           d == [exchange[r] EXCEPT !.mode = "Complete"]
<1>0. stack # <<>> /\ Top.call = "finish" /\ stack \in Seq(Frames)
  BY DEF WriteTail, Idle, Sound, TypeOK, Frames
<1>1. /\ Top \in Frames /\ r \in Requests /\ Len(stack) \in 1..Len(stack)
  BY <1>0, PopOK DEF Frames
<1>2. /\ exchange[r].mode = "Stream" /\ exchange[r].sink = "connection"
  BY <1>0, <1>1 DEF Sound, Calls, Top
<1>3. /\ exchange[r] \in Exchange /\ ExchangeOK(exchange[r], r)
      /\ exchange' = [exchange EXCEPT ![r] = d]
  BY <1>1 DEF WriteTail, Sound, TypeOK, Owned
<1> HIDE DEF r
<1>4. d \in Exchange /\ ExchangeOK(d, r) /\ d.mode = "Complete" /\ d.sink = exchange[r].sink
      /\ d.cancelled = exchange[r].cancelled
  BY <1>2, <1>3, Answers
<1>5. conn' = conn /\ UNCHANGED <<world, kind, registry, app, held>>
  BY DEF WriteTail
<1> HIDE DEF d
<1>6. Acted(r, d)
  BY <1>1, <1>2, <1>3, <1>4, <1>5 DEF Acted, Sound, TypeOK
<1> QED BY <1>0, <1>1, <1>2, <1>4, <1>6 DEF r, d

LEMMA AloneActs ==
  ASSUME Sound, NEW r \in Requests, CompleteAlone(r)
  PROVE  /\ \E e : Acted(r, e) /\ e.mode = "Complete"
         /\ exchange[r].mode = "Stream" /\ exchange[r].sink \in {"kept", "gone"}
<1> DEFINE c == [exchange[r] EXCEPT !.events = exchange[r].events + 1]
           d == [c EXCEPT !.mode = "Complete"]
<1>1. /\ exchange[r] \in Exchange /\ exchange[r].mode = "Stream" /\ ExchangeOK(exchange[r], r)
      /\ exchange[r].sink # "connection"
  BY ActFacts DEF CompleteAlone
<1>2. exchange' = [exchange EXCEPT ![r] = d]
  BY DEF CompleteAlone, Sound, TypeOK
<1>3. c \in Exchange /\ ExchangeOK(c, r) /\ c.mode = "Stream" /\ c.sink = exchange[r].sink
      /\ c.cancelled = exchange[r].cancelled
  BY <1>1, Counts
<1> HIDE DEF c
<1>4. d \in Exchange /\ ExchangeOK(d, r) /\ d.mode = "Complete" /\ d.sink = c.sink
      /\ d.cancelled = c.cancelled
  BY <1>3, Answers
<1>5. conn' = conn /\ UNCHANGED <<world, kind, registry, app, held>>
  BY DEF CompleteAlone
<1> HIDE DEF d
<1>6. Acted(r, d)
  BY <1>1, <1>2, <1>3, <1>4, <1>5 DEF Acted, Sound, TypeOK
<1> QED BY <1>1, <1>4, <1>6 DEF Exchange

LEMMA CancelActs ==
  ASSUME Sound, NEW r \in Requests, OnCancelled(r)
  PROVE  \E e : Acted(r, e) /\ e.mode = exchange[r].mode
<1> DEFINE d == IF exchange[r].cancelled THEN [exchange[r] EXCEPT !.told = exchange[r].told + 1]
                ELSE [exchange[r] EXCEPT !.watching = exchange[r].watching + 1]
<1>1. /\ exchange[r] \in Exchange /\ exchange[r].mode # "none" /\ ExchangeOK(exchange[r], r)
  BY ActFacts DEF OnCancelled
<1>2. exchange' = [exchange EXCEPT ![r] = d]
  BY DEF OnCancelled
<1>3. d \in Exchange /\ ExchangeOK(d, r) /\ d.mode = exchange[r].mode /\ d.sink = exchange[r].sink
      /\ d.cancelled = exchange[r].cancelled
  BY <1>1 DEF Exchange, ExchangeOK
<1>5. conn' = conn /\ UNCHANGED <<world, kind, registry, app, held>>
  BY DEF OnCancelled
<1> HIDE DEF d
<1>6. d.mode \in {"none", "Open", "Stream", "Complete"}
  BY <1>3 DEF Exchange
<1>7. Acted(r, d)
  BY <1>1, <1>2, <1>3, <1>5, <1>6 DEF Acted, Sound, TypeOK
<1> QED BY <1>3, <1>7

\* Whoever held the exchange holds it still.
LEMMA ActedOwned ==
  ASSUME Sound, NEW r, NEW e, Acted(r, e), kept' = kept
  PROVE  Owned' /\ Waiting' /\ exchange' \in [Requests -> Exchange]
<1>1. /\ exchange \in [Requests -> Exchange] /\ r \in Requests /\ e \in Exchange
      /\ exchange'[r] = e /\ \A x \in Requests \ {r} : exchange'[x] = exchange[x]
      /\ exchange' \in [Requests -> Exchange]
  BY DEF Sound, TypeOK, Acted
<1>2. Owned /\ kind' = kind /\ registry' = registry /\ app' = app /\ conn'.up = conn.up
  BY DEF Sound, Acted
<1>3. ASSUME NEW x \in Requests
      PROVE  /\ ExchangeOK(exchange[x], x)' /\ (Live(x)' => Live(x))
             /\ exchange'[x].sink = exchange[x].sink
             /\ exchange[x].mode # "none" <=> exchange'[x].mode # "none"
             /\ exchange'[x].mode = "Stream" => exchange[x].mode \in {"Open", "Stream"}
  <2>1. ExchangeOK(exchange[x], x)
    BY <1>2 DEF Owned
  <2>2. CASE x = r
    BY <1>1, <2>1, <2>2, <1>2 DEF Acted, ExchangeOK, Live
  <2>3. CASE x # r
    BY <1>1, <2>1, <2>3, <1>2 DEF ExchangeOK, Live
  <2> QED BY <2>2, <2>3
<1>4. ASSUME NEW x \in Requests, exchange'[x].mode = "Stream", exchange'[x].sink = "kept"
      PROVE  x \in kept
  <2>1. exchange[x].mode \in {"Open", "Stream"} /\ exchange[x].sink = "kept"
    BY <1>3, <1>4
  <2>2. exchange[x].mode = "Stream"
    BY <1>2, <2>1 DEF Owned, ExchangeOK
  <2> QED BY <1>2, <2>1, <2>2 DEF Owned
<1>5. registry \subseteq Requests /\ app \subseteq Requests /\ kept \subseteq Requests
  BY DEF Sound, TypeOK
<1>6. Owned'
  <2>1. \A x \in Requests : ExchangeOK(exchange[x], x)'
    BY <1>3
  <2>2. \A x \in Requests : Live(x)' => conn'.up /\ x \in registry'
    BY <1>2, <1>3 DEF Owned
  <2>3. /\ \A x \in app' : exchange'[x].mode # "none"
        /\ \A x \in registry' : exchange'[x].mode # "none" /\ exchange'[x].sink = "connection"
        /\ \A x \in kept' : exchange'[x].sink = "kept"
    BY <1>2, <1>3, <1>5 DEF Owned
  <2> QED BY <1>4, <2>1, <2>2, <2>3 DEF Owned
<1>7. Waiting'
  <2>1. held' = held /\ Waiting /\ held \in Seq(Requests)
    BY DEF Sound, TypeOK, Acted
  <2>2. \A i \in 1..Len(held) : held[i] \in Requests
    BY <2>1
  <2> QED BY <1>2, <1>3, <2>1, <2>2 DEF Waiting
<1> QED BY <1>1, <1>6, <1>7

\* A handler acts inside the dispatch of its own request, or when no call is
\* under way: never on a stream that is being finished.
LEMMA ActsApart ==
  ASSUME Sound, NEW r \in Requests, MayAct(r)
  PROVE  /\ \A i \in 1..Len(stack) : stack[i].call = "finish" => stack[i].of # r
         /\ stack # <<>> => stack[Len(stack)] = Frame("dispatch", r) /\ Len(stack) \in {1, 2}
         /\ Len(stack) = 2 => stack[1].call = "finish"
<1>1. stack \in Seq(Frames) /\ Calls /\ Len(stack) \in Nat
  BY DEF Sound, TypeOK, Frames
<1>2. CASE stack = <<>>
  BY <1>2
<1>3. CASE stack # <<>>
  <2>0. Len(stack) \in 1..3
    <3>1. Len(stack) # 0 /\ Len(stack) <= 3
      BY <1>1, <1>3 DEF Calls
    <3>2. \A n \in Nat : n # 0 /\ n <= 3 => n \in 1..3
      OBVIOUS
    <3> QED BY <1>1, <3>1, <3>2
  <2>1. stack[Len(stack)] = Frame("dispatch", r) /\ Len(stack) \in 1..3
    BY <2>0, <1>3 DEF MayAct, Idle, Top
  <2>2. stack[Len(stack)].call = "dispatch" /\ stack[Len(stack)].of = r
    BY <2>1 DEF Frame
  <2>3. Len(stack) # 3
    <3> SUFFICES ASSUME Len(stack) = 3 PROVE FALSE
      OBVIOUS
    <3>1. 3 \in 2..Len(stack) /\ stack[3].call = "dispatch"
      BY <2>2
    <3> QED BY <1>1, <3>1 DEF Calls
  <2>4. CASE Len(stack) = 1
    BY <2>1, <2>2, <2>4
  <2>5. CASE Len(stack) = 2
    BY <1>1, <2>1, <2>2, <2>5 DEF Calls
  <2> QED BY <1>3, <2>1, <2>3, <2>4, <2>5
<1> QED BY <1>2, <1>3

\* The calls under way are not disturbed by what a handler does.
LEMMA ActedCalls ==
  ASSUME Sound, NEW r, NEW e, Acted(r, e), MayAct(r), stack' = stack
  PROVE  Calls'
<1>1. /\ stack \in Seq(Frames) /\ exchange \in [Requests -> Exchange] /\ r \in Requests
      /\ app' = app /\ Calls
      /\ \A x \in Requests \ {r} : exchange'[x] = exchange[x]
  BY DEF Sound, TypeOK, Acted, Frames
<1>2. \A i \in 1..Len(stack) : stack[i].of \in Requests
                              /\ (stack[i].call = "finish" => stack[i].of # r)
  <2>1. \A i \in 1..Len(stack) : stack[i] \in Frames
    BY ONLY <1>1
  <2> QED BY <1>1, <2>1, ActsApart DEF Frames
<1>3. \A i \in 1..Len(stack) :
        stack[i].call = "finish" => exchange'[stack[i].of] = exchange[stack[i].of]
  BY <1>1, <1>2
<1> QED BY <1>1, <1>3 DEF Calls

\* The store's exchanges are as complete as they were.
LEMMA ActedTimer ==
  ASSUME Sound, NEW r, NEW e, Acted(r, e), UNCHANGED store,
         r \in kept => (e.mode = "Complete" <=> exchange[r].mode = "Complete")
  PROVE  TimerMeetsDeadline'
<1>1. /\ exchange \in [Requests -> Exchange] /\ r \in Requests /\ kept \subseteq Requests
      /\ exchange'[r] = e
      /\ \A x \in Requests \ {r} : exchange'[x] = exchange[x]
  BY DEF Sound, TypeOK, Acted
<1>2. \A x \in kept : exchange'[x].mode = "Complete" <=> exchange[x].mode = "Complete"
  BY <1>1
<1>3. TimerMeetsDeadline /\ UNCHANGED <<kept, expiring, timer>>
  BY DEF Sound, store
<1> QED BY <1>2, <1>3 DEF TimerMeetsDeadline

-----------------------------------------------------------------------------
(* Each of these steps keeps what is sound, sound. *)

\* What a notification puts on the wire.
LEMMA NotifyWire ==
  ASSUME Sound, NEW r \in Requests, Notify(r)
  PROVE  wire' = IF exchange[r].sink # "connection" THEN wire
                 ELSE IF exchange[r].mode = "Stream" THEN Append(wire, Of("event", r))
                 ELSE IF kind[r].http_1_1
                      THEN Append(Append(wire, Of("head", r)), Of("event", r))
                      ELSE Append(wire, Of("unary", r))
<1> DEFINE opens == exchange[r].mode = "Open"
           event == IF (IF opens THEN Begun(exchange[r], kind[r]) ELSE exchange[r]).mode = "Stream"
                    THEN 1 ELSE 0
           events == [i \in 1..event |-> Of("event", r)]
           items == (IF opens THEN Prelude(r) ELSE <<>>) \o events
<1>1. wire' = Written(r, items)
  BY DEF Notify
<1>2. /\ exchange[r] \in Exchange /\ kind[r] \in Kind /\ exchange[r].mode \in {"Open", "Stream"}
      /\ Begun(exchange[r], kind[r]).mode = IF kind[r].http_1_1 THEN "Stream" ELSE "Complete"
  <2>1. MayAct(r)
    BY DEF Notify
  <2>2. exchange[r] \in Exchange /\ kind[r] \in Kind
    BY <2>1, ActFacts
  <2> QED BY <2>2, BegunFields, NotifyActs
<1>3. /\ wire \in Seq(Item) /\ Of("event", r) \in Item /\ Of("head", r) \in Item
      /\ Of("unary", r) \in Item
  BY DEF Sound, TypeOK, Of, Item
<1>4. event = IF opens /\ ~kind[r].http_1_1 THEN 0 ELSE 1
  BY <1>2
<1> HIDE DEF event
<1>5. /\ event = 0 => events = <<>>
      /\ event = 1 => events = <<Of("event", r)>>
  <2>1. CASE event = 0
    BY <2>1
  <2>2. CASE event = 1
    BY <2>2
  <2> QED BY <1>4, <2>1, <2>2
<1> HIDE DEF events
<1>6. CASE exchange[r].mode = "Stream"
  <2>1. items = <<Of("event", r)>>
    BY <1>3, <1>4, <1>5, <1>6
  <2> HIDE DEF items
  <2>2. wire \o <<Of("event", r)>> = Append(wire, Of("event", r))
    BY <1>3, Added
  <2> QED BY <1>1, <1>6, <2>1, <2>2 DEF Written
<1>7. CASE exchange[r].mode = "Open" /\ ~kind[r].http_1_1
  <2>1. items = <<Of("unary", r)>>
    BY <1>3, <1>4, <1>5, <1>7 DEF Prelude
  <2> HIDE DEF items
  <2>2. wire \o <<Of("unary", r)>> = Append(wire, Of("unary", r))
    BY <1>3, Added
  <2> QED BY <1>1, <1>7, <2>1, <2>2 DEF Written
<1>8. CASE exchange[r].mode = "Open" /\ kind[r].http_1_1
  <2>1. items = <<Of("head", r)>> \o <<Of("event", r)>>
    BY <1>4, <1>5, <1>8 DEF Prelude
  <2> HIDE DEF items
  <2>2. wire \o (<<Of("head", r)>> \o <<Of("event", r)>>)
          = (wire \o <<Of("head", r)>>) \o <<Of("event", r)>>
    BY <1>3, ConcatAssociative
  <2>3. /\ wire \o <<Of("head", r)>> = Append(wire, Of("head", r))
        /\ Append(wire, Of("head", r)) \in Seq(Item)
    BY <1>3, Added
  <2>4. Append(wire, Of("head", r)) \o <<Of("event", r)>>
          = Append(Append(wire, Of("head", r)), Of("event", r))
    BY <1>3, <2>3, Added
  <2> QED BY <1>1, <1>8, <2>1, <2>2, <2>3, <2>4 DEF Written
<1> QED BY <1>2, <1>6, <1>7, <1>8

LEMMA NotifySound == ASSUME Sound, NEW r \in Requests, Notify(r) PROVE Sound'
<1>1. /\ Acted(r, Notified(r)) /\ exchange[r].mode \in {"Open", "Stream"}
      /\ exchange[r].mode = "Stream" => Notified(r).mode = "Stream"
  BY NotifyActs
<1>2. UNCHANGED store /\ UNCHANGED stack /\ UNCHANGED kept /\ MayAct(r)
  BY DEF Notify, store
<1>3. r \in kept => exchange[r].mode = "Stream"
  BY <1>1 DEF Sound, Owned, ExchangeOK
<1>4. Owned' /\ Waiting' /\ Calls' /\ TimerMeetsDeadline' /\ exchange' \in [Requests -> Exchange]
  BY <1>1, <1>2, <1>3, ActedOwned, ActedCalls, ActedTimer
<1>5. wire' \in Seq(Item)
  <2>1. /\ wire \in Seq(Item) /\ Of("event", r) \in Item /\ Of("head", r) \in Item
        /\ Of("unary", r) \in Item
    BY DEF Sound, TypeOK, Of, Item
  <2>2. /\ Append(wire, Of("head", r)) \in Seq(Item) /\ Append(wire, Of("unary", r)) \in Seq(Item)
        /\ Append(wire, Of("event", r)) \in Seq(Item)
    BY <2>1, Added
  <2>3. Append(Append(wire, Of("head", r)), Of("event", r)) \in Seq(Item)
    BY <2>1, <2>2, Added
  <2> QED BY <2>1, <2>2, <2>3, NotifyWire
<1> QED BY <1>1, <1>2, <1>4, <1>5 DEF Acted, Sound, TypeOK, store

LEMMA RespondSound == ASSUME Sound, NEW r \in Requests, RespondJson(r) PROVE Sound'
<1> DEFINE e == [exchange[r] EXCEPT !.mode = "Complete"]
<1>1. /\ Acted(r, e) /\ exchange[r].mode = "Open" /\ e.mode = "Complete"
  BY RespondActs
<1> HIDE DEF e
<1>2. UNCHANGED store /\ UNCHANGED stack /\ UNCHANGED kept /\ MayAct(r)
  BY DEF RespondJson, store
<1>3. r \notin kept
  BY <1>1 DEF Sound, Owned, ExchangeOK
<1>4. Owned' /\ Waiting' /\ Calls' /\ TimerMeetsDeadline' /\ exchange' \in [Requests -> Exchange]
  BY <1>1, <1>2, <1>3, ActedOwned, ActedCalls, ActedTimer
<1>5. wire' \in Seq(Item)
  <2> DEFINE x == Of(IF hasActiveStream THEN "bare" ELSE "unary", r)
  <2>1. wire \in Seq(Item) /\ x \in Item
    BY DEF Sound, TypeOK, Of, Item
  <2>2. wire' = IF exchange[r].sink = "connection" THEN wire \o <<x>> ELSE wire
    BY DEF RespondJson, Written
  <2> HIDE DEF x
  <2> QED BY <2>1, <2>2, Added
<1> QED BY <1>1, <1>2, <1>4, <1>5 DEF Acted, Sound, TypeOK, store

LEMMA CancelSound == ASSUME Sound, NEW r \in Requests, OnCancelled(r) PROVE Sound'
<1>1. PICK e : Acted(r, e) /\ e.mode = exchange[r].mode
  BY CancelActs
<1>2. UNCHANGED store /\ UNCHANGED stack /\ UNCHANGED kept /\ MayAct(r) /\ UNCHANGED wire
  BY DEF OnCancelled, store
<1>3. Owned' /\ Waiting' /\ Calls' /\ TimerMeetsDeadline' /\ exchange' \in [Requests -> Exchange]
  BY <1>1, <1>2, ActedOwned, ActedCalls, ActedTimer
<1> QED BY <1>1, <1>2, <1>3 DEF Acted, Sound, TypeOK, store

LEMMA SendLastSound == ASSUME Sound, NEW r \in Requests, SendLast(r) PROVE Sound'
<1> DEFINE e == [exchange[r] EXCEPT !.events = exchange[r].events + 1]
           f == Frame("finish", r)
<1>1. /\ Acted(r, e) /\ exchange[r].mode = "Stream" /\ exchange[r].sink = "connection"
      /\ e.mode = "Stream"
  BY SendLastActs
<1> HIDE DEF e
<1>2. /\ UNCHANGED store /\ UNCHANGED kept /\ MayAct(r)
      /\ stack' = Append(stack, f) /\ wire' = Append(wire, Of("event", r))
  BY DEF SendLast, store
<1>3. Owned' /\ Waiting' /\ TimerMeetsDeadline' /\ exchange' \in [Requests -> Exchange]
  BY <1>1, <1>2, ActedOwned, ActedTimer
<1>4. /\ f \in Frames /\ f.call = "finish" /\ f.of = r
  BY DEF Frame, Frames
<1>5. /\ stack \in Seq(Frames) /\ Len(stack) \in Nat /\ Calls
      /\ exchange \in [Requests -> Exchange] /\ app' = app /\ r \in Requests
      /\ exchange'[r] = e /\ \A x \in Requests \ {r} : exchange'[x] = exchange[x]
      /\ e.sink = "connection"
  BY <1>1 DEF Sound, TypeOK, Frames, Acted
<1>6. /\ stack' \in Seq(Frames) /\ Len(stack') = Len(stack) + 1
      /\ \A i \in 1..Len(stack) : stack'[i] = stack[i]
      /\ stack'[Len(stack) + 1] = f
  BY <1>2, <1>4, <1>5, Added
<1>7. /\ \A i \in 1..Len(stack) : stack[i].call = "finish" => stack[i].of # r
      /\ stack # <<>> => stack[Len(stack)] = Frame("dispatch", r) /\ Len(stack) \in {1, 2}
      /\ Len(stack) = 2 => stack[1].call = "finish"
  BY <1>2, ActsApart
<1>8. Calls'
  <2>1. Len(stack') <= 3 /\ (Len(stack') = 3 => stack'[1].call = "finish")
    BY <1>5, <1>6, <1>7
  <2>2. ASSUME NEW i \in 1..Len(stack')
        PROVE  IF stack'[i].call = "finish"
               THEN exchange'[stack'[i].of].mode = "Stream" /\ exchange'[stack'[i].of].sink = "connection"
               ELSE stack'[i].of \in app'
    <3>1. CASE i = Len(stack) + 1
      BY <1>1, <1>4, <1>5, <1>6, <3>1
    <3>2. CASE i \in 1..Len(stack)
      <4>0. stack[i] \in Frames
        BY ONLY <1>5, <3>2
      <4>1. stack'[i] = stack[i] /\ stack[i].of \in Requests
        BY <1>6, <3>2, <4>0 DEF Frames
      <4>2. stack[i].call = "finish" => exchange'[stack[i].of] = exchange[stack[i].of]
        BY <1>5, <1>7, <3>2, <4>1
      <4> QED BY <1>5, <3>2, <4>1, <4>2 DEF Calls
    <3> QED BY <1>5, <1>6, <3>1, <3>2
  <2>3. ASSUME NEW i \in 2..Len(stack')
        PROVE  IF stack'[i].call = "finish"
               THEN stack'[i - 1] = Frame("dispatch", stack'[i].of)
               ELSE i = 2 /\ stack'[1].call = "finish" /\ stack'[1].of # stack'[2].of
    <3>1. CASE i = Len(stack) + 1
      <4>1. stack # <<>> /\ i - 1 = Len(stack) /\ Len(stack) \in 1..Len(stack)
        BY <1>5, <3>1
      <4>2. stack'[i] = f /\ stack'[i - 1] = stack[Len(stack)]
        BY <1>6, <3>1, <4>1
      <4>3. stack'[i - 1] = Frame("dispatch", r)
        BY <1>7, <4>1, <4>2
      <4> QED BY <1>4, <4>2, <4>3
    <3>2. CASE i \in 2..Len(stack)
      <4>1. stack'[i] = stack[i] /\ stack'[i - 1] = stack[i - 1] /\ stack'[1] = stack[1]
            /\ (i = 2 => stack'[2] = stack[2])
        BY <1>5, <1>6, <3>2
      <4> QED BY <1>5, <3>2, <4>1 DEF Calls
    <3> QED BY <1>5, <1>6, <3>1, <3>2
  <2> QED BY <2>1, <2>2, <2>3 DEF Calls
<1>9. wire' \in Seq(Item)
  <2>1. wire \in Seq(Item) /\ Of("event", r) \in Item
    BY DEF Sound, TypeOK, Of, Item
  <2> QED BY <1>2, <2>1, Added
<1> QED BY <1>1, <1>2, <1>3, <1>6, <1>8, <1>9 DEF Acted, Sound, TypeOK, store, Frames

\* A call returns to the ones it is in.
LEMMA CallsReturn ==
  ASSUME Sound, stack # <<>>, stack' = Pop, app' = app,
         \A i \in 1..Len(stack) - 1 : stack[i].call = "finish" =>
            exchange'[stack[i].of].mode = "Stream" /\ exchange'[stack[i].of].sink = "connection"
  PROVE  Calls' /\ stack' \in Seq(Frames)
<1>1. stack \in Seq(Frames) /\ Calls
  BY DEF Sound, TypeOK, Frames
<1>2. /\ Len(stack) \in Nat \ {0} /\ stack' \in Seq(Frames) /\ Len(stack') = Len(stack) - 1
      /\ \A i \in 1..Len(stack') : stack'[i] = stack[i]
  BY <1>1, PopOK
<1>3. Len(stack') <= 3 /\ Len(stack') # 3
  BY <1>1, <1>2 DEF Calls
<1>4. \A i \in 1..Len(stack') : IF stack'[i].call = "finish"
               THEN exchange'[stack'[i].of].mode = "Stream" /\ exchange'[stack'[i].of].sink = "connection"
               ELSE stack'[i].of \in app'
  BY <1>1, <1>2 DEF Calls
<1>5. ASSUME NEW i \in 2..Len(stack')
      PROVE  IF stack'[i].call = "finish"
             THEN stack'[i - 1] = Frame("dispatch", stack'[i].of)
             ELSE i = 2 /\ stack'[1].call = "finish" /\ stack'[1].of # stack'[2].of
  <2>1. i \in 2..Len(stack) /\ i \in 1..Len(stack') /\ i - 1 \in 1..Len(stack') /\ 1 \in 1..Len(stack')
    BY <1>2
  <2>2. stack'[i] = stack[i] /\ stack'[i - 1] = stack[i - 1] /\ stack'[1] = stack[1]
    BY <1>2, <2>1
  <2> QED BY <1>1, <2>1, <2>2 DEF Calls
<1> QED BY <1>2, <1>3, <1>4, <1>5 DEF Calls

LEMMA TailSound == ASSUME Sound, WriteTail PROVE Sound'
<1> DEFINE r == Top.of
           e == [exchange[r] EXCEPT !.mode = "Complete"]
<1>1. /\ Acted(r, e) /\ e.mode = "Complete"
      /\ exchange[r].mode = "Stream" /\ exchange[r].sink = "connection"
      /\ stack # <<>> /\ r \in Requests /\ Top.call = "finish"
  BY TailActs
<1> HIDE DEF e
<1>2. /\ UNCHANGED store /\ UNCHANGED kept /\ stack' = Pop /\ wire' = Append(wire, Of("tail", r))
  BY DEF WriteTail, store
<1>3. r \notin kept
  BY <1>1 DEF Sound, Owned
<1>4. Owned' /\ Waiting' /\ TimerMeetsDeadline' /\ exchange' \in [Requests -> Exchange]
  BY <1>1, <1>2, <1>3, ActedOwned, ActedTimer
<1>5. /\ stack \in Seq(Frames) /\ Len(stack) \in Nat /\ Len(stack) \in 1..Len(stack) /\ Calls
      /\ exchange \in [Requests -> Exchange] /\ app' = app
      /\ \A x \in Requests \ {r} : exchange'[x] = exchange[x]
  BY <1>1 DEF Sound, TypeOK, Frames, Acted
<1>6. stack[Len(stack)].call = "finish" /\ stack[Len(stack)].of = r
  BY <1>1 DEF Top
<1> HIDE DEF r
<1>7. ASSUME NEW i \in 1..Len(stack) - 1, stack[i].call = "finish"
      PROVE  exchange'[stack[i].of].mode = "Stream" /\ exchange'[stack[i].of].sink = "connection"
  <2>1. /\ i \in 1..Len(stack) /\ Len(stack) \in 2..Len(stack) /\ stack[i].of \in Requests
        /\ Len(stack) <= 3
    <3>1. i \in 1..Len(stack) /\ Len(stack) \in 2..Len(stack) /\ Len(stack) <= 3
      BY <1>5, <1>7 DEF Calls
    <3>2. stack[i] \in Frames
      BY ONLY <1>5, <3>1
    <3> QED BY <3>1, <3>2 DEF Frames
  <2>2. stack[Len(stack) - 1] = Frame("dispatch", r)
    <3>1. \A j \in 2..Len(stack) : stack[j].call = "finish" => stack[j - 1] = Frame("dispatch", stack[j].of)
      BY <1>5 DEF Calls
    <3> QED BY <1>6, <2>1, <3>1
  <2>3. stack[Len(stack) - 1].call = "dispatch" /\ stack[Len(stack) - 1].of = r
    BY <2>2 DEF Frame
  <2>4. i # Len(stack) - 1
    BY <1>7, <2>3
  <2>5. i = 1 /\ Len(stack) = 3
    <3>1. i \in 1..Len(stack) - 1 /\ Len(stack) \in Nat
      BY <1>5, <1>7
    <3>2. \A l \in Nat : \A j \in 1..l - 1 : l <= 3 /\ j # l - 1 => j = 1 /\ l = 3
      OBVIOUS
    <3> QED BY ONLY <2>1, <2>4, <3>1, <3>2
  <2>6. stack[2].call = "dispatch" /\ stack[2].of = r /\ 2 \in 2..Len(stack)
    BY <2>3, <2>5
  <2>7. stack[1].of # stack[2].of
    BY <1>5, <2>6 DEF Calls
  <2>8. exchange'[stack[i].of] = exchange[stack[i].of]
    BY <1>5, <2>1, <2>5, <2>6, <2>7
  <2> QED BY <1>5, <1>7, <2>1, <2>8 DEF Calls
<1>8. Calls' /\ stack' \in Seq(Frames)
  BY <1>1, <1>2, <1>5, <1>7, CallsReturn
<1>9. wire' \in Seq(Item)
  <2>1. wire \in Seq(Item) /\ Of("tail", r) \in Item
    BY <1>1 DEF Sound, TypeOK, Of, Item
  <2> QED BY <1>2, <2>1, Added
<1> QED BY <1>1, <1>2, <1>4, <1>8, <1>9 DEF Acted, Sound, TypeOK, store, Frames

LEMMA AloneSound == ASSUME Sound, NEW r \in Requests, CompleteAlone(r) PROVE Sound'
<1>1. PICK e : Acted(r, e) /\ e.mode = "Complete"
  BY AloneActs
<1>2. exchange[r].mode = "Stream" /\ exchange[r].sink \in {"kept", "gone"}
  BY AloneActs
<1>3. /\ MayAct(r) /\ UNCHANGED <<stack, wire>>
      /\ IF r \in kept THEN scheduleRelease(r) ELSE UNCHANGED store
  BY DEF CompleteAlone
<1>4. kept' = kept /\ deferred' = deferred
  BY <1>3 DEF scheduleRelease, store
<1>5. Owned' /\ Waiting' /\ Calls' /\ exchange' \in [Requests -> Exchange]
  BY <1>1, <1>3, <1>4, ActedOwned, ActedCalls
<1>6. /\ TimerMeetsDeadline' /\ DOMAIN expiring' \subseteq kept' /\ timer' \in 0..Off
      /\ \A x \in DOMAIN expiring' : expiring'[x] \in 0..Retention
  <2>1. CASE r \notin kept
    <3>1. UNCHANGED store
      BY <1>3, <2>1
    <3>2. TimerMeetsDeadline'
      BY <1>1, <2>1, <3>1, ActedTimer
    <3> QED BY <3>1, <3>2 DEF store, Sound, TypeOK
  <2>2. CASE r \in kept
    <3>1. /\ expiring' = [s \in DOMAIN expiring \cup {r} |-> IF s = r THEN Retention ELSE expiring[s]]
          /\ timer' = Soonest(expiring')
      BY <1>3, <2>2 DEF scheduleRelease
    <3>2. /\ DOMAIN expiring' = DOMAIN expiring \cup {r}
          /\ \A x \in DOMAIN expiring' : expiring'[x] \in 0..Retention
          /\ DOMAIN expiring \subseteq kept
      BY <3>1, ExchangeAssumption DEF Sound, TypeOK
    <3>3. timer' \in 0..Off /\ \A x \in DOMAIN expiring' : timer' <= expiring'[x]
      BY <3>1, <3>2, SoonestOK
    <3>4. /\ exchange \in [Requests -> Exchange] /\ r \in Requests /\ kept \subseteq Requests
          /\ exchange'[r] = e /\ \A x \in Requests \ {r} : exchange'[x] = exchange[x]
      BY <1>1 DEF Sound, TypeOK, Acted
    <3>5. \A x \in kept : exchange[x].mode = "Complete" <=> x \in DOMAIN expiring
      BY DEF Sound, TimerMeetsDeadline
    <3>6. \A x \in kept : exchange'[x].mode = "Complete" <=> x \in DOMAIN expiring'
      BY <1>1, <3>2, <3>4, <3>5
    <3> QED BY <1>4, <2>2, <3>2, <3>3, <3>6 DEF TimerMeetsDeadline
  <2> QED BY <2>1, <2>2
<1> QED BY <1>1, <1>3, <1>4, <1>5, <1>6 DEF Acted, Sound, TypeOK

\* A handler's dispatch returns.
LEMMA EndDispatchSound == ASSUME Sound, EndDispatch PROVE Sound'
<1>1. /\ stack # <<>> /\ stack' = Pop
      /\ registry' = {r \in registry : exchange[r].mode # "Complete"}
      /\ UNCHANGED <<world, kind, exchange, app, conn, held, wire, store>>
  BY DEF EndDispatch, Idle, Reaped
<1>2. stack \in Seq(Frames) /\ Calls
  BY DEF Sound, TypeOK, Frames
<1>3. \A i \in 1..Len(stack) - 1 : stack[i].call = "finish" =>
            exchange'[stack[i].of].mode = "Stream" /\ exchange'[stack[i].of].sink = "connection"
  <2>1. \A i \in 1..Len(stack) - 1 : i \in 1..Len(stack)
    BY <1>2
  <2> QED BY <1>1, <1>2, <2>1 DEF Calls
<1>4. Calls' /\ stack' \in Seq(Frames)
  BY <1>1, <1>3, CallsReturn
<1>5. registry' \subseteq registry
  BY <1>1
<1>6. Owned'
  <2>1. /\ \A r \in Requests : ExchangeOK(exchange[r], r)'
        /\ \A r \in Requests : Live(r)' => conn'.up /\ r \in registry'
    BY <1>1 DEF Sound, Owned, ExchangeOK, Live
  <2> QED BY <1>1, <1>5, <2>1 DEF Sound, Owned, store
<1>7. Waiting' /\ TimerMeetsDeadline'
  BY <1>1 DEF Sound, Waiting, TimerMeetsDeadline, store
<1> QED BY <1>1, <1>4, <1>5, <1>6, <1>7 DEF Sound, TypeOK, store, Frames

\* A client sends.
LEMMA ReceiveSound == ASSUME Sound, Receive PROVE Sound'
<1> DEFINE n == Len(kind) + 1
<1>1. /\ kind \in Seq(Kinds) /\ Len(kind) \in Nat /\ Len(kind) < MaxRequests /\ MaxRequests \in Nat
      /\ held \in Seq(Requests) /\ Len(held) \in Nat /\ conn.up /\ stack = <<>>
  BY ExchangeAssumption DEF Sound, TypeOK, Receive, Idle
<1>2. PICK k \in Kinds : kind' = Append(kind, k)
  BY DEF Receive
<1>3. /\ kind' \in Seq(Kinds) /\ Len(kind') = n /\ \A i \in 1..Len(kind) : kind'[i] = kind[i]
      /\ n \in Requests /\ n \in Nat
  BY <1>1, <1>2, Added DEF Requests
<1>4. /\ held' = held \/ held' = Append(held, n)
      /\ conn' \in [up : BOOLEAN, closing : BOOLEAN, gated : BOOLEAN, first : 1..MaxRequests]
      /\ conn'.up = conn.up /\ conn'.first = conn.first /\ conn'.gated = conn.gated
      /\ UNCHANGED <<world, exchange, registry, app, stack, wire, store>>
  BY <1>1 DEF Receive, Sound, TypeOK
<1> HIDE DEF n
<1>5. exchange[n].mode = "none"
  <2>1. ExchangeOK(exchange[n], n)
    BY <1>3 DEF Sound, Owned
  <2> QED BY <1>1, <2>1 DEF ExchangeOK, n
<1>6. /\ Len(held') \in Nat /\ held' \in Seq(Requests)
      /\ \A i \in 1..Len(held) : held'[i] = held[i]
      /\ Len(held') = Len(held) \/ Len(held') = Len(held) + 1
      /\ Len(held') = Len(held) + 1 => held'[Len(held) + 1] = n
  <2>1. CASE held' = held
    BY <1>1, <2>1
  <2>2. CASE held' = Append(held, n)
    BY ONLY <1>1, <1>3, <2>2, Added
  <2> QED BY <1>4, <2>1, <2>2
<1>7. Waiting'
  <2>1. \A i \in 1..Len(held) : held[i] <= Len(kind) /\ exchange[held[i]].mode = "none" /\ held[i] \in Requests
    BY <1>1 DEF Sound, Waiting
  <2>2. ASSUME NEW i \in 1..Len(held')
        PROVE  held'[i] <= Len(kind') /\ exchange[held'[i]].mode = "none" /\ held'[i] \in Requests
    <3>1. CASE i \in 1..Len(held)
      <4>1. /\ held'[i] = held[i] /\ held[i] <= Len(kind) /\ held[i] \in Requests
            /\ exchange[held[i]].mode = "none"
        BY <1>6, <2>1, <3>1
      <4>2. Len(kind') = Len(kind) + 1 /\ Len(kind) \in Nat /\ held[i] \in Nat
        BY <1>1, <1>3, <4>1 DEF n, Requests
      <4> QED BY <4>1, <4>2
    <3>2. CASE i = Len(held) + 1
      BY <1>1, <1>3, <1>5, <1>6, <3>2
    <3> QED BY <1>1, <1>6, <3>1, <3>2
  <2>3. ASSUME NEW i \in 1..Len(held'), NEW j \in 1..Len(held'), held'[i] = held'[j]
        PROVE  i = j
    <3>1. CASE i \in 1..Len(held) /\ j \in 1..Len(held)
      BY <1>6, <2>3, <3>1 DEF Sound, Waiting
    <3>2. ASSUME NEW m \in 1..Len(held) PROVE held'[m] # n
      <4>1. held'[m] = held[m] /\ held[m] <= Len(kind) /\ held[m] \in Requests
        BY <1>6, <2>1
      <4> QED BY <1>1, <1>3, <4>1 DEF n, Requests
    <3>3. CASE i = Len(held) + 1 \/ j = Len(held) + 1
      BY <1>1, <1>6, <2>3, <3>2, <3>3
    <3> QED BY <1>1, <1>6, <3>1, <3>3
  <2> QED BY <1>1, <1>4, <2>2, <2>3 DEF Waiting
<1>8. Owned'
  <2>1. ASSUME NEW r \in Requests PROVE ExchangeOK(exchange[r], r)'
    <3>1. ExchangeOK(exchange[r], r)
      BY DEF Sound, Owned
    <3>2. r \in 1..Len(kind) => kind'[r] = kind[r]
      BY <1>3
    <3>3. exchange[r].mode # "none" => r \in 1..Len(kind) /\ r <= Len(kind')
      BY <1>1, <1>3, <3>1 DEF ExchangeOK, Requests, n
    <3>4. exchange[r].retain => exchange[r].mode # "none"
      BY <3>1 DEF ExchangeOK
    <3> QED BY <1>4, <3>1, <3>2, <3>3, <3>4 DEF ExchangeOK
  <2>2. Owned
    BY DEF Sound
  <2> QED BY <1>4, <2>1, <2>2 DEF Owned, Live, store
<1>9. Calls' /\ TimerMeetsDeadline'
  BY <1>4 DEF Sound, Calls, TimerMeetsDeadline, store
<1>10. Len(kind') <= MaxRequests
  BY <1>1, <1>3 DEF n
<1> QED BY <1>3, <1>4, <1>6, <1>7, <1>8, <1>9, <1>10 DEF Sound, TypeOK, store

\* The parser comes to a request, whose exchange becomes now: what the client
\* is sent, and whether a handler runs, shows in its mode.
Began(r, now) ==
  /\ held # <<>> /\ r = Head(held) /\ r \in Requests /\ r \in 1..Len(kind)
  /\ conn.up /\ ~conn.gated
  /\ stack = <<>> \/ (Len(stack) = 1 /\ stack[1].call = "finish")
  /\ exchange[r].mode = "none" /\ r \notin app /\ r \notin registry /\ r \notin kept
  /\ exchange' = [exchange EXCEPT ![r] = now]
  /\ now \in Exchange /\ ExchangeOK(now, r)
  /\ now.mode # "none" /\ now.sink = "connection"
  /\ wire' = IF now.mode = "Open" THEN wire
             ELSE IF now.mode = "Stream" THEN Append(wire, Of("head", r))
             ELSE Append(wire, Of("unary", r))
  /\ registry' = {x \in registry \cup {r} : exchange'[x].mode # "Complete"}
  /\ IF now.mode = "Complete" THEN stack' = stack /\ app' = app
     ELSE stack' = Append(stack, Frame("dispatch", r)) /\ app' = app \cup {r}
  /\ held' = Tail(held)
  /\ conn' \in [up : BOOLEAN, closing : BOOLEAN, gated : BOOLEAN, first : 1..MaxRequests]
  /\ conn'.up = conn.up /\ conn'.first = conn.first
  /\ conn'.gated => now.mode = "Stream"
  /\ UNCHANGED <<world, kind, store>>

LEMMA DispatchBegins == ASSUME Sound, Dispatch PROVE \E r, now : Began(r, now)
<1> DEFINE r == Head(held)
           k == kind[r]
           e == [Unborn EXCEPT !.mode = "Open"]
           now == CASE AnsweredByTransport(k) -> [e EXCEPT !.mode = "Complete"]
                    [] OpensEarly(k)          -> Begun(e, k)
                    [] OTHER                  -> e
           sent == CASE AnsweredByTransport(k) -> <<Of("unary", r)>>
                     [] OpensEarly(k)          -> Prelude(r)
                     [] OTHER                  -> <<>>
           to_handler == ~AnsweredByTransport(k) /\ (OpensEarly(k) => k.http_1_1)
<1>1. /\ held # <<>> /\ held \in Seq(Requests) /\ Len(held) \in Nat /\ 1 \in 1..Len(held) /\ r = held[1]
      /\ conn.up /\ ~conn.gated /\ Resumed
  BY DEF Dispatch, Sound, TypeOK
<1>2. r \in Requests /\ exchange[r].mode = "none" /\ r <= Len(kind)
  BY <1>1 DEF Sound, Waiting
<1>3. r \in 1..Len(kind) /\ k \in Kind
  <2>1. kind \in Seq(Kinds) /\ Len(kind) \in Nat /\ Kinds \subseteq Kind /\ MaxRequests \in Nat
    BY ExchangeAssumption DEF Sound, TypeOK
  <2> QED BY <1>2, <2>1 DEF Requests
<1>4. r \notin app /\ r \notin registry /\ r \notin kept
  <2>1. Owned /\ ExchangeOK(exchange[r], r)
    BY <1>2 DEF Sound, Owned
  <2> QED BY <1>2, <2>1 DEF Owned, ExchangeOK, Unborn
<1>5. /\ exchange' = [exchange EXCEPT ![r] = now] /\ wire' = wire \o sent
      /\ conn' = [conn EXCEPT !.gated = Gated(r, OpensEarly(k))]
      /\ registry' = Reaped(exchange', registry \cup {r})
      /\ app' = (IF to_handler THEN app \cup {r} ELSE app)
      /\ stack' = (IF to_handler THEN Append(stack, Frame("dispatch", r)) ELSE stack)
      /\ held' = Tail(held) /\ UNCHANGED <<world, kind, store>>
  BY DEF Dispatch
<1>6. /\ e \in Exchange /\ e.mode = "Open" /\ e.sink = "connection" /\ ~e.cancelled /\ ~e.retain
  BY DEF Exchange, Unborn
<1> HIDE DEF r, k, e
<1>7. /\ Begun(e, k) \in Exchange /\ Begun(e, k).mode = (IF k.http_1_1 THEN "Stream" ELSE "Complete")
      /\ Begun(e, k).retain = ~k.modern /\ Begun(e, k).sink = "connection" /\ ~Begun(e, k).cancelled
  BY <1>3, <1>6, BegunFields
<1>8. /\ [e EXCEPT !.mode = "Complete"] \in Exchange
      /\ [e EXCEPT !.mode = "Complete"].mode = "Complete"
      /\ [e EXCEPT !.mode = "Complete"].sink = "connection"
      /\ ~[e EXCEPT !.mode = "Complete"].cancelled /\ ~[e EXCEPT !.mode = "Complete"].retain
  BY <1>6 DEF Exchange
<1>0. ~(AnsweredByTransport(k) /\ OpensEarly(k))
  BY DEF AnsweredByTransport, OpensEarly
<1>9. /\ now \in Exchange /\ now.sink = "connection" /\ ~now.cancelled
      /\ now.retain => now.mode \in {"Stream", "Complete"} /\ ~k.modern
      /\ IF AnsweredByTransport(k) THEN now.mode = "Complete"
         ELSE IF OpensEarly(k) THEN now.mode = IF k.http_1_1 THEN "Stream" ELSE "Complete"
         ELSE now.mode = "Open"
  <2>1. CASE AnsweredByTransport(k)
    <3>1. now = [e EXCEPT !.mode = "Complete"]
      BY <1>0, <2>1
    <3> HIDE DEF now
    <3> QED BY <1>8, <2>1, <3>1
  <2>2. CASE ~AnsweredByTransport(k) /\ OpensEarly(k)
    <3>1. now = Begun(e, k)
      BY <2>2
    <3> HIDE DEF now
    <3> QED BY <1>3, <1>7, <2>2, <3>1 DEF Kind
  <2>3. CASE ~AnsweredByTransport(k) /\ ~OpensEarly(k)
    <3>1. now = e
      BY <2>3
    <3> HIDE DEF now
    <3> QED BY <1>6, <2>3, <3>1
  <2> QED BY <2>1, <2>2, <2>3
<1>10. sent = IF AnsweredByTransport(k) THEN <<Of("unary", r)>>
              ELSE IF OpensEarly(k)
                   THEN (IF k.http_1_1 THEN <<Of("head", r)>> ELSE <<Of("unary", r)>>)
              ELSE <<>>
  BY <1>0 DEF Prelude, k
<1> HIDE DEF now, sent
<1>11. to_handler <=> now.mode # "Complete"
  BY <1>3, <1>9
<1>12. wire' = IF now.mode = "Open" THEN wire
               ELSE IF now.mode = "Stream" THEN Append(wire, Of("head", r))
               ELSE Append(wire, Of("unary", r))
  <2>1. wire \in Seq(Item) /\ Of("head", r) \in Item /\ Of("unary", r) \in Item
    BY <1>2 DEF Sound, TypeOK, Of, Item
  <2>2. /\ wire \o <<Of("head", r)>> = Append(wire, Of("head", r))
        /\ wire \o <<Of("unary", r)>> = Append(wire, Of("unary", r))
        /\ wire \o <<>> = wire
    BY <2>1, Added
  <2> QED BY <1>3, <1>5, <1>9, <1>10, <2>2
<1> HIDE DEF to_handler
<1>13. ExchangeOK(now, r)
  <2>1. now.mode # "none"
    BY <1>9
  <2> QED BY <1>3, <1>9, <2>1 DEF ExchangeOK, k
<1>14. /\ conn' \in [up : BOOLEAN, closing : BOOLEAN, gated : BOOLEAN, first : 1..MaxRequests]
       /\ conn'.up = conn.up /\ conn'.first = conn.first
       /\ conn'.gated => OpensEarly(k) /\ k.http_1_1
  BY <1>1, <1>3, <1>5 DEF Sound, TypeOK, Gated, World, Kind, k
<1>15. conn'.gated => now.mode = "Stream"
  BY <1>9, <1>14 DEF OpensEarly, AnsweredByTransport
<1>16. stack = <<>> \/ (Len(stack) = 1 /\ stack[1].call = "finish")
  BY <1>1 DEF Resumed, Idle, Top
<1>17. r = Head(held)
  BY DEF r
<1>18. Began(r, now)
  BY <1>1, <1>2, <1>3, <1>4, <1>5, <1>9, <1>11, <1>12, <1>13, <1>14, <1>15, <1>16, <1>17
     DEF Began, Reaped
<1> QED BY <1>18

LEMMA DispatchSound == ASSUME Sound, Dispatch PROVE Sound'
<1>1. PICK r, now : Began(r, now)
  BY DispatchBegins
<1>2. /\ exchange \in [Requests -> Exchange] /\ r \in Requests
      /\ exchange' \in [Requests -> Exchange]
      /\ exchange'[r] = now /\ \A x \in Requests \ {r} : exchange'[x] = exchange[x]
  BY <1>1 DEF Sound, TypeOK, Began
<1>3. /\ registry \subseteq Requests /\ app \subseteq Requests /\ kept \subseteq Requests
      /\ registry' = {x \in registry \cup {r} : exchange'[x].mode # "Complete"}
      /\ r \notin app /\ r \notin registry /\ r \notin kept
      /\ app' \in {app, app \cup {r}} /\ kept' = kept /\ kind' = kind /\ conn'.up = conn.up /\ conn.up
      /\ now.mode # "none" /\ now.sink = "connection" /\ ExchangeOK(now, r)
      /\ exchange[r].mode = "none"
  BY <1>1 DEF Sound, TypeOK, Began, store
<1>4. Owned'
  <2>1. ASSUME NEW x \in Requests PROVE ExchangeOK(exchange[x], x)'
    BY <1>2, <1>3 DEF Sound, Owned, ExchangeOK
  <2>2. ASSUME NEW x \in Requests, Live(x)' PROVE conn'.up /\ x \in registry'
    <3>1. exchange'[x].mode # "Complete" /\ (x # r => Live(x))
      BY <1>2, <2>2 DEF Live
    <3>2. x \in registry \cup {r}
      BY <3>1 DEF Sound, Owned
    <3> QED BY <1>3, <3>1, <3>2
  <2>3. ASSUME NEW x \in Requests, exchange'[x].mode = "Stream", exchange'[x].sink = "kept"
        PROVE  x \in kept'
    BY <1>2, <1>3, <2>3 DEF Sound, Owned
  <2>4. Owned
    BY DEF Sound
  <2>5. \A x \in app' : exchange'[x].mode # "none"
    BY <1>2, <1>3, <2>4 DEF Owned
  <2>6. \A x \in registry' : exchange'[x].mode # "none" /\ exchange'[x].sink = "connection"
    BY <1>2, <1>3, <2>4 DEF Owned
  <2>7. \A x \in kept' : exchange'[x].sink = "kept"
    BY <1>2, <1>3, <2>4 DEF Owned
  <2> QED BY <2>1, <2>2, <2>3, <2>5, <2>6, <2>7 DEF Owned
<1>5. /\ held' \in Seq(Requests) /\ Len(held') = Len(held) - 1 /\ Len(held) \in Nat \ {0}
      /\ \A i \in 1..Len(held') : held'[i] = held[i + 1]
      /\ r = held[1]
  <2>1. held \in Seq(Requests) /\ held # <<>> /\ r = Head(held) /\ held' = Tail(held)
    BY <1>1 DEF Began, Sound, TypeOK
  <2> QED BY <2>1, HeadTailProperties
<1>6. Waiting'
  <2>1. ASSUME NEW i \in 1..Len(held')
        PROVE  held'[i] <= Len(kind') /\ exchange'[held'[i]].mode = "none"
    <3>1. /\ i + 1 \in 1..Len(held) /\ 1 \in 1..Len(held) /\ i + 1 # 1 /\ held'[i] = held[i + 1]
      BY <1>5
    <3>2. held[i + 1] <= Len(kind) /\ exchange[held[i + 1]].mode = "none" /\ held[i + 1] # r
          /\ held[i + 1] \in Requests
      <4>1. held \in Seq(Requests) /\ Waiting
        BY DEF Sound, TypeOK
      <4> QED BY <1>5, <3>1, <4>1 DEF Waiting
    <3> QED BY <1>2, <1>3, <3>1, <3>2
  <2>2. ASSUME NEW i \in 1..Len(held'), NEW j \in 1..Len(held'), held'[i] = held'[j]
        PROVE  i = j
    <3>1. /\ i + 1 \in 1..Len(held) /\ j + 1 \in 1..Len(held)
          /\ held[i + 1] = held[j + 1]
      BY <1>5, <2>2
    <3>2. i + 1 = j + 1
      BY <3>1 DEF Sound, Waiting
    <3> QED BY <1>5, <3>2
  <2> QED BY <1>3, <2>1, <2>2 DEF Waiting
<1>7. Calls' /\ stack' \in Seq(Frames)
  <2> DEFINE f == Frame("dispatch", r)
  <2>1. /\ stack \in Seq(Frames) /\ Len(stack) \in Nat /\ f \in Frames /\ f.call = "dispatch" /\ f.of = r
        /\ Len(stack) \in {0, 1} /\ (Len(stack) = 1 => stack[1].call = "finish")
        /\ \A i \in 1..Len(stack) : stack[i] \in Frames
    <3>1. stack \in Seq(Frames)
      BY DEF Sound, TypeOK, Frames
    <3>2. stack = <<>> \/ (Len(stack) = 1 /\ stack[1].call = "finish")
      BY <1>1 DEF Began
    <3>3. Len(stack) \in Nat /\ (stack = <<>> => Len(stack) = 0)
          /\ \A i \in 1..Len(stack) : stack[i] \in Frames
      BY <3>1
    <3>4. f \in Frames /\ f.call = "dispatch" /\ f.of = r
      BY <1>2 DEF Frames, Frame
    <3> QED BY <3>1, <3>2, <3>3, <3>4
  <2>2. \A i \in 1..Len(stack) :
          /\ stack[i].of \in Requests /\ stack[i].call = "finish" /\ i = 1
          /\ exchange[stack[i].of].mode = "Stream" /\ exchange[stack[i].of].sink = "connection"
          /\ stack[i].of # r
          /\ exchange'[stack[i].of] = exchange[stack[i].of]
    <3>1. \A i \in 1..Len(stack) : i = 1 /\ stack[i].of \in Requests /\ stack[i].call = "finish"
      BY <2>1 DEF Frames
    <3>2. \A i \in 1..Len(stack) :
            exchange[stack[i].of].mode = "Stream" /\ exchange[stack[i].of].sink = "connection"
      BY <3>1 DEF Sound, Calls
    <3> QED BY <1>2, <1>3, <3>1, <3>2
  <2>3. CASE stack' = stack
    BY <2>1, <2>2, <2>3 DEF Calls
  <2>4. CASE stack' = Append(stack, f) /\ app' = app \cup {r}
    <3>1. /\ stack' \in Seq(Frames) /\ Len(stack') = Len(stack) + 1
          /\ \A i \in 1..Len(stack) : stack'[i] = stack[i]
          /\ stack'[Len(stack) + 1] = f
      BY <2>1, <2>4, Added
    <3>2. ASSUME NEW i \in 1..Len(stack')
          PROVE  IF stack'[i].call = "finish"
                 THEN exchange'[stack'[i].of].mode = "Stream" /\ exchange'[stack'[i].of].sink = "connection"
                 ELSE stack'[i].of \in app'
      <4>1. CASE i \in 1..Len(stack)
        BY <2>2, <3>1, <4>1
      <4>2. CASE i = Len(stack) + 1
        BY <2>1, <2>4, <3>1, <4>2
      <4> QED BY <2>1, <3>1, <4>1, <4>2
    <3>3. ASSUME NEW i \in 2..Len(stack')
          PROVE  i = 2 /\ stack'[i].call = "dispatch" /\ stack'[1].call = "finish"
                 /\ stack'[1].of # stack'[2].of
      BY <2>1, <2>2, <3>1
    <3> QED BY <2>1, <3>1, <3>2, <3>3 DEF Calls
  <2> QED BY <1>1, <2>1, <2>3, <2>4 DEF Began
<1>8. TimerMeetsDeadline'
  <2>1. \A x \in kept : exchange'[x] = exchange[x]
    BY <1>2, <1>3
  <2> QED BY <1>1, <2>1 DEF Sound, TimerMeetsDeadline, Began, store
<1>9. wire' \in Seq(Item)
  <2>1. wire \in Seq(Item) /\ Of("head", r) \in Item /\ Of("unary", r) \in Item
    BY <1>2 DEF Sound, TypeOK, Of, Item
  <2>2. Append(wire, Of("head", r)) \in Seq(Item) /\ Append(wire, Of("unary", r)) \in Seq(Item)
    BY <2>1, Added
  <2> QED BY <1>1, <2>1, <2>2 DEF Began
<1>10. registry' \subseteq Requests /\ app' \subseteq Requests
  BY <1>2, <1>3
<1> QED BY <1>1, <1>2, <1>4, <1>5, <1>6, <1>7, <1>8, <1>9, <1>10
        DEF Sound, TypeOK, Began, store, Frames

\* What cancelling leaves an exchange as: whoever watched it has been told.
LEMMA CancelledFields ==
  ASSUME NEW y \in Exchange
  PROVE  /\ Cancelled(y) \in Exchange /\ Cancelled(y).sink = y.sink
         /\ Cancelled(y).mode = y.mode /\ Cancelled(y).retain = y.retain
         /\ Cancelled(y).cancelled /\ Cancelled(y).watching = 0
<1> DEFINE t == y.told + y.watching
<1>1. t \in Nat
  BY DEF Exchange
<1>2. Cancelled(y) = [y EXCEPT !.cancelled = TRUE, !.told = t, !.watching = 0]
  BY DEF Cancelled
<1> HIDE DEF t
<1> DEFINE c == Cancelled(y)
<1>3. /\ DOMAIN y = {"mode", "retain", "sink", "cancelled", "watching", "told", "events"}
      /\ y.mode \in {"none", "Open", "Stream", "Complete"} /\ y.retain \in BOOLEAN
      /\ y.sink \in {"connection", "kept", "gone"} /\ y.events \in Nat
  BY DEF Exchange
<1>4. /\ DOMAIN c = DOMAIN y /\ c = [f \in DOMAIN c |-> c[f]]
      /\ c.cancelled = TRUE /\ c.told = t /\ c.watching = 0
      /\ c.mode = y.mode /\ c.retain = y.retain /\ c.sink = y.sink /\ c.events = y.events
  BY <1>2, <1>3
<1> HIDE DEF c
<1>5. c \in Exchange
  <2>1. c = [mode |-> c.mode, retain |-> c.retain, sink |-> c.sink, cancelled |-> c.cancelled,
             watching |-> c.watching, told |-> c.told, events |-> c.events]
    BY <1>3, <1>4
  <2>2. /\ c.mode \in {"none", "Open", "Stream", "Complete"} /\ c.retain \in BOOLEAN
        /\ c.sink \in {"connection", "kept", "gone"} /\ c.cancelled \in BOOLEAN
        /\ c.watching \in Nat /\ c.told \in Nat /\ c.events \in Nat
    <3>1. /\ c.mode \in {"none", "Open", "Stream", "Complete"} /\ c.retain \in BOOLEAN
          /\ c.sink \in {"connection", "kept", "gone"} /\ c.cancelled \in BOOLEAN
          /\ c.told \in Nat /\ c.events \in Nat
      BY <1>1, <1>3, <1>4, Zenon
    <3>2. c.watching \in Nat
      BY <1>4
    <3> QED BY <3>1, <3>2
  <2>3. [mode |-> c.mode, retain |-> c.retain, sink |-> c.sink, cancelled |-> c.cancelled,
         watching |-> c.watching, told |-> c.told, events |-> c.events] \in Exchange
    BY ONLY <2>2 DEF Exchange
  <2> QED BY ONLY <2>1, <2>3
<1> QED BY <1>4, <1>5 DEF c

\* A connection is lost: what becomes of the exchanges that carry on, of the
\* others it had, and of those that had lost theirs before.
Survivors == {r \in registry : CarriesOn(exchange[r])}

LEMMA Loses ==
  ASSUME Sound, Lose
  PROVE  /\ \A r \in Survivors :
              /\ r \in registry /\ r \in Requests /\ exchange[r].mode = "Stream" /\ exchange[r].retain
              /\ exchange[r].sink = "connection" /\ ~exchange[r].cancelled
              /\ exchange'[r] \in Exchange /\ ExchangeOK(exchange[r], r)'
              /\ exchange'[r].sink = "kept" /\ exchange'[r].mode = "Stream"
         /\ \A r \in registry \ Survivors :
              /\ exchange'[r] \in Exchange /\ ExchangeOK(exchange[r], r)'
              /\ exchange'[r].sink = "gone" /\ exchange'[r].mode = exchange[r].mode
              /\ exchange'[r].cancelled /\ exchange[r].sink = "connection" /\ exchange[r].mode # "none"
         /\ \A r \in Requests \ registry :
              exchange'[r] = exchange[r] /\ ExchangeOK(exchange[r], r)' /\ ~Live(r)
<1> DEFINE Lost(r) == Cancelled([exchange[r] EXCEPT !.sink = "gone"])
<1>0. Survivors = {r \in registry : CarriesOn(exchange[r])}
  BY DEF Survivors
<1>1. /\ stack = <<>> /\ conn.up
      /\ exchange' = [r \in Requests |->
                        IF r \in Survivors THEN [exchange[r] EXCEPT !.sink = "kept"]
                        ELSE IF r \in registry THEN Lost(r) ELSE exchange[r]]
      /\ kept' = kept \cup Survivors /\ registry' = {} /\ held' = <<>>
      /\ conn' = [conn EXCEPT !.up = FALSE, !.gated = FALSE]
      /\ UNCHANGED <<world, kind, app, stack, wire, expiring, timer, deferred>>
  BY DEF Lose, Idle, Survivors
<1>2. /\ exchange \in [Requests -> Exchange] /\ registry \subseteq Requests /\ app \subseteq Requests
      /\ kept \subseteq Requests /\ Owned /\ TimerMeetsDeadline /\ DOMAIN expiring \subseteq kept
  BY DEF Sound, TypeOK
<1>3. ASSUME NEW r \in Survivors
      PROVE  /\ r \in registry /\ r \in Requests /\ exchange[r].mode = "Stream" /\ exchange[r].retain
             /\ exchange[r].sink = "connection" /\ ~exchange[r].cancelled
             /\ exchange'[r] \in Exchange /\ ExchangeOK(exchange[r], r)'
             /\ exchange'[r].sink = "kept" /\ exchange'[r].mode = "Stream"
  <2>1. /\ r \in registry /\ r \in Requests /\ exchange[r] \in Exchange
        /\ exchange[r].mode # "Complete" /\ exchange[r].retain
    BY <1>0, <1>2 DEF CarriesOn
  <2>2. /\ ExchangeOK(exchange[r], r) /\ exchange[r].sink = "connection"
    BY <1>2, <2>1 DEF Owned
  <2>3. exchange[r].mode = "Stream" /\ ~exchange[r].cancelled
    BY <2>1, <2>2 DEF ExchangeOK
  <2>4. exchange'[r] = [exchange[r] EXCEPT !.sink = "kept"]
    BY <1>1, <2>1
  <2>5. /\ exchange'[r] \in Exchange /\ exchange'[r].sink = "kept" /\ exchange'[r].mode = "Stream"
        /\ exchange'[r].retain = exchange[r].retain /\ exchange'[r].cancelled = exchange[r].cancelled
        /\ exchange'[r].watching = exchange[r].watching
    BY <2>1, <2>3, <2>4 DEF Exchange
  <2>6. ExchangeOK(exchange[r], r)'
    BY <1>1, <2>1, <2>2, <2>3, <2>5 DEF ExchangeOK
  <2> QED BY <2>1, <2>2, <2>3, <2>5, <2>6
<1>4. ASSUME NEW r \in registry, r \notin Survivors
      PROVE  /\ exchange'[r] \in Exchange /\ ExchangeOK(exchange[r], r)'
             /\ exchange'[r].sink = "gone" /\ exchange'[r].mode = exchange[r].mode
             /\ exchange'[r].cancelled /\ exchange[r].sink = "connection" /\ exchange[r].mode # "none"
  <2>1. /\ r \in Requests /\ exchange[r] \in Exchange /\ ExchangeOK(exchange[r], r)
        /\ exchange[r].mode # "none" /\ exchange[r].sink = "connection"
    BY <1>2 DEF Owned
  <2> DEFINE y == [exchange[r] EXCEPT !.sink = "gone"]
  <2>2. exchange'[r] = Cancelled(y)
    BY <1>1, <1>4, <2>1
  <2>5. /\ y \in Exchange /\ y.sink = "gone" /\ y.mode = exchange[r].mode
        /\ y.retain = exchange[r].retain
    BY <2>1 DEF Exchange
  <2> HIDE DEF y
  <2>3. /\ exchange'[r] \in Exchange /\ exchange'[r].sink = "gone"
        /\ exchange'[r].mode = exchange[r].mode
        /\ exchange'[r].retain = exchange[r].retain /\ exchange'[r].cancelled
        /\ exchange'[r].watching = 0
    BY <2>2, <2>5, CancelledFields
  <2>4. ExchangeOK(exchange[r], r)'
    BY <1>1, <2>1, <2>3 DEF ExchangeOK
  <2> QED BY <2>1, <2>3, <2>4
<1>5. ASSUME NEW r \in Requests, r \notin registry
      PROVE  exchange'[r] = exchange[r] /\ ExchangeOK(exchange[r], r)' /\ ~Live(r)
  <2>1. exchange'[r] = exchange[r] /\ ExchangeOK(exchange[r], r) /\ ~Live(r)
    BY <1>0, <1>1, <1>2, <1>5 DEF Owned
  <2> QED BY <1>1, <2>1 DEF ExchangeOK
<1> QED BY <1>3, <1>4, <1>5

LEMMA LoseSound == ASSUME Sound, Lose PROVE Sound'
<1>1. /\ stack = <<>> /\ conn.up /\ DOMAIN exchange' = Requests /\ exchange' = [r \in Requests |-> exchange'[r]]
      /\ kept' = kept \cup Survivors /\ registry' = {} /\ held' = <<>>
      /\ conn' = [conn EXCEPT !.up = FALSE, !.gated = FALSE]
      /\ UNCHANGED <<world, kind, app, stack, wire, expiring, timer, deferred>>
  BY DEF Lose, Idle, Survivors
<1>2. /\ exchange \in [Requests -> Exchange] /\ registry \subseteq Requests /\ app \subseteq Requests
      /\ kept \subseteq Requests /\ Owned /\ TimerMeetsDeadline /\ DOMAIN expiring \subseteq kept
  BY DEF Sound, TypeOK
<1>3. \A r \in Survivors :
        /\ r \in registry /\ r \in Requests /\ exchange[r].mode = "Stream" /\ exchange[r].retain
        /\ exchange[r].sink = "connection" /\ ~exchange[r].cancelled
        /\ exchange'[r] \in Exchange /\ ExchangeOK(exchange[r], r)'
        /\ exchange'[r].sink = "kept" /\ exchange'[r].mode = "Stream"
  BY Loses
<1>4. \A r \in registry \ Survivors :
        /\ exchange'[r] \in Exchange /\ ExchangeOK(exchange[r], r)'
        /\ exchange'[r].sink = "gone" /\ exchange'[r].mode = exchange[r].mode
        /\ exchange'[r].cancelled /\ exchange[r].sink = "connection" /\ exchange[r].mode # "none"
  BY Loses
<1>5. \A r \in Requests \ registry :
        exchange'[r] = exchange[r] /\ ExchangeOK(exchange[r], r)' /\ ~Live(r)
  BY Loses
<1>6. Owned'
  <2>1. \A r \in Requests : ExchangeOK(exchange[r], r)' /\ ~Live(r)'
    <3> TAKE r \in Requests
    <3>1. CASE r \in Survivors
      BY <1>3, <3>1 DEF Live
    <3>2. CASE r \in registry /\ r \notin Survivors
      BY <1>4, <3>2 DEF Live
    <3>3. CASE r \notin registry
      BY <1>5, <3>3 DEF Live
    <3> QED BY <1>3, <3>1, <3>2, <3>3
  <2>2. ASSUME NEW r \in Requests, exchange'[r].mode = "Stream", exchange'[r].sink = "kept"
        PROVE  r \in kept'
    <3>1. CASE r \in Survivors
      BY <1>1, <3>1
    <3>2. CASE r \in registry /\ r \notin Survivors
      BY <1>4, <2>2, <3>2
    <3>3. CASE r \notin registry
      BY <1>1, <1>2, <1>5, <2>2, <3>3 DEF Owned
    <3> QED BY <1>3, <3>1, <3>2, <3>3
  <2>3. \A r \in app' : exchange'[r].mode # "none"
    <3> SUFFICES ASSUME NEW r \in app PROVE exchange'[r].mode # "none"
      BY <1>1
    <3>1. exchange[r].mode # "none" /\ r \in Requests
      BY <1>2 DEF Owned
    <3>2. r \in Survivors => exchange'[r].mode = "Stream"
      BY <1>3
    <3> QED BY <1>4, <1>5, <3>1, <3>2
  <2>4. \A r \in kept' : exchange'[r].sink = "kept"
    <3> SUFFICES ASSUME NEW r \in kept' PROVE exchange'[r].sink = "kept"
      OBVIOUS
    <3>1. CASE r \in Survivors
      BY <1>3, <3>1
    <3>2. CASE r \in kept
      <4>1. exchange[r].sink = "kept" /\ r \in Requests
        BY <1>2, <3>2 DEF Owned
      <4>2. r \notin registry
        BY <1>2, <4>1 DEF Owned
      <4> QED BY <1>5, <4>1, <4>2
    <3> QED BY <1>1, <3>1, <3>2
  <2> QED BY <1>1, <2>1, <2>2, <2>3, <2>4 DEF Owned
<1>7. Waiting' /\ Calls'
  BY <1>1 DEF Sound, Waiting, Calls
<1>8. TimerMeetsDeadline'
  <2>1. ASSUME NEW r \in kept' PROVE exchange'[r].mode = "Complete" <=> r \in DOMAIN expiring
    <3>1. CASE r \in Survivors
      <4>1. r \notin kept
        BY <1>2, <1>3, <3>1 DEF Owned
      <4> QED BY <1>2, <1>3, <3>1, <4>1
    <3>2. CASE r \in kept
      <4>1. exchange[r].sink = "kept" /\ r \in Requests
        BY <1>2, <3>2 DEF Owned
      <4>2. r \notin registry
        BY <1>2, <4>1 DEF Owned
      <4> QED BY <1>2, <1>5, <3>2, <4>1, <4>2 DEF TimerMeetsDeadline
    <3> QED BY <1>1, <3>1, <3>2
  <2> QED BY <1>1, <1>2, <2>1 DEF TimerMeetsDeadline
<1>9. exchange' \in [Requests -> Exchange] /\ kept' \subseteq Requests
  <2>1. \A r \in Requests : exchange'[r] \in Exchange
    BY <1>2, <1>3, <1>4, <1>5
  <2>2. DOMAIN exchange' = Requests /\ exchange' = [r \in Requests |-> exchange'[r]]
    BY <1>1
  <2> QED BY <1>1, <1>2, <1>3, <2>1, <2>2
<1>10. conn' \in [up : BOOLEAN, closing : BOOLEAN, gated : BOOLEAN, first : 1..MaxRequests]
       /\ held' \in Seq(Requests)
  <2>1. conn \in [up : BOOLEAN, closing : BOOLEAN, gated : BOOLEAN, first : 1..MaxRequests]
    BY DEF Sound, TypeOK
  <2>2. conn' = [conn EXCEPT !.up = FALSE, !.gated = FALSE] /\ held' = <<>>
    BY <1>1
  <2>3. conn' \in [up : BOOLEAN, closing : BOOLEAN, gated : BOOLEAN, first : 1..MaxRequests]
    BY <2>1, <2>2
  <2> QED BY <2>2, <2>3
<1> QED BY <1>1, <1>2, <1>6, <1>7, <1>8, <1>9, <1>10 DEF Sound, TypeOK

LEMMA ConnectSound == ASSUME Sound, Connect PROVE Sound'
<1>1. /\ ~conn.up /\ Len(kind) < MaxRequests
      /\ conn' = [up |-> TRUE, closing |-> FALSE, gated |-> FALSE, first |-> Len(kind) + 1]
      /\ wire' = <<>>
      /\ UNCHANGED <<world, kind, exchange, registry, app, stack, held, store>>
  BY DEF Connect
<1>2. Owned'
  <2>1. \A r \in Requests : ~Live(r) /\ ExchangeOK(exchange[r], r)
    BY <1>1 DEF Sound, Owned
  <2>2. \A r \in Requests : ~Live(r)' /\ ExchangeOK(exchange[r], r)'
    BY <1>1, <2>1 DEF Live, ExchangeOK
  <2> QED BY <1>1, <2>2 DEF Sound, Owned, store
<1>3. Waiting' /\ Calls' /\ TimerMeetsDeadline'
  BY <1>1 DEF Sound, Waiting, Calls, TimerMeetsDeadline, store
<1>4. Len(kind) \in Nat /\ MaxRequests \in Nat
  BY ExchangeAssumption DEF Sound, TypeOK
<1>5. conn' \in [up : BOOLEAN, closing : BOOLEAN, gated : BOOLEAN, first : 1..MaxRequests]
  <2>1. Len(kind) + 1 \in 1..MaxRequests
    BY <1>1, <1>4
  <2> QED BY <1>1, <2>1
<1> QED BY <1>1, <1>2, <1>3, <1>5 DEF Sound, TypeOK, store

\* The store lets go of what nobody came back for.
LEMMA ReleaseSound == ASSUME Sound, releaseExpired PROVE Sound'
<1> DEFINE expired == {r \in DOMAIN expiring : expiring[r] = 0}
<1>1. /\ expiring' = [r \in DOMAIN expiring \ expired |-> expiring[r]]
      /\ kept' = kept \ expired /\ deferred' = deferred \cup expired
      /\ timer' = Soonest(expiring')
      /\ UNCHANGED <<world, kind, exchange, registry, app, stack, conn, held, wire>>
  BY DEF releaseExpired
<1>2. /\ DOMAIN expiring \subseteq kept /\ kept \subseteq Requests /\ deferred \subseteq Requests
      /\ \A r \in DOMAIN expiring : expiring[r] \in 0..Retention
      /\ \A r \in kept : exchange[r].mode = "Complete" <=> r \in DOMAIN expiring
  BY DEF Sound, TypeOK, TimerMeetsDeadline
<1>3. expired \subseteq DOMAIN expiring
  OBVIOUS
<1> HIDE DEF expired
<1>4. /\ DOMAIN expiring' = DOMAIN expiring \ expired /\ DOMAIN expiring' \subseteq kept'
      /\ \A r \in DOMAIN expiring' : expiring'[r] \in 0..Retention
      /\ kept' \subseteq kept /\ kept' \subseteq Requests /\ deferred' \subseteq Requests
  BY <1>1, <1>2, <1>3
<1>5. timer' \in 0..Off /\ \A r \in DOMAIN expiring' : timer' <= expiring'[r]
  BY <1>1, <1>4, SoonestOK
<1>6. TimerMeetsDeadline'
  BY <1>1, <1>2, <1>4, <1>5 DEF TimerMeetsDeadline
<1>7. Owned'
  <2>1. ASSUME NEW r \in Requests, exchange[r].mode = "Stream", exchange[r].sink = "kept"
        PROVE  r \in kept'
    <3>1. r \in kept
      BY <2>1 DEF Sound, Owned
    <3>2. r \notin DOMAIN expiring
      BY <1>2, <2>1, <3>1
    <3> QED BY <1>1, <1>3, <3>1, <3>2
  <2>2. \A r \in Requests : ExchangeOK(exchange[r], r)' /\ (Live(r)' => conn'.up /\ r \in registry')
    BY <1>1 DEF Sound, Owned, ExchangeOK, Live
  <2> QED BY <1>1, <1>4, <2>1, <2>2 DEF Sound, Owned
<1>8. Waiting' /\ Calls'
  BY <1>1 DEF Sound, Waiting, Calls
<1> QED BY <1>1, <1>4, <1>5, <1>6, <1>7, <1>8 DEF Sound, TypeOK

LEMMA TickSound == ASSUME Sound, Tick PROVE Sound'
<1>1. /\ timer \in 1..Retention /\ timer' = timer - 1
      /\ expiring' = [r \in DOMAIN expiring |-> IF expiring[r] = 0 THEN 0 ELSE expiring[r] - 1]
      /\ UNCHANGED <<world, kind, exchange, registry, app, stack, conn, held, wire, kept, deferred>>
  BY DEF Tick
<1>2. /\ Retention \in Nat /\ DOMAIN expiring \subseteq kept
      /\ \A r \in DOMAIN expiring : expiring[r] \in 0..Retention /\ timer <= expiring[r]
  BY ExchangeAssumption DEF Sound, TypeOK, TimerMeetsDeadline
<1>3. /\ DOMAIN expiring' = DOMAIN expiring /\ timer' \in 0..Off
      /\ \A r \in DOMAIN expiring' : expiring'[r] \in 0..Retention /\ timer' <= expiring'[r]
  BY <1>1, <1>2 DEF Off
<1>4. TimerMeetsDeadline'
  BY <1>1, <1>3 DEF Sound, TimerMeetsDeadline
<1>5. Owned' /\ Waiting' /\ Calls'
  <2>1. \A r \in Requests : ExchangeOK(exchange[r], r)' /\ (Live(r)' => conn'.up /\ r \in registry')
    BY <1>1 DEF Sound, Owned, ExchangeOK, Live
  <2> QED BY <1>1, <2>1 DEF Sound, Owned, Waiting, Calls
<1> QED BY <1>1, <1>3, <1>4, <1>5 DEF Sound, TypeOK

LEMMA SameSound ==
  ASSUME Sound, UNCHANGED <<world, kind, exchange, registry, app, stack, conn, held, wire,
                            kept, expiring, timer>>,
         deferred' \subseteq Requests
  PROVE  Sound'
<1>1. \A r \in Requests : ExchangeOK(exchange[r], r)' /\ (Live(r)' => conn'.up /\ r \in registry')
  BY DEF Sound, Owned, ExchangeOK, Live
<1>2. Owned' /\ Waiting' /\ Calls' /\ TimerMeetsDeadline'
  BY <1>1 DEF Sound, Owned, Waiting, Calls, TimerMeetsDeadline
<1> QED BY <1>2 DEF Sound, TypeOK

LEMMA InitSound == Init => Sound
<1> SUFFICES ASSUME Init PROVE Sound
  OBVIOUS
<1>1. Unborn \in Exchange /\ \A r \in Requests : exchange[r] = Unborn
  BY DEF Init, Exchange, Unborn
<1>2. TypeOK
  <2>1. Len(kind) <= MaxRequests /\ kind \in Seq(Kinds) /\ 1 \in 1..MaxRequests /\ Retention \in Nat
    BY ExchangeAssumption DEF Init
  <2>2. exchange \in [Requests -> Exchange]
    BY <1>1 DEF Init
  <2>3. conn \in [up : BOOLEAN, closing : BOOLEAN, gated : BOOLEAN, first : 1..MaxRequests]
    BY <2>1 DEF Init
  <2>4. DOMAIN expiring = {} /\ timer \in 0..Off
    BY <2>1 DEF Init, Off
  <2> QED BY <2>1, <2>2, <2>3, <2>4 DEF Init, TypeOK
<1>3. Owned
  <2>1. \A r \in Requests : ExchangeOK(exchange[r], r) /\ ~Live(r)
    BY <1>1 DEF ExchangeOK, Live, Unborn
  <2> QED BY <1>1, <2>1 DEF Owned, Init, Unborn
<1>4. Waiting /\ Calls /\ TimerMeetsDeadline
  BY DEF Init, Waiting, Calls, TimerMeetsDeadline
<1> QED BY <1>2, <1>3, <1>4 DEF Sound

LEMMA StepSound == Sound /\ [Next]_vars => Sound'
<1> SUFFICES ASSUME Sound, [Next]_vars PROVE Sound'
  OBVIOUS
<1>1. CASE \E r \in Requests : Notify(r) \/ RespondJson(r) \/ SendLast(r) \/ CompleteAlone(r)
                               \/ OnCancelled(r)
  BY <1>1, NotifySound, RespondSound, SendLastSound, AloneSound, CancelSound
<1>2. CASE DeferredDelete
  BY <1>2, SameSound DEF DeferredDelete
<1>3. CASE UNCHANGED vars
  <2>1. deferred' \subseteq Requests
    BY <1>3 DEF Sound, TypeOK, vars
  <2> QED BY <1>3, <2>1, SameSound DEF vars
<1> QED BY <1>1, <1>2, <1>3, ReceiveSound, DispatchSound, EndDispatchSound, TailSound, LoseSound,
           ConnectSound, ReleaseSound, TickSound DEF Next

\* No exchange is forgotten, whatever connections, handlers and timers do: one
\* that is not complete has its connection, a place in the store or watchers
\* that were told (RequestExchange::onConnectionGone), and what the store holds
\* for nobody has a deadline its timer meets (armExpiryTimer).
THEOREM ExchangesAlwaysSound == Spec => []ExchangesSound
<1>1. Sound => ExchangesSound
  <2> SUFFICES ASSUME Sound PROVE LossIsHandled
    BY DEF ExchangesSound, Sound
  <2> SUFFICES ASSUME NEW r \in 1..Len(kind)
               PROVE  /\ exchange[r].mode \in {"Open", "Stream"} /\ exchange[r].sink = "connection" =>
                           conn.up /\ r \in registry
                      /\ exchange[r].mode = "Stream" /\ exchange[r].sink = "kept" =>
                           r \in kept /\ ~exchange[r].cancelled /\ ~kind[r].modern
                      /\ exchange[r].sink = "gone" => exchange[r].cancelled
                      /\ exchange[r].cancelled => exchange[r].watching = 0
    BY DEF LossIsHandled
  <2>1. r \in Requests
    <3>1. Len(kind) \in Nat /\ Len(kind) <= MaxRequests /\ MaxRequests \in Nat
      BY ExchangeAssumption DEF Sound, TypeOK
    <3> QED BY <3>1 DEF Requests
  <2>2. /\ ExchangeOK(exchange[r], r)
        /\ Live(r) => conn.up /\ r \in registry
        /\ (exchange[r].mode = "Stream" /\ exchange[r].sink = "kept") => r \in kept
    BY <2>1 DEF Sound, Owned
  <2> QED BY <2>2 DEF ExchangeOK, Live
<1> QED BY <1>1, InitSound, StepSound, PTL DEF Spec

-----------------------------------------------------------------------------
(* What is put on a wire a client could read leaves one it can read.       *)

LEMMA Grows ==
  ASSUME NEW w, NEW n \in Nat, NEW first, WireOK(w, n, first),
         NEW x \in Item, x.of = n, x.what # "bare",
         x.what \in {"head", "unary"} => Ready(w, n, first),
         x.what \in {"event", "tail"} => Inside(w, n)
  PROVE  /\ WireOK(Append(w, x), n, first)
         /\ Append(w, x) # <<>> /\ Append(w, x)[Len(Append(w, x))] = x
<1> DEFINE v == Append(w, x)
           m == Len(w)
<1>1. /\ w \in Seq(Item) /\ m \in Nat /\ v \in Seq(Item) /\ Len(v) = m + 1 /\ v # <<>>
      /\ \A i \in 1..m : v[i] = w[i]
      /\ v[m + 1] = x
  BY Added DEF WireOK
<1>2. \A i \in 1..m : w[i] \in Item /\ w[i].of \in Nat
  <2>1. \A i \in 1..m : w[i] \in Item
    BY ONLY <1>1
  <2> QED BY <2>1 DEF Item, Requests
<1>3. x.what \in {"head", "event", "tail", "unary"}
  BY DEF Item
<1>4. m # 0 => w # <<>> /\ m \in 1..m
  BY <1>1
<1>5. m = 0 => w = <<>>
  BY <1>1
<1> HIDE DEF v, m
<1>6. \A i \in 1..Len(v) : v[i].of <= n
  BY <1>1 DEF WireOK, m
<1>7. ASSUME NEW i \in 1..m
      PROVE  w[i].of <= n /\ (w[i].what \in Ends => w[i].of < n)
  <2>1. /\ w[i].of <= n /\ w[i].of \in Nat /\ w[m].of \in Nat /\ m # 0
        /\ i < m => w[i].of <= w[m].of /\ (w[i].what \in Ends => w[i].of < w[m].of)
    BY <1>1, <1>2 DEF WireOK, Rising, m
  <2>2. CASE x.what \in {"head", "unary"}
    <3>1. w[m].of = n - 1
      BY <1>4, <2>1, <2>2 DEF Ready, m
    <3>2. w[i].of <= w[m].of
      BY <1>1, <2>1
    <3> QED BY <2>1, <3>1, <3>2
  <2>3. CASE x.what \in {"event", "tail"}
    <3>1. w[m].of = n /\ w[m].what \in {"head", "event"}
      BY <2>3 DEF Inside, m
    <3>2. w[m].what \notin Ends
      BY <3>1 DEF Ends
    <3> QED BY <1>1, <2>1, <3>1, <3>2
  <2> QED BY <1>3, <2>2, <2>3
<1>8. Rising(v)
  <2> SUFFICES ASSUME NEW i \in 1..Len(v), NEW j \in 1..Len(v), i < j
               PROVE  v[i].of <= v[j].of /\ (v[i].what \in Ends => v[i].of < v[j].of)
    BY DEF Rising
  <2>1. CASE j \in 1..m
    <3>1. i \in 1..m /\ v[i] = w[i] /\ v[j] = w[j]
      BY <1>1, <2>1
    <3> QED BY <2>1, <3>1 DEF WireOK, Rising, m
  <2>2. CASE j = m + 1
    <3>1. i \in 1..m /\ v[i] = w[i] /\ v[j] = x
      BY <1>1, <2>2
    <3> QED BY <1>7, <3>1
  <2> QED BY <1>1, <2>1, <2>2
<1>9. Readable(v, first)
  <2> SUFFICES ASSUME NEW i \in 1..Len(v)
               PROVE  /\ v[i].what # "bare"
                      /\ v[i].what \in {"head", "unary"} =>
                           (IF i = 1 THEN v[i].of = first
                            ELSE v[i].of = v[i - 1].of + 1 /\ v[i - 1].what \in {"tail", "unary"})
                      /\ v[i].what \in {"event", "tail"} =>
                           i > 1 /\ v[i - 1].of = v[i].of /\ v[i - 1].what \in {"head", "event"}
    BY DEF Readable
  <2>1. CASE i \in 1..m
    <3>1. v[i] = w[i] /\ (i # 1 => v[i - 1] = w[i - 1])
      BY <1>1, <2>1
    <3> QED BY <2>1, <3>1 DEF WireOK, Readable, m
  <2>2. CASE i = m + 1 /\ m = 0
    <3>1. w = <<>> /\ v[i] = x
      BY <1>1, <1>5, <2>2
    <3> QED BY <2>2, <3>1 DEF Ready, Inside
  <2>3. CASE i = m + 1 /\ m # 0
    <3>1. w # <<>> /\ v[i] = x /\ v[i - 1] = w[m] /\ i > 1 /\ w[m].of \in Nat
      BY <1>1, <1>2, <1>4, <2>3
    <3>2. x.what \in {"head", "unary"} => w[m].of = n - 1 /\ w[m].what \in {"tail", "unary"}
      BY <3>1 DEF Ready, Ends, m
    <3>3. x.what \in {"event", "tail"} => w[m].of = n /\ w[m].what \in {"head", "event"}
      BY DEF Inside, m
    <3> QED BY <3>1, <3>2, <3>3
  <2> QED BY <1>1, <2>1, <2>2, <2>3
<1> QED BY <1>1, <1>6, <1>8, <1>9 DEF WireOK, v

\* The four ways an answer goes on, and where they leave the wire.
LEMMA GoesOn ==
  ASSUME NEW w, NEW r \in Requests, NEW first, WireOK(w, r, first)
  PROVE  /\ Ready(w, r, first) => /\ WireOK(Append(w, Of("head", r)), r, first)
                                  /\ Inside(Append(w, Of("head", r)), r)
         /\ Ready(w, r, first) => /\ WireOK(Append(w, Of("unary", r)), r, first)
                                  /\ Over(Append(w, Of("unary", r)), r)
         /\ Inside(w, r) => /\ WireOK(Append(w, Of("event", r)), r, first)
                            /\ Inside(Append(w, Of("event", r)), r)
         /\ Inside(w, r) => /\ WireOK(Append(w, Of("tail", r)), r, first)
                            /\ Over(Append(w, Of("tail", r)), r)
<1>1. r \in Nat
  BY DEF Requests
<1>2. ASSUME NEW what \in {"head", "event", "tail", "unary"}
      PROVE  Of(what, r) \in Item /\ Of(what, r).what = what /\ Of(what, r).of = r
  BY DEF Of, Item
<1>3. ASSUME Ready(w, r, first), NEW what \in {"head", "unary"}
      PROVE  /\ WireOK(Append(w, Of(what, r)), r, first)
             /\ Append(w, Of(what, r)) # <<>>
             /\ Append(w, Of(what, r))[Len(Append(w, Of(what, r)))] = Of(what, r)
  <2> DEFINE x == Of(what, r)
  <2>1. x \in Item /\ x.what = what /\ x.of = r
    BY <1>2
  <2> HIDE DEF x
  <2>2. x.what # "bare" /\ x.what \notin {"event", "tail"}
    BY <2>1
  <2>3. /\ WireOK(Append(w, x), r, first) /\ Append(w, x) # <<>>
        /\ Append(w, x)[Len(Append(w, x))] = x
    BY <1>1, <1>3, <2>1, <2>2, Grows
  <2> QED BY <2>3 DEF x
<1>4. ASSUME Inside(w, r), NEW what \in {"event", "tail"}
      PROVE  /\ WireOK(Append(w, Of(what, r)), r, first)
             /\ Append(w, Of(what, r)) # <<>>
             /\ Append(w, Of(what, r))[Len(Append(w, Of(what, r)))] = Of(what, r)
  <2> DEFINE x == Of(what, r)
  <2>1. x \in Item /\ x.what = what /\ x.of = r
    BY <1>2
  <2> HIDE DEF x
  <2>2. x.what # "bare" /\ x.what \notin {"head", "unary"}
    BY <2>1
  <2>3. /\ WireOK(Append(w, x), r, first) /\ Append(w, x) # <<>>
        /\ Append(w, x)[Len(Append(w, x))] = x
    BY <1>1, <1>4, <2>1, <2>2, Grows
  <2> QED BY <2>3 DEF x
<1>5. Ready(w, r, first) => /\ WireOK(Append(w, Of("head", r)), r, first)
                           /\ Inside(Append(w, Of("head", r)), r)
  BY <1>2, <1>3 DEF Inside
<1>6. Ready(w, r, first) => /\ WireOK(Append(w, Of("unary", r)), r, first)
                           /\ Over(Append(w, Of("unary", r)), r)
  BY <1>2, <1>3 DEF Over, Ends
<1>7. Inside(w, r) => /\ WireOK(Append(w, Of("event", r)), r, first)
                     /\ Inside(Append(w, Of("event", r)), r)
  BY <1>2, <1>4 DEF Inside
<1>8. Inside(w, r) => /\ WireOK(Append(w, Of("tail", r)), r, first)
                     /\ Over(Append(w, Of("tail", r)), r)
  BY <1>2, <1>4 DEF Over, Ends
<1> QED BY <1>5, <1>6, <1>7, <1>8

\* A wire stays readable while the newest request changes.
LEMMA StaysOK ==
  ASSUME NEW w, NEW n \in Int, NEW k \in Int, n <= k, NEW first, WireOK(w, n, first)
  PROVE  WireOK(w, k, first)
<1>1. \A i \in 1..Len(w) : w[i].of \in Nat
  <2>1. \A i \in 1..Len(w) : w[i] \in Item
    BY DEF WireOK
  <2> QED BY <2>1 DEF Item, Requests
<1> QED BY <1>1 DEF WireOK

\* Where requests and what of them is held stand.
LEMMA NewestFacts ==
  ASSUME Sound
  PROVE  /\ Len(kind) \in Nat /\ Len(held) \in Nat /\ Newest \in Int /\ Newest <= Len(kind)
         /\ conn.first \in 1..MaxRequests /\ Len(kind) <= MaxRequests /\ MaxRequests \in Nat
         /\ held \in Seq(Requests) /\ wire \in Seq(Item) /\ stack \in Seq(Frames)
         /\ Len(stack) \in Nat /\ conn.gated \in BOOLEAN
         /\ Newest >= conn.first => Newest \in Requests
<1>1. /\ Len(kind) \in Nat /\ Len(held) \in Nat /\ Len(kind) <= MaxRequests /\ MaxRequests \in Nat
      /\ held \in Seq(Requests) /\ wire \in Seq(Item) /\ stack \in Seq(Frames)
      /\ Len(stack) \in Nat
  BY ExchangeAssumption DEF Sound, TypeOK, Frames
<1>2. conn.first \in 1..MaxRequests /\ conn.gated \in BOOLEAN
  BY DEF Sound, TypeOK
<1> QED BY <1>1, <1>2 DEF Newest, Requests

\* A step that no answer of the connection takes part in.
LEMMA QuietOrderly ==
  ASSUME Sound, WireFollows, OneAtATime,
         UNCHANGED <<world, kind, held, wire, stack>>,
         conn'.up = conn.up, conn'.first = conn.first, conn'.gated = conn.gated,
         \A x \in Requests : /\ exchange'[x].sink = exchange[x].sink
                             /\ exchange[x].sink = "connection" => exchange'[x].mode = exchange[x].mode
  PROVE  WireFollows' /\ OneAtATime'
<1>1. \A x \in Requests : Live(x)' <=> Live(x)
  BY DEF Live
<1>2. Newest' = Newest
  BY DEF Newest
<1>3. Newest >= conn.first => Newest \in Requests
  BY NewestFacts
<1>4. Newest \in Int /\ conn.first \in Int
  BY NewestFacts
<1>5. WireFollows'
  <2>1. conn.up /\ ~(Newest < conn.first) =>
           /\ Newest \in Requests
           /\ exchange'[Newest].mode = exchange[Newest].mode
           /\ exchange'[Newest].sink = exchange[Newest].sink
    BY <1>3, <1>4 DEF WireFollows
  <2> QED BY <1>2, <2>1 DEF WireFollows
<1>6. OneAtATime'
  <2>1. conn.gated => exchange'[Newest].mode = exchange[Newest].mode
    BY DEF OneAtATime, Live
  <2> QED BY <1>1, <1>2, <2>1 DEF OneAtATime
<1> QED BY <1>5, <1>6

\* A step of the one answer the connection carries.
LEMMA SpokenOrderly ==
  ASSUME Sound, WireFollows, OneAtATime, NEW r, NEW e, Acted(r, e), Live(r),
         WireOK(wire', r, conn.first), StandsAt(wire', e.mode, r, conn.first),
         world.pipelining /\ e.mode # "Complete" => stack' # <<>>,
         world.pipelining /\ stack' # <<>> => stack'[1] = Frame("dispatch", r),
         conn'.gated => e.mode = "Stream",
         \A i \in 1..Len(stack') : stack'[i].call = "finish" => ~conn'.gated
  PROVE  WireFollows' /\ OneAtATime'
<1>1. /\ exchange \in [Requests -> Exchange] /\ r \in Requests /\ e.mode # "none"
      /\ exchange'[r] = e /\ \A x \in Requests \ {r} : exchange'[x] = exchange[x]
      /\ UNCHANGED <<world, kind, held>> /\ conn'.up = conn.up /\ conn'.first = conn.first
      /\ e.sink = "connection"
  BY DEF Sound, TypeOK, Acted, Live
<1>2. r = Newest /\ r >= conn.first /\ (~world.pipelining => held = <<>>)
  BY <1>1 DEF OneAtATime
<1>3. Newest' = r /\ Newest \in Int /\ conn.first \in Int
  BY <1>1, <1>2, NewestFacts DEF Newest
<1>4. \A x \in Requests : Live(x)' => x = r /\ e.mode # "Complete"
  <2>1. \A x \in Requests \ {r} : ~Live(x)
    BY <1>2 DEF OneAtATime
  <2>2. \A x \in Requests \ {r} : ~Live(x)'
    BY <1>1, <2>1 DEF Live
  <2> QED BY <1>1, <2>2 DEF Live
<1>5. WireFollows'
  <2>1. \A i \in 1..Len(held') : held'[i] = Newest' + i
    BY <1>1, <1>2, <1>3 DEF WireFollows
  <2>2. ~(Newest' < conn'.first)
    BY <1>1, <1>2, <1>3
  <2> QED BY <1>1, <1>3, <2>1, <2>2 DEF WireFollows
<1>6. OneAtATime'
  <2>1. \A x \in Requests : Live(x)' => x = Newest' /\ x >= conn'.first
           /\ (IF world'.pipelining THEN stack' # <<>> ELSE held' = <<>>)
    BY <1>1, <1>2, <1>3, <1>4
  <2>2. conn'.gated => Newest' \in Requests /\ Live(r)' /\ exchange'[r].mode = "Stream"
    BY <1>1, <1>3 DEF Live
  <2>3. conn'.gated => Newest' \in Requests /\ Live(Newest)' /\ exchange'[Newest'].mode = "Stream"
    BY <1>3, <2>2 DEF Live
  <2>4. ~world'.pipelining => Len(held') <= 1
    BY <1>1 DEF OneAtATime
  <2> QED BY <1>1, <1>3, <2>1, <2>3, <2>4 DEF OneAtATime
<1> QED BY <1>5, <1>6

\* The exchange of a handler that acts is the newest or has lost its
\* connection; if it acts on a live one, no stream is being finished.
LEMMA LiveActs ==
  ASSUME Sound, WireFollows, OneAtATime, NEW r \in Requests, Live(r)
  PROVE  /\ r = Newest /\ r >= conn.first /\ conn.up /\ r \in Nat
         /\ WireOK(wire, r, conn.first)
         /\ StandsAt(wire, exchange[r].mode, r, conn.first)
         /\ world.pipelining => stack # <<>> /\ stack[1] = Frame("dispatch", r)
         /\ conn.gated => exchange[r].mode = "Stream"
<1>1. /\ r = Newest /\ r >= conn.first /\ (world.pipelining => stack # <<>>)
  BY DEF OneAtATime
<1>2. conn.up /\ r \in Nat /\ conn.first \in Int
  BY NewestFacts DEF Sound, Owned, Requests
<1>3. ~(Newest < conn.first)
  BY <1>1, <1>2
<1> QED BY <1>1, <1>2, <1>3 DEF WireFollows, OneAtATime

LEMMA NotifyOrderly ==
  ASSUME Sound, WireFollows, OneAtATime, NEW r \in Requests, Notify(r)
  PROVE  WireFollows' /\ OneAtATime'
<1> DEFINE e == Notified(r)
<1>1. /\ Acted(r, e) /\ exchange[r].mode \in {"Open", "Stream"}
      /\ exchange[r].mode = "Open" => e.mode = IF kind[r].http_1_1 THEN "Stream" ELSE "Complete"
      /\ exchange[r].mode = "Stream" => e.mode = "Stream"
  BY NotifyActs
<1> HIDE DEF e
<1>2. /\ stack' = stack /\ MayAct(r)
      /\ conn' = [conn EXCEPT !.gated = Gated(r, exchange[r].mode = "Open")]
  BY DEF Notify
<1>3. /\ exchange'[r] = e /\ \A x \in Requests \ {r} : exchange'[x] = exchange[x]
      /\ UNCHANGED <<world, kind, held>> /\ conn'.up = conn.up /\ conn'.first = conn.first
      /\ e.sink = exchange[r].sink
  BY <1>1 DEF Acted, Sound, TypeOK
<1>4. conn'.gated = Gated(r, exchange[r].mode = "Open")
  BY <1>2 DEF Sound, TypeOK
<1>5. CASE exchange[r].sink # "connection"
  <2>1. wire' = wire
    BY <1>5, NotifyWire
  <2>2. conn'.gated = conn.gated
    BY <1>4, <1>5, NewestFacts DEF Gated
  <2>3. \A x \in Requests : /\ exchange'[x].sink = exchange[x].sink
                            /\ exchange[x].sink = "connection" => exchange'[x].mode = exchange[x].mode
    BY <1>3, <1>5
  <2> QED BY <1>2, <1>3, <2>1, <2>2, <2>3, QuietOrderly
<1>6. CASE exchange[r].sink = "connection"
  <2>1. Live(r)
    BY <1>1, <1>6 DEF Live
  <2>2. /\ r = Newest /\ r \in Nat /\ WireOK(wire, r, conn.first)
        /\ StandsAt(wire, exchange[r].mode, r, conn.first)
        /\ world.pipelining => stack # <<>> /\ stack[1] = Frame("dispatch", r)
        /\ conn.gated => exchange[r].mode = "Stream"
    BY <2>1, LiveActs
  <2>4. WireOK(wire', r, conn.first) /\ StandsAt(wire', e.mode, r, conn.first)
    <3>1. CASE exchange[r].mode = "Stream"
      <4>1. wire' = Append(wire, Of("event", r))
        BY <1>6, <3>1, NotifyWire
      <4>2. Inside(wire, r)
        BY <2>2, <3>1 DEF StandsAt
      <4>3. WireOK(wire', r, conn.first) /\ Inside(wire', r)
        BY <2>2, <4>1, <4>2, GoesOn
      <4> QED BY <1>1, <3>1, <4>3 DEF StandsAt
    <3>2. CASE exchange[r].mode = "Open" /\ kind[r].http_1_1
      <4> DEFINE w == Append(wire, Of("head", r))
      <4>1. wire' = Append(w, Of("event", r))
        BY <1>6, <3>2, NotifyWire
      <4>2. Ready(wire, r, conn.first)
        BY <2>2, <3>2 DEF StandsAt
      <4>3. WireOK(w, r, conn.first) /\ Inside(w, r)
        BY <2>2, <4>2, GoesOn
      <4> HIDE DEF w
      <4>4. WireOK(wire', r, conn.first) /\ Inside(wire', r)
        BY <4>1, <4>3, GoesOn
      <4> QED BY <1>1, <3>2, <4>4 DEF StandsAt
    <3>3. CASE exchange[r].mode = "Open" /\ ~kind[r].http_1_1
      <4>1. wire' = Append(wire, Of("unary", r))
        BY <1>6, <3>3, NotifyWire
      <4>2. Ready(wire, r, conn.first)
        BY <2>2, <3>3 DEF StandsAt
      <4>3. WireOK(wire', r, conn.first) /\ Over(wire', r)
        BY <2>2, <4>1, <4>2, GoesOn
      <4> QED BY <1>1, <3>3, <4>3 DEF StandsAt
    <3> QED BY <1>1, <3>1, <3>2, <3>3
  <2>5. conn'.gated => e.mode = "Stream"
    BY <1>1, <1>4, <2>2 DEF Gated
  <2>6. \A i \in 1..Len(stack) : stack[i].call # "finish"
    <3> SUFFICES ASSUME NEW i \in 1..Len(stack), stack[i].call = "finish" PROVE FALSE
      OBVIOUS
    <3>1. stack[i].of # r
      BY <1>2, ActsApart
    <3>2. stack[i] \in Frames
      BY NewestFacts
    <3>3. stack[i].of \in Requests /\ Live(stack[i].of)
      BY <3>2 DEF Frames, Sound, Calls, Live
    <3>4. stack[i].of = Newest
      BY <3>3 DEF OneAtATime
    <3> QED BY <2>2, <3>1, <3>4
  <2> QED BY <1>1, <1>2, <2>1, <2>2, <2>4, <2>5, <2>6, SpokenOrderly
<1> QED BY <1>5, <1>6

LEMMA RespondOrderly ==
  ASSUME Sound, WireFollows, OneAtATime, NEW r \in Requests, RespondJson(r)
  PROVE  WireFollows' /\ OneAtATime'
<1> DEFINE e == [exchange[r] EXCEPT !.mode = "Complete"]
           x == Of(IF hasActiveStream THEN "bare" ELSE "unary", r)
<1>1. /\ Acted(r, e) /\ exchange[r].mode = "Open" /\ e.mode = "Complete"
  BY RespondActs
<1> HIDE DEF e
<1>2. /\ stack' = stack /\ conn' = conn
      /\ wire' = IF exchange[r].sink = "connection" THEN wire \o <<x>> ELSE wire
  BY DEF RespondJson, Written
<1>3. /\ exchange'[r] = e /\ \A y \in Requests \ {r} : exchange'[y] = exchange[y]
      /\ UNCHANGED <<world, kind, held>> /\ e.sink = exchange[r].sink
  BY <1>1 DEF Acted, Sound, TypeOK
<1>4. CASE exchange[r].sink # "connection"
  <2>1. \A y \in Requests : /\ exchange'[y].sink = exchange[y].sink
                            /\ exchange[y].sink = "connection" => exchange'[y].mode = exchange[y].mode
    BY <1>3, <1>4
  <2> QED BY <1>2, <1>3, <1>4, <2>1, QuietOrderly
<1>5. CASE exchange[r].sink = "connection"
  <2>1. Live(r)
    BY <1>1, <1>5 DEF Live
  <2>2. /\ r = Newest /\ r \in Nat /\ WireOK(wire, r, conn.first)
        /\ StandsAt(wire, exchange[r].mode, r, conn.first)
        /\ world.pipelining => stack # <<>> /\ stack[1] = Frame("dispatch", r)
        /\ conn.gated => exchange[r].mode = "Stream"
    BY <2>1, LiveActs
  <2>3. ~hasActiveStream
    <3> SUFFICES ASSUME NEW s \in registry, exchange[s].mode = "Stream" PROVE FALSE
      BY DEF hasActiveStream
    <3>1. s \in Requests /\ Live(s)
      BY DEF Sound, TypeOK, Owned, Live
    <3>2. s = r
      BY <2>2, <3>1 DEF OneAtATime
    <3> QED BY <1>1, <3>2
  <2>4. x = Of("unary", r) /\ x \in Item /\ wire \in Seq(Item)
    BY <2>3, NewestFacts DEF Of, Item
  <2> HIDE DEF x
  <2>5. wire' = Append(wire, Of("unary", r))
    <3>1. wire \o <<x>> = Append(wire, x)
      BY <2>4, Added
    <3> QED BY <1>2, <1>5, <2>4, <3>1
  <2>6. Ready(wire, r, conn.first)
    BY <1>1, <2>2 DEF StandsAt
  <2>7. WireOK(wire', r, conn.first) /\ Over(wire', r)
    BY <2>2, <2>5, <2>6, GoesOn
  <2>8. StandsAt(wire', e.mode, r, conn.first)
    BY <1>1, <2>7 DEF StandsAt
  <2>9. ~conn'.gated
    BY <1>1, <1>2, <2>2
  <2> QED BY <1>1, <1>2, <2>1, <2>2, <2>7, <2>8, <2>9, SpokenOrderly
<1> QED BY <1>4, <1>5

LEMMA SendLastOrderly ==
  ASSUME Sound, WireFollows, OneAtATime, NEW r \in Requests, SendLast(r)
  PROVE  WireFollows' /\ OneAtATime'
<1> DEFINE e == [exchange[r] EXCEPT !.events = exchange[r].events + 1]
<1>1. /\ Acted(r, e) /\ e.mode = "Stream"
      /\ exchange[r].mode = "Stream" /\ exchange[r].sink = "connection"
  BY SendLastActs
<1> HIDE DEF e
<1>2. /\ stack' = Append(stack, Frame("finish", r)) /\ wire' = Append(wire, Of("event", r))
      /\ conn' = [conn EXCEPT !.gated = FALSE, !.closing = conn.closing \/ ~world.gate]
  BY DEF SendLast
<1>3. ~conn'.gated
  BY <1>2 DEF Sound, TypeOK
<1>4. Live(r)
  BY <1>1 DEF Live
<1>5. /\ r \in Nat /\ WireOK(wire, r, conn.first)
      /\ StandsAt(wire, exchange[r].mode, r, conn.first)
      /\ world.pipelining => stack # <<>> /\ stack[1] = Frame("dispatch", r)
  BY <1>4, LiveActs
<1>6. WireOK(wire', r, conn.first) /\ StandsAt(wire', e.mode, r, conn.first)
  <2>1. Inside(wire, r)
    BY <1>1, <1>5 DEF StandsAt
  <2>2. WireOK(wire', r, conn.first) /\ Inside(wire', r)
    BY <1>2, <1>5, <2>1, GoesOn
  <2> QED BY <1>1, <2>2 DEF StandsAt
<1>7. stack' # <<>> /\ (stack # <<>> => stack'[1] = stack[1])
  <2>1. stack \in Seq(Frames) /\ Frame("finish", r) \in Frames
    BY NewestFacts DEF Frame, Frames
  <2>2. stack # <<>> => 1 \in 1..Len(stack)
    BY <2>1
  <2> QED BY <1>2, <2>1, <2>2, Added
<1> QED BY <1>1, <1>3, <1>4, <1>5, <1>6, <1>7, SpokenOrderly

LEMMA TailOrderly ==
  ASSUME Sound, WireFollows, OneAtATime, WriteTail
  PROVE  WireFollows' /\ OneAtATime'
<1> DEFINE r == Top.of
           e == [exchange[r] EXCEPT !.mode = "Complete"]
<1>1. /\ Acted(r, e) /\ e.mode = "Complete"
      /\ exchange[r].mode = "Stream" /\ exchange[r].sink = "connection"
      /\ stack # <<>> /\ r \in Requests /\ Top.call = "finish"
  BY TailActs
<1> HIDE DEF e
<1>2. /\ stack' = Pop /\ wire' = Append(wire, Of("tail", r)) /\ conn' = conn
  BY DEF WriteTail
<1>3. Live(r)
  BY <1>1 DEF Live
<1>4. /\ r \in Nat /\ WireOK(wire, r, conn.first)
      /\ StandsAt(wire, exchange[r].mode, r, conn.first)
      /\ world.pipelining => stack # <<>> /\ stack[1] = Frame("dispatch", r)
  BY <1>1, <1>3, LiveActs
<1>5. ~conn'.gated
  <2>1. stack \in Seq(Frames) /\ Len(stack) \in 1..Len(stack) /\ stack[Len(stack)].call = "finish"
    BY <1>1, NewestFacts DEF Top
  <2> QED BY <1>2, <2>1 DEF OneAtATime
<1>6. WireOK(wire', r, conn.first) /\ StandsAt(wire', e.mode, r, conn.first)
  <2>1. Inside(wire, r)
    BY <1>1, <1>4 DEF StandsAt
  <2> HIDE DEF r
  <2>2. WireOK(wire', r, conn.first) /\ Over(wire', r)
    BY <1>1, <1>2, <1>4, <2>1, GoesOn
  <2> QED BY <1>1, <2>2 DEF StandsAt
<1> HIDE DEF r
<1>7. stack' # <<>> => stack'[1] = stack[1]
  <2>1. stack' \in Seq(Frames) /\ \A i \in 1..Len(stack') : stack'[i] = stack[i]
    BY <1>1, <1>2, PopOK, NewestFacts
  <2> QED BY <2>1
<1> QED BY <1>1, <1>3, <1>4, <1>5, <1>6, <1>7, SpokenOrderly

LEMMA AloneOrderly ==
  ASSUME Sound, WireFollows, OneAtATime, NEW r \in Requests, CompleteAlone(r) \/ OnCancelled(r)
  PROVE  WireFollows' /\ OneAtATime'
<1>1. PICK e : Acted(r, e) /\ (exchange[r].sink = "connection" => e.mode = exchange[r].mode)
  BY AloneActs, CancelActs
<1>2. /\ exchange'[r] = e /\ \A y \in Requests \ {r} : exchange'[y] = exchange[y]
      /\ UNCHANGED <<world, kind, held>> /\ e.sink = exchange[r].sink
  BY <1>1 DEF Acted, Sound, TypeOK
<1>3. \A y \in Requests : /\ exchange'[y].sink = exchange[y].sink
                          /\ exchange[y].sink = "connection" => exchange'[y].mode = exchange[y].mode
  BY <1>1, <1>2
<1>4. UNCHANGED <<stack, wire, conn>>
  BY DEF CompleteAlone, OnCancelled
<1> QED BY <1>2, <1>3, <1>4, QuietOrderly

\* No dispatch returns before its answer where handlers are synchronous.
LEMMA EndDispatchOrderly ==
  ASSUME Sound, WireFollows, OneAtATime, ~(world.pipelining /\ world.async), EndDispatch
  PROVE  WireFollows' /\ OneAtATime'
<1>1. /\ stack # <<>> /\ Top.call = "dispatch" /\ stack' = Pop
      /\ world.async \/ exchange[Top.of].mode = "Complete"
      /\ UNCHANGED <<world, kind, exchange, app, conn, held, wire, store>>
  BY DEF EndDispatch, Idle
<1>2. /\ Newest' = Newest /\ \A r \in Requests : Live(r)' <=> Live(r)
  BY <1>1 DEF Newest, Live
<1>3. WireFollows'
  BY <1>1, <1>2 DEF WireFollows
<1>4. /\ Len(stack) \in Nat \ {0} /\ stack' \in Seq(Frames) /\ Len(stack') = Len(stack) - 1
      /\ \A i \in 1..Len(stack') : stack'[i] = stack[i] /\ i \in 1..Len(stack)
      /\ stack[Len(stack)].call = "dispatch"
  BY <1>1, NewestFacts, PopOK DEF Top
<1>5. ASSUME world.pipelining, NEW r \in Requests, Live(r) PROVE FALSE
  <2>1. r = Newest /\ stack[1] = Frame("dispatch", r)
    BY <1>1, <1>5, LiveActs
  <2>2. stack[1].call = "dispatch" /\ stack[1].of = r
    BY <2>1 DEF Frame
  <2>3. Len(stack) \in {2} \/ Len(stack) = 1
    <3>1. Len(stack) # 1 => Len(stack) \in 2..Len(stack) /\ stack[Len(stack)].call # "finish"
      BY <1>4
    <3> QED BY <3>1 DEF Sound, Calls
  <2>4. Len(stack) = 1
    <3> SUFFICES ASSUME Len(stack) = 2 PROVE FALSE
      BY <2>3
    <3>1. 2 \in 2..Len(stack) /\ stack[2].call # "finish"
      BY <1>4
    <3>2. stack[1].call = "finish"
      BY <3>1 DEF Sound, Calls
    <3> QED BY <2>2, <3>2
  <2>5. Top.of = r
    BY <2>2, <2>4 DEF Top
  <2> QED BY <1>1, <1>5, <2>5 DEF Live
<1>6. OneAtATime'
  <2>1. \A r \in Requests : Live(r)' => r = Newest' /\ r >= conn'.first
                  /\ (IF world'.pipelining THEN stack' # <<>> ELSE held' = <<>>)
    BY <1>1, <1>2, <1>5 DEF OneAtATime
  <2>2. world'.pipelining /\ stack' # <<>> => stack'[1] = Frame("dispatch", Newest')
    <3>1. stack' # <<>> => 1 \in 1..Len(stack')
      BY <1>4
    <3> QED BY <1>1, <1>2, <1>4, <3>1 DEF OneAtATime
  <2>3. conn'.gated => Newest' \in Requests /\ Live(Newest)' /\ exchange'[Newest'].mode = "Stream"
    BY <1>1, <1>2 DEF OneAtATime, Live
  <2>4. \A i \in 1..Len(stack') : stack'[i].call = "finish" => ~conn'.gated
    BY <1>1, <1>4 DEF OneAtATime
  <2> QED BY <1>1, <2>1, <2>2, <2>3, <2>4 DEF OneAtATime
<1> QED BY <1>3, <1>6

\* Nothing is being answered when another request comes in: the client has
\* read the end of all it asked, or no call is under way.
LEMMA AllRead ==
  ASSUME Sound, WireFollows, OneAtATime, Receive
  PROVE  /\ \A r \in Requests : ~Live(r)
         /\ ~conn.gated
         /\ ~world.pipelining => held = <<>>
<1>1. /\ stack = <<>> /\ conn.up
      /\ world.pipelining \/ \A r \in conn.first..Len(kind) : Ended(r)
  BY DEF Receive, Idle
<1>2. /\ Len(kind) \in Nat /\ Len(held) \in Nat /\ Newest \in Int /\ Newest <= Len(kind)
      /\ conn.first \in Nat /\ held \in Seq(Requests) /\ wire \in Seq(Item) /\ Len(wire) \in Nat
  BY NewestFacts
<1>3. \A i \in 1..Len(wire) : wire[i].of \in Nat
  <2>1. \A i \in 1..Len(wire) : wire[i] \in Item
    BY <1>2
  <2> QED BY <2>1 DEF Item, Requests
<1>4. ~world.pipelining => held = <<>>
  <2> SUFFICES ASSUME ~world.pipelining, held # <<>> PROVE FALSE
    OBVIOUS
  <2>1. Len(held) = 1
    <3>1. Len(held) <= 1
      BY DEF OneAtATime
    <3>2. Len(held) # 0
      BY <1>2, EmptySeq
    <3>3. \A m \in Nat : m <= 1 /\ m # 0 => m = 1
      OBVIOUS
    <3> QED BY <1>2, <3>1, <3>2, <3>3
  <2>2. Newest = Len(kind) - 1
    BY <2>1 DEF Newest
  <2>3. Newest >= conn.first - 1
    BY <1>1, <1>2 DEF WireFollows
  <2>4. Len(kind) \in conn.first..Len(kind)
    BY <1>2, <2>2, <2>3
  <2>5. PICK i \in 1..Len(wire) : wire[i].of = Len(kind)
    BY <1>1, <2>4 DEF Ended
  <2>6. wire[i].of <= Newest
    BY DEF WireFollows, WireOK
  <2> QED BY <1>2, <2>2, <2>5, <2>6
<1>5. ASSUME NEW r \in Requests, Live(r) PROVE FALSE
  <2>1. /\ r = Newest /\ r >= conn.first /\ r \in Nat /\ WireOK(wire, r, conn.first)
        /\ StandsAt(wire, exchange[r].mode, r, conn.first)
        /\ ~world.pipelining
    BY <1>1, <1>5, LiveActs
  <2>2. r = Len(kind)
    BY <1>2, <1>4, <2>1 DEF Newest
  <2>3. PICK i \in 1..Len(wire) : wire[i].of = r /\ wire[i].what \in {"tail", "unary", "bare"}
    BY <1>1, <1>2, <2>1, <2>2 DEF Ended
  <2>4. wire[i].what \in Ends
    BY <2>1, <2>3 DEF WireOK, Readable, Ends
  <2>5. /\ wire # <<>> /\ Len(wire) \in 1..Len(wire)
        /\ i < Len(wire) => wire[i].of < wire[Len(wire)].of
        /\ wire[i].of <= wire[Len(wire)].of
    <3>1. wire # <<>> /\ Len(wire) \in 1..Len(wire) /\ i <= Len(wire)
      BY <1>2, <2>3
    <3>2. i < Len(wire) => wire[i].of < wire[Len(wire)].of
      BY <2>1, <2>4, <3>1 DEF WireOK, Rising
    <3>3. i = Len(wire) => wire[i].of <= wire[Len(wire)].of
      BY <1>3
    <3> QED BY <1>2, <1>3, <3>1, <3>2, <3>3
  <2>6. CASE exchange[r].mode = "Open"
    <3>1. wire[Len(wire)].of = r - 1
      BY <2>1, <2>5, <2>6 DEF StandsAt, Ready
    <3> QED BY <2>1, <2>3, <2>5, <3>1
  <2>7. CASE exchange[r].mode = "Stream"
    <3>1. wire[Len(wire)].of = r /\ wire[Len(wire)].what \in {"head", "event"}
      BY <2>1, <2>7 DEF StandsAt, Inside
    <3>2. i # Len(wire)
      BY <2>4, <3>1 DEF Ends
    <3> QED BY <1>2, <2>1, <2>3, <2>5, <3>1, <3>2
  <2> QED BY <1>5, <2>6, <2>7 DEF Live
<1>6. ~conn.gated
  BY <1>5 DEF OneAtATime
<1> QED BY <1>4, <1>5, <1>6

LEMMA ReceiveOrderly ==
  ASSUME Sound, WireFollows, OneAtATime, Receive
  PROVE  WireFollows' /\ OneAtATime'
<1> DEFINE n == Len(kind) + 1
<1>1. /\ \A r \in Requests : ~Live(r)
      /\ ~conn.gated
      /\ ~world.pipelining => held = <<>>
  BY AllRead
<1>2. /\ stack = <<>> /\ n \in Requests /\ held' = Append(held, n)
      /\ conn'.up = conn.up /\ conn'.first = conn.first /\ conn'.gated = conn.gated
      /\ UNCHANGED <<world, exchange, registry, app, stack, wire, store>>
  <2>1. /\ Len(kind) < MaxRequests /\ stack = <<>>
        /\ UNCHANGED <<world, exchange, registry, app, stack, wire, store>>
    BY DEF Receive, Idle
  <2>2. n \in Requests
    <3>1. Len(kind) \in Nat /\ MaxRequests \in Nat
      BY NewestFacts
    <3> QED BY ONLY <2>1, <3>1 DEF Requests
  <2>3. held' = Append(held, n)
    BY <1>1 DEF Receive
  <2>4. \E c \in BOOLEAN : conn' = [conn EXCEPT !.closing = c]
    <3>1. conn' = [conn EXCEPT !.closing = @ \/ (conn.gated /\ Len(held) >= MaxHeld)]
      BY DEF Receive
    <3>2. (conn.closing \/ (conn.gated /\ Len(held) >= MaxHeld)) \in BOOLEAN
      OBVIOUS
    <3> QED BY <3>1, <3>2
  <2>5. conn \in [up : BOOLEAN, closing : BOOLEAN, gated : BOOLEAN, first : 1..MaxRequests]
    BY DEF Sound, TypeOK
  <2>6. conn'.up = conn.up /\ conn'.first = conn.first /\ conn'.gated = conn.gated
    BY ONLY <2>4, <2>5
  <2> QED BY <2>1, <2>2, <2>3, <2>6
<1>3. Len(kind') = Len(kind) + 1
  <2>1. PICK k \in Kinds : kind' = Append(kind, k)
    BY DEF Receive
  <2>2. kind \in Seq(Kinds)
    BY DEF Sound, TypeOK
  <2> QED BY <2>1, <2>2, Added
<1>4. /\ held \in Seq(Requests) /\ Len(held) \in Nat /\ Len(kind) \in Nat /\ Newest \in Int
  BY NewestFacts
<1> HIDE DEF n
<1>5. /\ Len(held') = Len(held) + 1
      /\ \A i \in 1..Len(held) : held'[i] = held[i]
      /\ held'[Len(held) + 1] = n
  BY <1>2, <1>4, Added
<1>6. Newest' = Newest
  BY <1>3, <1>4, <1>5 DEF Newest
<1>7. \A i \in 1..Len(held') : held'[i] = Newest' + i
  <2> SUFFICES ASSUME NEW i \in 1..Len(held') PROVE held'[i] = Newest' + i
    OBVIOUS
  <2>1. CASE i \in 1..Len(held)
    BY <1>5, <1>6, <2>1 DEF WireFollows
  <2>2. CASE i = Len(held) + 1
    BY <1>4, <1>5, <1>6, <2>2 DEF Newest, n
  <2> QED BY <1>4, <1>5, <2>1, <2>2
<1>8. WireFollows'
  BY <1>2, <1>6, <1>7 DEF WireFollows
<1>9. OneAtATime'
  <2>1. \A r \in Requests : ~Live(r)'
    BY <1>1, <1>2 DEF Live
  <2>2. ~world'.pipelining => Len(held') <= 1
    BY <1>1, <1>2, <1>5
  <2> QED BY <1>1, <1>2, <2>1, <2>2 DEF OneAtATime
<1> QED BY <1>8, <1>9

\* The next request is begun when the answer before it is over.
LEMMA DispatchOrderly ==
  ASSUME Sound, WireFollows, OneAtATime, Dispatch
  PROVE  WireFollows' /\ OneAtATime'
<1>1. PICK r, now : Began(r, now)
  BY DispatchBegins
<1>2. /\ exchange \in [Requests -> Exchange] /\ r \in Requests
      /\ exchange'[r] = now /\ \A x \in Requests \ {r} : exchange'[x] = exchange[x]
      /\ held # <<>> /\ conn.up /\ conn'.up = conn.up /\ conn'.first = conn.first
      /\ now.mode # "none" /\ now.sink = "connection" /\ now.mode \in {"none", "Open", "Stream", "Complete"}
      /\ UNCHANGED <<world, kind>> /\ exchange[r].mode = "none" /\ ~conn.gated
      /\ conn'.gated => now.mode = "Stream"
  BY <1>1 DEF Sound, TypeOK, Began, Exchange
<1>3. \A i \in 1..Len(stack) : stack[i].call # "finish"
  <2> SUFFICES ASSUME NEW i \in 1..Len(stack), stack[i].call = "finish" PROVE FALSE
    OBVIOUS
  <2>1. stack[i] \in Frames /\ stack # <<>>
    BY NewestFacts
  <2>2. stack[i].of \in Requests /\ Live(stack[i].of)
    BY <2>1 DEF Frames, Sound, Calls, Live
  <2>3. world.pipelining
    BY <1>2, <2>2 DEF OneAtATime
  <2>4. stack[1].call = "dispatch"
    BY <2>1, <2>3 DEF OneAtATime, Frame
  <2>5. stack[1].call = "finish"
    BY <1>1, <2>1 DEF Began
  <2> QED BY <2>4, <2>5
<1>4. stack = <<>>
  BY <1>1, <1>3 DEF Began
<1>5. \A x \in Requests : ~Live(x)
  BY <1>2, <1>4 DEF OneAtATime
<1>6. /\ held' \in Seq(Requests) /\ Len(held') = Len(held) - 1 /\ Len(held) \in Nat \ {0}
      /\ \A i \in 1..Len(held') : held'[i] = held[i + 1]
      /\ r = held[1]
  <2>1. held \in Seq(Requests) /\ held # <<>> /\ r = Head(held) /\ held' = Tail(held)
    BY <1>1 DEF Began, Sound, TypeOK
  <2> QED BY <2>1, HeadTailProperties
<1>7. /\ Newest \in Int /\ Len(kind) \in Nat /\ conn.first \in Nat /\ r \in Nat
  <2>1. r \in 1..MaxRequests /\ conn.first \in 1..MaxRequests
    BY <1>2, NewestFacts DEF Requests
  <2> QED BY <2>1, NewestFacts
<1>8. r = Newest + 1 /\ Newest' = r
  <2>1. r = Newest + 1
    BY <1>6 DEF WireFollows
  <2>2. Newest' = Newest + 1
    BY <1>2, <1>6, <1>7 DEF Newest
  <2> QED BY <2>1, <2>2
<1>9. \A i \in 1..Len(held') : held'[i] = Newest' + i
  <2> SUFFICES ASSUME NEW i \in 1..Len(held') PROVE held'[i] = Newest' + i
    OBVIOUS
  <2>1. i + 1 \in 1..Len(held) /\ held'[i] = held[i + 1]
    BY <1>6
  <2>2. held[i + 1] = Newest + (i + 1)
    BY <2>1 DEF WireFollows
  <2> QED BY <1>7, <1>8, <2>1, <2>2
<1>10. Ready(wire, r, conn.first) /\ r >= conn.first
  <2>1. CASE Newest < conn.first
    BY <1>2, <1>7, <1>8, <2>1 DEF WireFollows, Ready
  <2>2. CASE ~(Newest < conn.first)
    <3>1. /\ exchange[Newest].mode # "none" /\ exchange[Newest].sink = "connection"
          /\ StandsAt(wire, exchange[Newest].mode, Newest, conn.first)
          /\ Newest \in Requests
      BY <1>2, <1>7, <2>2, NewestFacts DEF WireFollows
    <3>2. exchange[Newest] \in Exchange /\ ~Live(Newest)
      BY <1>2, <1>5, <3>1
    <3>3. exchange[Newest].mode = "Complete"
      BY <3>1, <3>2 DEF Live, Exchange
    <3>4. Over(wire, Newest)
      BY <3>1, <3>3 DEF StandsAt
    <3> QED BY <1>7, <1>8, <2>2, <3>4 DEF Over, Ready
  <2> QED BY <2>1, <2>2
<1>11. WireOK(wire', r, conn.first) /\ StandsAt(wire', now.mode, r, conn.first)
  <2>1. WireOK(wire, r, conn.first)
    BY <1>7, <1>8, StaysOK DEF WireFollows
  <2>2. CASE now.mode = "Open"
    BY <1>1, <1>10, <2>1, <2>2 DEF Began, StandsAt
  <2>3. CASE now.mode = "Stream"
    <3>1. wire' = Append(wire, Of("head", r))
      BY <1>1, <2>3 DEF Began
    <3>2. WireOK(wire', r, conn.first) /\ Inside(wire', r)
      BY <1>2, <1>10, <2>1, <3>1, GoesOn
    <3> QED BY <2>3, <3>2 DEF StandsAt
  <2>4. CASE now.mode = "Complete"
    <3>1. wire' = Append(wire, Of("unary", r))
      BY <1>1, <2>4 DEF Began
    <3>2. WireOK(wire', r, conn.first) /\ Over(wire', r)
      BY <1>2, <1>10, <2>1, <3>1, GoesOn
    <3> QED BY <2>4, <3>2 DEF StandsAt
  <2> QED BY <1>2, <2>2, <2>3, <2>4
<1>12. WireFollows'
  <2>1. ~(Newest' < conn'.first)
    BY <1>2, <1>7, <1>8, <1>10
  <2> QED BY <1>2, <1>8, <1>9, <1>11, <2>1 DEF WireFollows
<1>13. /\ \A i \in 1..Len(stack') : stack'[i] = Frame("dispatch", r)
       /\ now.mode # "Complete" => stack' # <<>>
       /\ stack' # <<>> => 1 \in 1..Len(stack')
  <2>1. \/ stack' = <<>> /\ now.mode = "Complete"
        \/ stack' = <<Frame("dispatch", r)>>
    BY <1>1, <1>4 DEF Began
  <2> QED BY <2>1
<1>14. OneAtATime'
  <2>1. ASSUME NEW x \in Requests, Live(x)'
        PROVE  x = r /\ now.mode # "Complete"
    BY <1>2, <1>5, <2>1 DEF Live
  <2>2. ~world'.pipelining => Len(held') <= 1 /\ held' = <<>>
    <3>1. ~world.pipelining => Len(held) <= 1
      BY DEF OneAtATime
    <3>2. ~world.pipelining => Len(held') = 0
      BY <1>6, <3>1
    <3> QED BY <1>2, <1>6, <3>2
  <2>3. \A x \in Requests : Live(x)' => x = Newest' /\ x >= conn'.first
                  /\ (IF world'.pipelining THEN stack' # <<>> ELSE held' = <<>>)
    BY <1>2, <1>8, <1>10, <1>13, <2>1, <2>2
  <2>4. conn'.gated => Newest' \in Requests /\ Live(r)' /\ exchange'[r].mode = "Stream"
    BY <1>2, <1>8 DEF Live
  <2>5. conn'.gated => Newest' \in Requests /\ Live(Newest)' /\ exchange'[Newest'].mode = "Stream"
    BY <1>8, <2>4 DEF Live
  <2>6. /\ world'.pipelining /\ stack' # <<>> => stack'[1] = Frame("dispatch", Newest')
        /\ \A i \in 1..Len(stack') : stack'[i].call # "finish"
    BY <1>8, <1>13 DEF Frame
  <2> QED BY <2>2, <2>3, <2>5, <2>6 DEF OneAtATime
<1> QED BY <1>12, <1>14

\* A lost connection carries nothing any more.
LEMMA LoseOrderly ==
  ASSUME Sound, WireFollows, Lose
  PROVE  WireFollows' /\ OneAtATime'
<1>1. /\ stack = <<>> /\ held' = <<>> /\ ~conn'.up /\ ~conn'.gated /\ conn'.first = conn.first
      /\ UNCHANGED <<world, kind, stack, wire>>
  <2>1. conn \in [up : BOOLEAN, closing : BOOLEAN, gated : BOOLEAN, first : 1..MaxRequests]
    BY DEF Sound, TypeOK
  <2>2. /\ stack = <<>> /\ held' = <<>> /\ conn' = [conn EXCEPT !.up = FALSE, !.gated = FALSE]
        /\ UNCHANGED <<world, kind, stack, wire>>
    BY DEF Lose, Idle
  <2> QED BY <2>1, <2>2
<1>2. \A r \in Requests : ~Live(r)'
  BY LoseSound, <1>1 DEF Sound, Owned
<1>3. Newest' = Len(kind) /\ Newest <= Len(kind) /\ Newest \in Int /\ Len(kind) \in Int /\ Len(held') = 0
  <2>1. Len(kind) \in Nat /\ Newest <= Len(kind) /\ Newest \in Int
    BY NewestFacts
  <2>2. Len(held') = 0 /\ Len(kind') = Len(kind)
    BY <1>1
  <2> QED BY <2>1, <2>2 DEF Newest
<1>4. WireOK(wire, Newest, conn.first)
  BY DEF WireFollows
<1>5. WireOK(wire, Len(kind), conn.first)
  BY ONLY <1>3, <1>4, StaysOK
<1>6. WireFollows'
  BY <1>1, <1>3, <1>5 DEF WireFollows
<1>7. OneAtATime'
  BY <1>1, <1>2, <1>3 DEF OneAtATime
<1> QED BY <1>6, <1>7

\* The next connection begins with the requests that are still to come.
LEMMA ConnectOrderly ==
  ASSUME Sound, Connect
  PROVE  WireFollows' /\ OneAtATime'
<1>1. /\ stack = <<>> /\ ~conn.up /\ wire' = <<>>
      /\ conn' = [up |-> TRUE, closing |-> FALSE, gated |-> FALSE, first |-> Len(kind) + 1]
      /\ UNCHANGED <<world, kind, exchange, stack, held>>
  BY DEF Connect, Idle
<1>2. held = <<>> /\ Len(held) = 0
  <2>1. held = <<>>
    BY <1>1 DEF Sound, Waiting
  <2> QED BY <2>1
<1>3. \A r \in Requests : ~Live(r)'
  <2>1. \A r \in Requests : ~Live(r)
    BY <1>1 DEF Sound, Owned
  <2> QED BY <1>1, <2>1 DEF Live
<1>4. Len(kind) \in Nat /\ Newest' = Len(kind) /\ conn'.first = Len(kind) + 1 /\ ~conn'.gated
  BY <1>1, <1>2, NewestFacts DEF Newest
<1>5. WireFollows'
  <2>1. WireOK(wire', Newest', conn'.first)
    BY <1>1 DEF WireOK, Rising, Readable
  <2> QED BY <1>1, <1>2, <1>4, <2>1 DEF WireFollows
<1>6. OneAtATime'
  BY <1>1, <1>2, <1>3, <1>4 DEF OneAtATime
<1> QED BY <1>5, <1>6

LEMMA InitOrderly == Init => WireFollows /\ OneAtATime
<1> SUFFICES ASSUME Init PROVE WireFollows /\ OneAtATime
  OBVIOUS
<1>1. /\ \A r \in Requests : ~Live(r)
      /\ kind = <<>> /\ held = <<>> /\ wire = <<>> /\ stack = <<>>
      /\ conn = [up |-> TRUE, closing |-> FALSE, gated |-> FALSE, first |-> 1]
  BY DEF Init, Live, Unborn
<1>2. Newest = 0 /\ Len(held) = 0
  BY <1>1 DEF Newest
<1>3. WireFollows
  <2>1. WireOK(wire, Newest, conn.first)
    BY <1>1 DEF WireOK, Rising, Readable
  <2> QED BY <1>1, <1>2, <2>1 DEF WireFollows
<1>4. OneAtATime
  BY <1>1, <1>2 DEF OneAtATime
<1> QED BY <1>3, <1>4

LEMMA StepOrderly == Sound /\ Orderly /\ [Next]_vars => Orderly'
<1> SUFFICES ASSUME Sound, Orderly, [Next]_vars PROVE Orderly'
  OBVIOUS
<1>1. world' = world
  BY DEF Next, vars, Receive, Dispatch, EndDispatch, Notify, RespondJson, SendLast, CompleteAlone,
         OnCancelled, WriteTail, Lose, Connect, releaseExpired, DeferredDelete, Tick
<1>2. CASE world.pipelining /\ world.async
  BY <1>1, <1>2 DEF Orderly
<1>3. CASE ~(world.pipelining /\ world.async)
  <2>1. WireFollows /\ OneAtATime
    BY <1>3 DEF Orderly
  <2> SUFFICES WireFollows' /\ OneAtATime'
    BY DEF Orderly
  <2>2. CASE Receive
    BY <2>1, <2>2, ReceiveOrderly
  <2>3. CASE Dispatch
    BY <2>1, <2>3, DispatchOrderly
  <2>4. CASE EndDispatch
    BY <1>3, <2>1, <2>4, EndDispatchOrderly
  <2>5. ASSUME NEW r \in Requests, Notify(r) PROVE WireFollows' /\ OneAtATime'
    BY <1>3, <2>1, <2>5, NotifyOrderly
  <2>6. ASSUME NEW r \in Requests, RespondJson(r) PROVE WireFollows' /\ OneAtATime'
    BY <1>3, <2>1, <2>6, RespondOrderly
  <2>7. ASSUME NEW r \in Requests, SendLast(r) PROVE WireFollows' /\ OneAtATime'
    BY <1>3, <2>1, <2>7, SendLastOrderly
  <2>8. ASSUME NEW r \in Requests, CompleteAlone(r) PROVE WireFollows' /\ OneAtATime'
    BY <1>3, <2>1, <2>8, AloneOrderly
  <2>9. ASSUME NEW r \in Requests, OnCancelled(r) PROVE WireFollows' /\ OneAtATime'
    BY <1>3, <2>1, <2>9, AloneOrderly
  <2>10. CASE WriteTail
    BY <1>3, <2>1, <2>10, TailOrderly
  <2>11. CASE Lose
    BY <2>1, <2>11, LoseOrderly
  <2>12. CASE Connect
    BY <2>12, ConnectOrderly
  <2>13. ASSUME UNCHANGED <<world, kind, exchange, registry, app, stack, conn, held, wire>>
         PROVE  WireFollows' /\ OneAtATime'
    BY <2>1, <2>13, QuietOrderly
  <2>14. CASE releaseExpired
    BY <2>13, <2>14 DEF releaseExpired
  <2>15. CASE DeferredDelete
    BY <2>13, <2>15 DEF DeferredDelete
  <2>16. CASE Tick
    BY <2>13, <2>16 DEF Tick
  <2>17. CASE UNCHANGED vars
    BY <2>13, <2>17 DEF vars
  <2> QED BY <2>2, <2>3, <2>4, <2>5, <2>6, <2>7, <2>8, <2>9, <2>10, <2>11, <2>12, <2>14, <2>15,
             <2>16, <2>17 DEF Next
<1> QED BY <1>2, <1>3

\* A client that waits for each answer, or one whose requests are all answered
\* before their dispatch returns, can tell the answers apart: every one is
\* framed, whole, and in the order of the requests (StreamGatePolicy::DecoderGate
\* and the 400 and 406 of dispatchBody write nothing in between).
THEOREM WireAlwaysReadable == Spec => []WireReadable
<1>1. Init => Orderly
  BY InitOrderly DEF Orderly
<1>2. Orderly => WireReadable
  BY DEF Orderly, WireFollows, WireOK, Readable, WireReadable, AnswersInOrder
<1> QED BY <1>1, <1>2, InitSound, StepSound, StepOrderly, PTL DEF Spec

-----------------------------------------------------------------------------
(* Every step of an exchange is a step of RequestLifetime, or none.        *)

\* The life of an exchange, of which the store does or does not wait for the
\* deadline.
LifeAs(e, dated) ==
  IF e.mode = "none" THEN "unasked"
  ELSE IF e.sink = "kept"
  THEN (IF e.mode = "Stream" THEN "kept" ELSE IF dated THEN "finished" ELSE "released")
  ELSE IF e.mode = "Complete" THEN "answered"
  ELSE IF e.sink = "gone" THEN "cancelled"
  ELSE IF e.mode = "Stream" THEN "streaming" ELSE "open"

LEMMA LifeNow ==
  ASSUME Sound, NEW r \in Requests
  PROVE  /\ LifeOf(r) = LifeAs(exchange[r], r \in DOMAIN expiring)
         /\ exchange[r] \in Exchange /\ ExchangeOK(exchange[r], r)
         /\ exchange[r].sink = "kept" => exchange[r].mode \in {"Stream", "Complete"}
<1>1. exchange[r] \in Exchange /\ ExchangeOK(exchange[r], r)
  BY DEF Sound, TypeOK, Owned
<1>2. /\ exchange[r].cancelled <=> exchange[r].sink = "gone"
      /\ exchange[r].sink = "kept" => exchange[r].mode \in {"Stream", "Complete"}
  BY <1>1 DEF ExchangeOK
<1> QED BY <1>1, <1>2 DEF LifeOf, LifeAs

\* The same of an exchange after a step.
LEMMA LifeThen ==
  ASSUME NEW r \in Requests, exchange'[r].cancelled <=> exchange'[r].sink = "gone"
  PROVE  LifeOf(r)' = LifeAs(exchange'[r], r \in DOMAIN expiring')
BY DEF LifeOf, LifeAs

\* One life moves on and the others stay where they are.
LEMMA OneMoves ==
  ASSUME NEW r \in Requests, \A x \in Requests \ {r} : LifeOf(x)' = LifeOf(x)
  PROVE  /\ Lives' = [Lives EXCEPT ![r] = LifeOf(r)']
         /\ LifeOf(r)' = LifeOf(r) => Lives' = Lives
         /\ Lives[r] = LifeOf(r)
BY DEF Lives

LEMMA NoneMoves ==
  ASSUME exchange' = exchange, DOMAIN expiring' = DOMAIN expiring
  PROVE  Lives' = Lives
BY DEF Lives, LifeOf

\* What a handler does, and the end of a stream, is a step of the life of its
\* request; of an answer that goes on without its connection, no step.
LEMMA ActedLives ==
  ASSUME Sound, NEW r, NEW e, Acted(r, e), UNCHANGED store,
         exchange[r].sink = "kept" => e.mode = exchange[r].mode
  PROVE  Lives' = Lives \/ Lifetime!Stream(r) \/ Lifetime!Answer(r)
<1>1. /\ exchange \in [Requests -> Exchange] /\ r \in Requests /\ e.mode # "none"
      /\ exchange'[r] = e /\ \A x \in Requests \ {r} : exchange'[x] = exchange[x]
      /\ e.sink = exchange[r].sink /\ e \in Exchange /\ ExchangeOK(e, r)
      /\ exchange[r].mode # "none"
      /\ e.mode = "Open" => exchange[r].mode = "Open"
      /\ e.mode = "Stream" => exchange[r].mode \in {"Open", "Stream"}
      /\ expiring' = expiring
  BY DEF Sound, TypeOK, Acted, store
<1>2. /\ e.mode \in {"Open", "Stream", "Complete"}
      /\ exchange[r] \in Exchange
      /\ exchange[r].mode \in {"Open", "Stream", "Complete"}
      /\ exchange[r].sink \in {"connection", "kept", "gone"}
  BY <1>1 DEF Exchange
<1>3. \A x \in Requests \ {r} : LifeOf(x)' = LifeOf(x)
  BY <1>1 DEF LifeOf
<1>4. LifeOf(r) = LifeAs(exchange[r], r \in DOMAIN expiring)
  BY <1>1, LifeNow
<1>5. LifeOf(r)' = LifeAs(e, r \in DOMAIN expiring)
  <2>1. exchange'[r].cancelled <=> exchange'[r].sink = "gone"
    BY <1>1 DEF ExchangeOK
  <2> QED BY <1>1, <2>1, LifeThen
<1>6. CASE e.mode = exchange[r].mode
  <2>1. LifeOf(r)' = LifeOf(r)
    BY <1>1, <1>4, <1>5, <1>6 DEF LifeAs
  <2> QED BY <1>1, <1>3, <2>1, OneMoves
<1>7. CASE e.mode # exchange[r].mode
  <2>1. /\ exchange[r].sink \in {"connection", "gone"} /\ exchange[r].mode # "Complete"
        /\ e.mode \in {"Stream", "Complete"}
        /\ e.mode = "Stream" => exchange[r].mode = "Open"
    BY <1>1, <1>2, <1>7
  <2>2. CASE e.mode = "Complete"
    <3>1. LifeOf(r) \in {"open", "streaming", "cancelled"} /\ LifeOf(r)' = "answered"
      BY <1>1, <1>4, <1>5, <2>1, <2>2 DEF LifeAs
    <3> QED BY <1>1, <1>3, <3>1, OneMoves DEF Lifetime!Answer, Lifetime!Moves
  <2>3. CASE e.mode = "Stream" /\ exchange[r].sink = "gone"
    <3>1. LifeOf(r)' = LifeOf(r)
      BY <1>1, <1>4, <1>5, <2>1, <2>3 DEF LifeAs
    <3> QED BY <1>1, <1>3, <3>1, OneMoves
  <2>4. CASE e.mode = "Stream" /\ exchange[r].sink = "connection"
    <3>1. LifeOf(r) = "open" /\ LifeOf(r)' = "streaming"
      BY <1>1, <1>4, <1>5, <2>1, <2>4 DEF LifeAs
    <3> QED BY <1>1, <1>3, <3>1, OneMoves DEF Lifetime!Stream, Lifetime!Moves
  <2> QED BY <2>1, <2>2, <2>3, <2>4
<1> QED BY <1>6, <1>7

\* A stream that has lost its connection is complete: the store has a deadline
\* for it, or nobody waits for it.
LEMMA AloneLives ==
  ASSUME Sound, NEW r \in Requests, CompleteAlone(r)
  PROVE  Lifetime!Answer(r) \/ Lifetime!Finish(r)
<1>1. PICK e : Acted(r, e) /\ e.mode = "Complete"
  BY AloneActs
<1>2. exchange[r].mode = "Stream" /\ exchange[r].sink \in {"kept", "gone"}
  BY AloneActs
<1>3. /\ exchange'[r] = e /\ \A x \in Requests \ {r} : exchange'[x] = exchange[x]
      /\ e.sink = exchange[r].sink /\ ExchangeOK(e, r) /\ e \in Exchange
  BY <1>1 DEF Sound, TypeOK, Acted
<1>4. r \in kept <=> exchange[r].sink = "kept"
  BY <1>2 DEF Sound, Owned
<1>5. DOMAIN expiring' = IF r \in kept THEN DOMAIN expiring \cup {r} ELSE DOMAIN expiring
  BY DEF CompleteAlone, scheduleRelease, store
<1>6. \A x \in Requests \ {r} : LifeOf(x)' = LifeOf(x)
  BY <1>3, <1>5 DEF LifeOf
<1>7. LifeOf(r) = LifeAs(exchange[r], r \in DOMAIN expiring)
  BY LifeNow
<1>8. LifeOf(r)' = LifeAs(e, r \in DOMAIN expiring')
  <2>1. exchange'[r].cancelled <=> exchange'[r].sink = "gone"
    BY <1>3 DEF ExchangeOK
  <2> QED BY <1>3, <2>1, LifeThen
<1>9. CASE exchange[r].sink = "kept"
  <2>1. LifeOf(r) = "kept"
    BY <1>2, <1>7, <1>9 DEF LifeAs
  <2>2. LifeOf(r)' = "finished"
    BY <1>1, <1>3, <1>4, <1>5, <1>8, <1>9 DEF LifeAs
  <2> QED BY <1>6, <2>1, <2>2, OneMoves DEF Lifetime!Finish, Lifetime!Moves
<1>10. CASE exchange[r].sink = "gone"
  <2>1. LifeOf(r) = "cancelled"
    BY <1>2, <1>7, <1>10 DEF LifeAs
  <2>2. LifeOf(r)' = "answered"
    BY <1>1, <1>3, <1>8, <1>10 DEF LifeAs
  <2> QED BY <1>6, <2>1, <2>2, OneMoves DEF Lifetime!Answer, Lifetime!Moves
<1> QED BY <1>2, <1>9, <1>10

LEMMA DispatchLives ==
  ASSUME Sound, Dispatch
  PROVE  \E r \in Requests : Lifetime!Ask(r)
<1>1. PICK r, now : Began(r, now)
  BY DispatchBegins
<1>2. /\ exchange'[r] = now /\ \A x \in Requests \ {r} : exchange'[x] = exchange[x]
      /\ r \in Requests /\ exchange[r].mode = "none" /\ expiring' = expiring
      /\ now \in Exchange /\ now.mode # "none" /\ now.sink = "connection" /\ ExchangeOK(now, r)
  BY <1>1 DEF Sound, TypeOK, Began, store
<1>3. \A x \in Requests \ {r} : LifeOf(x)' = LifeOf(x)
  BY <1>2 DEF LifeOf
<1>4. LifeOf(r) = "unasked"
  BY <1>2 DEF LifeOf
<1>5. LifeOf(r)' = LifeAs(now, r \in DOMAIN expiring')
  <2>1. exchange'[r].cancelled <=> exchange'[r].sink = "gone"
    BY <1>2 DEF ExchangeOK
  <2> QED BY <1>2, <2>1, LifeThen
<1>6. LifeOf(r)' \in {"open", "streaming", "answered"}
  BY <1>2, <1>5 DEF LifeAs
<1> QED BY <1>2, <1>3, <1>4, <1>6, OneMoves DEF Lifetime!Ask, Lifetime!Moves

\* Whatever a lost connection carried is kept, when it is a stream, or was
\* cancelled.
LEMMA LoseLives ==
  ASSUME Sound, Lose
  PROVE  Lifetime!Lose
<1>1. /\ registry \subseteq Requests /\ expiring' = expiring
      /\ \A r \in Requests : LifeOf(r) = LifeAs(exchange[r], r \in DOMAIN expiring)
      /\ \A r \in Requests : exchange[r] \in Exchange
  BY LifeNow DEF Sound, TypeOK, Lose
<1>2. ASSUME NEW r \in Survivors
      PROVE  r \in Requests /\ LifeOf(r) = "streaming" /\ LifeOf(r)' = "kept"
  <2>1. /\ r \in Requests /\ exchange[r].mode = "Stream" /\ exchange[r].sink = "connection"
        /\ exchange'[r].sink = "kept" /\ exchange'[r].mode = "Stream" /\ ExchangeOK(exchange[r], r)'
    BY Loses
  <2>2. LifeOf(r) = "streaming"
    BY <1>1, <2>1 DEF LifeAs
  <2>3. LifeOf(r)' = "kept"
    BY <2>1 DEF LifeOf
  <2> QED BY <2>1, <2>2, <2>3
<1>3. ASSUME NEW r \in registry \ Survivors
      PROVE  LifeOf(r)' = IF LifeOf(r) \in {"open", "streaming"} THEN "cancelled" ELSE LifeOf(r)
  <2>1. /\ r \in Requests /\ exchange[r].mode # "none" /\ exchange[r].sink = "connection"
        /\ exchange'[r].sink = "gone" /\ exchange'[r].mode = exchange[r].mode
        /\ exchange'[r].cancelled
    BY <1>1, Loses
  <2>2. exchange[r].mode \in {"Open", "Stream", "Complete"}
    BY <1>1, <2>1 DEF Exchange
  <2>3. LifeOf(r)' = IF exchange[r].mode = "Complete" THEN "answered" ELSE "cancelled"
    BY <2>1 DEF LifeOf
  <2>4. LifeOf(r) = IF exchange[r].mode = "Complete" THEN "answered"
                    ELSE IF exchange[r].mode = "Stream" THEN "streaming" ELSE "open"
    BY <1>1, <2>1 DEF LifeAs
  <2> QED BY <2>2, <2>3, <2>4
<1>4. ASSUME NEW r \in Requests \ registry
      PROVE  LifeOf(r)' = LifeOf(r) /\ LifeOf(r) \notin {"open", "streaming"}
  <2>1. exchange'[r] = exchange[r] /\ ~Live(r)
    BY Loses
  <2>2. LifeOf(r)' = LifeOf(r)
    BY <1>1, <2>1 DEF LifeOf
  <2>3. /\ exchange[r].mode \in {"none", "Open", "Stream", "Complete"}
        /\ exchange[r].sink \in {"connection", "kept", "gone"}
    BY <1>1 DEF Exchange
  <2>4. exchange[r].mode \in {"none", "Complete"} \/ exchange[r].sink \in {"kept", "gone"}
    BY <2>1, <2>3 DEF Live
  <2>5. LifeOf(r) \notin {"open", "streaming"}
    BY <1>1, <2>4 DEF LifeAs
  <2> QED BY <2>2, <2>5
<1>5. /\ Lives \in [Requests -> {Lives[r] : r \in Requests}]
      /\ \A r \in Requests : Lives[r] = LifeOf(r)
      /\ Lives' = [r \in Requests |-> LifeOf(r)']
  BY DEF Lives
<1>6. Survivors \in SUBSET {r \in Requests : Lives[r] = "streaming"}
  BY <1>2, <1>5
<1>7. \A r \in Requests : LifeOf(r)' = IF r \in Survivors THEN "kept"
                                        ELSE IF Lives[r] \in {"open", "streaming"} THEN "cancelled"
                                        ELSE Lives[r]
  <2> TAKE r \in Requests
  <2>1. CASE r \in Survivors
    BY <1>2, <2>1
  <2>2. CASE r \in registry \ Survivors
    BY <1>3, <1>5, <2>2
  <2>3. CASE r \in Requests \ registry
    <3>1. r \notin Survivors
      BY <2>3 DEF Survivors
    <3> QED BY <1>4, <1>5, <2>3, <3>1
  <2> QED BY <2>1, <2>2, <2>3
<1>8. Lives' = [r \in Requests |-> IF r \in Survivors THEN "kept"
                                   ELSE IF Lives[r] \in {"open", "streaming"} THEN "cancelled"
                                   ELSE Lives[r]]
  BY <1>5, <1>7
<1> QED BY <1>6, <1>8 DEF Lifetime!Lose

\* The store lets go of what it had finished and of nothing else.
LEMMA ReleaseLives ==
  ASSUME Sound, releaseExpired
  PROVE  Lives' = Lives \/ Lifetime!Release
<1> DEFINE expired == {r \in DOMAIN expiring : expiring[r] = 0}
<1>1. /\ exchange' = exchange /\ DOMAIN expiring' = DOMAIN expiring \ expired
      /\ expired \subseteq DOMAIN expiring
  BY DEF releaseExpired
<1>2. \A r \in DOMAIN expiring :
         /\ r \in Requests /\ exchange[r].sink = "kept" /\ exchange[r].mode = "Complete"
  BY DEF Sound, TypeOK, Owned, TimerMeetsDeadline
<1> HIDE DEF expired
<1>3. CASE expired = {}
  BY <1>1, <1>3, NoneMoves
<1>4. CASE expired # {}
  <2>1. \A r \in Requests : Lives[r] = LifeOf(r)
    BY DEF Lives
  <2>2. \A r \in expired : r \in Requests /\ Lives[r] = "finished" /\ LifeOf(r)' = "released"
    BY <1>1, <1>2, <2>1 DEF LifeOf
  <2>3. \A r \in Requests \ expired : LifeOf(r)' = Lives[r]
    BY <1>1, <2>1 DEF LifeOf
  <2>4. Lives' = [r \in Requests |-> IF r \in expired THEN "released" ELSE Lives[r]]
    BY <2>2, <2>3 DEF Lives
  <2>5. expired \in (SUBSET {r \in Requests : Lives[r] = "finished"}) \ {{}}
    BY <1>4, <2>2
  <2> QED BY <2>4, <2>5 DEF Lifetime!Release
<1> QED BY <1>3, <1>4

LEMMA StepLives ==
  ASSUME Sound, [Next]_vars
  PROVE  [Lifetime!Next]_Lives
<1>1. ASSUME NEW r \in Requests, Notify(r) PROVE [Lifetime!Next]_Lives
  <2>1. UNCHANGED store /\ Acted(r, Notified(r)) /\ exchange[r].mode \in {"Open", "Stream"}
        /\ (exchange[r].mode = "Stream" => Notified(r).mode = "Stream")
    BY <1>1, NotifyActs DEF Notify
  <2>2. exchange[r].sink = "kept" => Notified(r).mode = exchange[r].mode
    BY <2>1, LifeNow
  <2> QED BY <1>1, <2>1, <2>2, ActedLives DEF Lifetime!Next
<1>2. ASSUME NEW r \in Requests, RespondJson(r) PROVE [Lifetime!Next]_Lives
  <2>1. PICK e : Acted(r, e)
    BY <1>2, RespondActs
  <2>2. UNCHANGED store /\ exchange[r].mode = "Open" /\ exchange[r].sink # "kept"
    BY <1>2, LifeNow DEF RespondJson
  <2> QED BY <2>1, <2>2, ActedLives DEF Lifetime!Next
<1>3. ASSUME NEW r \in Requests, SendLast(r) PROVE [Lifetime!Next]_Lives
  <2>1. PICK e : Acted(r, e)
    BY <1>3, SendLastActs
  <2>2. UNCHANGED store /\ exchange[r].sink # "kept"
    BY <1>3 DEF SendLast
  <2> QED BY <2>1, <2>2, ActedLives DEF Lifetime!Next
<1>4. ASSUME NEW r \in Requests, OnCancelled(r) PROVE [Lifetime!Next]_Lives
  <2>1. PICK e : Acted(r, e) /\ e.mode = exchange[r].mode
    BY <1>4, CancelActs
  <2>2. UNCHANGED store
    BY <1>4 DEF OnCancelled
  <2> QED BY <2>1, <2>2, ActedLives DEF Lifetime!Next
<1>5. ASSUME NEW r \in Requests, CompleteAlone(r) PROVE [Lifetime!Next]_Lives
  BY <1>5, AloneLives DEF Lifetime!Next
<1>6. ASSUME WriteTail PROVE [Lifetime!Next]_Lives
  <2>0. PICK r \in Requests : \E e : Acted(r, e) /\ exchange[r].sink = "connection"
    BY <1>6, TailActs
  <2>1. PICK e : Acted(r, e) /\ exchange[r].sink = "connection"
    BY <2>0
  <2>2. UNCHANGED store
    BY <1>6 DEF WriteTail
  <2> QED BY <2>1, <2>2, ActedLives DEF Lifetime!Next
<1>7. ASSUME exchange' = exchange, DOMAIN expiring' = DOMAIN expiring
      PROVE  [Lifetime!Next]_Lives
  BY <1>7, NoneMoves
<1>8. ASSUME Receive \/ EndDispatch \/ Connect PROVE [Lifetime!Next]_Lives
  BY <1>7, <1>8 DEF Receive, EndDispatch, Connect, store
<1>9. ASSUME DeferredDelete \/ Tick PROVE [Lifetime!Next]_Lives
  BY <1>7, <1>9 DEF DeferredDelete, Tick
<1>10. ASSUME UNCHANGED vars PROVE [Lifetime!Next]_Lives
  BY <1>7, <1>10 DEF vars
<1>11. ASSUME Dispatch PROVE [Lifetime!Next]_Lives
  BY <1>11, DispatchLives DEF Lifetime!Next
<1>12. ASSUME Lose PROVE [Lifetime!Next]_Lives
  BY <1>12, LoseLives DEF Lifetime!Next
<1>13. ASSUME releaseExpired PROVE [Lifetime!Next]_Lives
  BY <1>13, ReleaseLives DEF Lifetime!Next
<1> QED BY <1>1, <1>2, <1>3, <1>4, <1>5, <1>6, <1>8, <1>9, <1>10, <1>11, <1>12, <1>13 DEF Next

\* Whatever connections, gates, handlers and timers do, a request comes to
\* what RequestLifetime lets it come to: one answer at most, no answer given
\* up unless its connection was lost and its producer told, and nothing let go
\* of by the store that was not finished (RequestExchange, RetainedExchangeStore).
THEOREM ImplementsSteps == Spec => Lifetime!Steps
<1>1. Init => Lifetime!Init
  <2> SUFFICES ASSUME Init PROVE Lifetime!Init
    OBVIOUS
  <2>1. \A r \in Requests : LifeOf(r) = "unasked"
    BY DEF Init, LifeOf, Unborn
  <2> QED BY <2>1 DEF Lifetime!Init, Lives
<1>2. Sound /\ [Next]_vars => [Lifetime!Next]_Lives
  BY StepLives
<1> QED BY <1>1, <1>2, InitSound, StepSound, PTL DEF Spec, Lifetime!Steps
================================================================================
