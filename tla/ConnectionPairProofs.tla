------------------------ MODULE ConnectionPairProofs -------------------------
(***************************************************************************)
(* What TLAPS proves about ConnectionPair, for every capacity of the       *)
(* kernel, every number of bytes, and every way the two ends may close.    *)
(***************************************************************************)
EXTENDS ConnectionPair, TLAPS

-----------------------------------------------------------------------------
(* What is so of one end, in every state and within every callback.        *)

Bits == {"Read", "Write"}
Causes == {"drained", "peer", "broken", "asked", "deadline", "idle", "refused"}

Fields == {"state", "connecting", "tcp", "connectTimer", "unreleased", "half", "delayed",
           "timer", "disabled", "queued", "enabled", "woken", "active", "fin", "writeReady",
           "written", "failed", "deferred", "posted", "events", "accepted", "got", "lost", "why"}

Posted == [type : CloseEvents, cause : Causes]

Typed(c) ==
    /\ DOMAIN c = Fields
    /\ c.state \in {"Unborn", "Open", "Closing", "Closed"}
    /\ c.tcp \in {"none", "pending", "ok", "failed"}
    /\ c.enabled \subseteq Bits /\ c.active \subseteq Bits
    /\ c.queued \in Nat /\ c.accepted \in 0..MaxBytes /\ c.got \in Nat /\ c.lost \in Nat
    /\ c.posted \in Seq(Posted)
    /\ c.events \in Seq(CloseEvents \cup {"Connected"})
    /\ c.why \in (Causes \ {"drained"}) \cup {"nothing"}

(* A close that was asked for takes no more output, so that once its flush *)
(* is over it stays over until the posted end of it.                       *)
Asked(c) ==
    /\ c.state = "Closing" => c.half
    /\ \A k \in 1..Len(c.posted) : c.posted[k].cause = "drained" => c.half /\ c.queued = 0

(* The callbacks hear of the end last.                                     *)
Told(c) ==
    \A i \in 1..Len(c.events) :
        c.events[i] \in CloseEvents => i = Len(c.events) /\ c.state = "Closed"

Over(c) ==
    /\ c.unreleased => c.state = "Closed" /\ ~c.connectTimer
    /\ Released(c) => c.queued = 0 /\ c.enabled = {} /\ ~c.timer

(* Before there is a socket, nothing is listened for and nothing queued.   *)
Early(c) ==
    /\ c.tcp = "none" =>
          /\ c.queued = 0 /\ c.enabled = {} /\ c.active = {} /\ ~c.woken /\ ~c.disabled
          /\ c.state \in {"Open", "Closed"}
    /\ c.tcp = "pending" => c.connecting
    /\ c.fin => c.tcp = "ok"

(* While it connects, an end listens for that, and for nothing else; or it *)
(* was asked to close meanwhile and had nothing to flush, and never will.  *)
Trying(c) ==
    c.connecting =>
        /\ ~c.disabled /\ ~c.writeReady /\ ~c.failed /\ "Write" \notin c.active
        /\ "Write" \in c.enabled => c.enabled = {"Write"} /\ c.active = {}
        /\ c.state = "Open" => "Read" \notin c.enabled /\ "Read" \notin c.active
        /\ c.queued > 0 /\ c.state # "Closed" => "Write" \in c.enabled

Sound(c) == Typed(c) /\ Asked(c) /\ Told(c) /\ Over(c) /\ Early(c) /\ Trying(c)

(* A view of an end, sound.                                                *)
Good(x) ==
    /\ x = [c |-> x.c, out |-> x.out, in |-> x.in, gone |-> x.gone, eof |-> x.eof]
    /\ Sound(x.c)
    /\ x.out \in 0..Room /\ x.in \in 0..Room

(* An end whose filters read what comes, now or once it is connected.      *)
Back(c) ==
    \/ c.state \in {"Unborn", "Open"}
    \/ c.state = "Closing" /\ c.connecting /\ "Write" \in c.enabled

(* What a callback makes of a view: it neither loses nor invents a byte,   *)
(* and an end that closes stays deaf.                                      *)
Same(x, z) ==
    /\ z.gone = x.gone /\ z.eof = x.eof
    /\ z.c.tcp = x.c.tcp
    /\ z.in \in {x.in, 0}
    /\ z.c.connecting => x.c.connecting
    /\ z.c.connectTimer => x.c.connectTimer
    /\ x.c.half => z.c.half
    /\ x.c.state = "Closed" => z.c.state = "Closed"
    /\ z.c.state = "Unborn" => x.c.state = "Unborn"

Balanced(x, z) ==
    /\ ~x.gone => z.out + z.c.queued + z.c.lost + x.c.accepted
                    = x.out + x.c.queued + x.c.lost + z.c.accepted
    /\ ~x.gone /\ x.c.tcp # "ok" => z.out = x.out
    /\ Back(z.c) => Back(x.c) /\ z.c.got + z.in = x.c.got + x.in

Deaf(x, z) ==
    /\ x.c.half \/ x.c.state = "Closed" => z.c.accepted = x.c.accepted
    /\ x.c.state \in {"Closing", "Closed"} /\ ~x.c.connecting =>
          z.c.got = x.c.got /\ z.c.state \in {"Closing", "Closed"}

Leads(x, z) == Good(z) /\ Same(x, z) /\ Balanced(x, z) /\ Deaf(x, z)

LEMMA ViewCounts ==
    ASSUME NEW x, Good(x)
    PROVE  /\ x.out \in Nat /\ x.in \in Nat /\ x.c.queued \in Nat /\ x.c.lost \in Nat
           /\ x.c.accepted \in Nat /\ x.c.got \in Nat
<1>1. Room \in Nat /\ MaxBytes \in Nat
  BY PairAssumption
<1>2. QED BY <1>1 DEF Good, Sound, Typed

LEMMA LeadsStays == ASSUME NEW x, Good(x) PROVE Leads(x, x)
<1>1. x.out \in Nat /\ x.c.queued \in Nat /\ x.c.lost \in Nat /\ x.c.accepted \in Nat
      /\ x.c.got \in Nat /\ x.in \in Nat
  BY PairAssumption DEF Good, Sound, Typed
<1>2. QED BY <1>1 DEF Leads, Same, Balanced, Deaf

LEMMA LeadsOn ==
    ASSUME NEW x, Good(x), NEW y, Leads(x, y), NEW z, Leads(y, z)
    PROVE  Leads(x, z)
<1>1. /\ x.out \in Nat /\ x.c.queued \in Nat /\ x.c.lost \in Nat /\ x.c.accepted \in Nat
      /\ y.out \in Nat /\ y.c.queued \in Nat /\ y.c.lost \in Nat /\ y.c.accepted \in Nat
      /\ z.out \in Nat /\ z.c.queued \in Nat /\ z.c.lost \in Nat /\ z.c.accepted \in Nat
      /\ x.c.got \in Nat /\ y.c.got \in Nat /\ z.c.got \in Nat
      /\ x.in \in Nat /\ y.in \in Nat /\ z.in \in Nat
  <2>1. Good(x) /\ Good(y) /\ Good(z)
    BY DEF Leads
  <2>2. QED BY ONLY <2>1, ViewCounts
<1>2. Same(x, z)
  BY DEF Leads, Same
<1>3. Balanced(x, z)
  BY <1>1 DEF Leads, Same, Balanced
<1>4. Deaf(x, z)
  BY <1>1 DEF Leads, Same, Deaf
<1>5. QED BY <1>2, <1>3, <1>4 DEF Leads

-----------------------------------------------------------------------------
(* What an end that may read or write is owed: to listen for it, and to be *)
(* woken when it is there, unless the callback now running was called for  *)
(* reading (R) or for writing (W).                                         *)

InCond(c) ==
    /\ c.state = "Open" /\ c.tcp = "ok" /\ ~c.connecting
    /\ ~c.disabled /\ ~c.deferred /\ ~c.failed /\ c.queued = 0

OutCond(c) ==
    /\ c.state \in {"Open", "Closing"} /\ c.tcp # "failed"
    /\ ~c.deferred /\ ~c.failed /\ c.queued > 0

ListensBut(x, R, W) ==
    /\ InCond(x.c) =>
          /\ "Read" \in x.c.enabled
          /\ "Read" \in Ready(x) => R \/ "Read" \in x.c.active \/ x.c.woken
    /\ OutCond(x.c) =>
          /\ "Write" \in x.c.enabled
          /\ "Write" \in Ready(x) => W \/ x.c.woken

Listens(x) == ListensBut(x, FALSE, FALSE)

(* What an end may set itself to listen for.                               *)
May(c, mask) ==
    /\ mask \subseteq Bits
    /\ c.tcp # "none" /\ c.state # "Closed"
    /\ c.connecting =>
          \/ /\ mask = {"Write"} /\ c.active = {}
             /\ c.state = "Open" \/ "Write" \in c.enabled
          \/ "Write" \notin mask /\ c.state = "Closing" /\ c.queued = 0

LEMMA EnableFields ==
    ASSUME NEW x, Good(x), NEW mask, NEW z, z = enableFileEvents(x, mask)
    PROVE  /\ z = [c |-> z.c, out |-> x.out, in |-> x.in, gone |-> x.gone, eof |-> x.eof]
           /\ DOMAIN z.c = Fields
           /\ \A f \in Fields \ {"enabled", "woken"} : z.c[f] = x.c[f]
           /\ z.c.enabled = mask
           /\ z.c.woken = (Ready(z) \cap mask # {})
<1>0. DOMAIN x.c = Fields
  BY DEF Good, Sound, Typed
<1> DEFINE w == Ready(x) \cap mask # {}
<1>1. z = [x EXCEPT !.c.enabled = mask, !.c.woken = w]
  BY DEF enableFileEvents
<1>2. z.c = [x.c EXCEPT !.enabled = mask, !.woken = w]
      /\ z.out = x.out /\ z.in = x.in /\ z.gone = x.gone /\ z.eof = x.eof
      /\ z = [c |-> z.c, out |-> x.out, in |-> x.in, gone |-> x.gone, eof |-> x.eof]
  <2>1. x = [c |-> x.c, out |-> x.out, in |-> x.in, gone |-> x.gone, eof |-> x.eof]
    BY DEF Good
  <2> HIDE DEF w
  <2>2. QED BY ONLY <1>1, <2>1
<1> HIDE DEF w
<1>3. /\ DOMAIN z.c = Fields
      /\ \A f \in Fields \ {"enabled", "woken"} : z.c[f] = x.c[f]
      /\ z.c.enabled = mask /\ z.c.woken = w
  <2>1. "enabled" \in Fields /\ "woken" \in Fields
    BY DEF Fields
  <2>2. z.c = [x.c EXCEPT !.enabled = mask, !.woken = w]
    BY ONLY <1>2
  <2>3. QED BY ONLY <1>0, <2>1, <2>2
<1>4. "tcp" \in Fields \ {"enabled", "woken"}
  BY DEF Fields
<1>5. z.c.tcp = x.c.tcp
  BY ONLY <1>3, <1>4
<1>6. Ready(z) = Ready(x)
  BY ONLY <1>2, <1>5 DEF Ready
<1>7. QED BY ONLY <1>2, <1>3, <1>6 DEF w

LEMMA EnableLeads ==
    ASSUME NEW x, Good(x), NEW mask, May(x.c, mask), NEW z, z = enableFileEvents(x, mask)
    PROVE  Leads(x, z)
<1>1. /\ z = [c |-> z.c, out |-> x.out, in |-> x.in, gone |-> x.gone, eof |-> x.eof]
      /\ DOMAIN z.c = Fields
      /\ \A f \in Fields \ {"enabled", "woken"} : z.c[f] = x.c[f]
      /\ z.c.enabled = mask
  BY EnableFields
<1>2. /\ z.c.state = x.c.state /\ z.c.tcp = x.c.tcp /\ z.c.connecting = x.c.connecting
      /\ z.c.half = x.c.half /\ z.c.posted = x.c.posted /\ z.c.events = x.c.events
      /\ z.c.queued = x.c.queued /\ z.c.accepted = x.c.accepted /\ z.c.got = x.c.got
      /\ z.c.lost = x.c.lost /\ z.c.why = x.c.why /\ z.c.active = x.c.active
      /\ z.c.disabled = x.c.disabled /\ z.c.unreleased = x.c.unreleased
      /\ z.c.connectTimer = x.c.connectTimer /\ z.c.timer = x.c.timer /\ z.c.fin = x.c.fin
      /\ z.c.writeReady = x.c.writeReady /\ z.c.failed = x.c.failed
  BY ONLY <1>1 DEF Fields
<1>3. z.out = x.out /\ z.in = x.in /\ z.gone = x.gone /\ z.eof = x.eof
  BY ONLY <1>1
<1>4. Typed(z.c)
  BY <1>1, <1>2 DEF Good, Sound, Typed, May
<1>5. Asked(z.c) /\ Told(z.c)
  BY <1>2 DEF Good, Sound, Asked, Told
<1>6. Over(z.c) /\ Early(z.c)
  BY <1>1, <1>2 DEF Good, Sound, Over, Early, Released, May
<1>7. Trying(z.c)
  BY <1>1, <1>2 DEF Good, Sound, Trying, May, Bits
<1>8. Good(z)
  BY <1>1, <1>3, <1>4, <1>5, <1>6, <1>7 DEF Good, Sound
<1>9. Same(x, z)
  BY <1>2, <1>3 DEF Same
<1>10. Balanced(x, z)
  <2>1. x.out \in Nat /\ x.c.queued \in Nat /\ x.c.lost \in Nat /\ x.c.accepted \in Nat
    BY PairAssumption DEF Good, Sound, Typed
  <2>2. Back(z.c) => Back(x.c)
    BY <1>1, <1>2 DEF Back, May
  <2>3. QED BY <2>1, <2>2, <1>2, <1>3 DEF Balanced
<1>11. Deaf(x, z)
  BY <1>2 DEF Deaf
<1>12. QED BY <1>8, <1>9, <1>10, <1>11 DEF Leads

LEMMA EnableListens ==
    ASSUME NEW x, Good(x), NEW mask, NEW z, z = enableFileEvents(x, mask),
           InCond(x.c) => "Read" \in mask, OutCond(x.c) => "Write" \in mask
    PROVE  Listens(z)
<1>1. /\ \A f \in Fields \ {"enabled", "woken"} : z.c[f] = x.c[f]
      /\ z.c.enabled = mask
      /\ z.c.woken = (Ready(z) \cap mask # {})
  BY EnableFields
<1>2. /\ z.c.state = x.c.state /\ z.c.tcp = x.c.tcp /\ z.c.connecting = x.c.connecting
      /\ z.c.disabled = x.c.disabled /\ z.c.deferred = x.c.deferred
      /\ z.c.failed = x.c.failed /\ z.c.queued = x.c.queued
  BY ONLY <1>1 DEF Fields
<1>3. InCond(z.c) => InCond(x.c)
  BY ONLY <1>2 DEF InCond
<1>4. OutCond(z.c) => OutCond(x.c)
  BY ONLY <1>2 DEF OutCond
<1>5. QED BY <1>1, <1>3, <1>4 DEF Listens, ListensBut

(* An end that is closed, or whose close is posted, is owed nothing.       *)
LEMMA OwedNothing ==
    ASSUME NEW x, x.c.state = "Closed" \/ x.c.deferred, NEW R, NEW W
    PROVE  ListensBut(x, R, W)
BY DEF ListensBut, InCond, OutCond

-----------------------------------------------------------------------------
(* Closing.                                                                *)

LEMMA TornDownLeads ==
    ASSUME NEW x, Good(x), x.c.state # "Closed", NEW type \in CloseEvents,
           NEW cause \in Causes, cause = "drained" => x.c.queued = 0,
           NEW z, z = TornDown(x, type, cause)
    PROVE  Leads(x, z) /\ z.c.state = "Closed" /\ z.c.accepted = x.c.accepted
<1>0. DOMAIN x.c = Fields /\ x.c.queued \in Nat /\ x.c.lost \in Nat
  BY DEF Good, Sound, Typed
<1>1. x = [c |-> x.c, out |-> x.out, in |-> x.in, gone |-> x.gone, eof |-> x.eof]
  BY DEF Good
<1> DEFINE c == [x.c EXCEPT
                    !.state = "Closed", !.enabled = {}, !.woken = FALSE, !.active = {},
                    !.delayed = "None", !.timer = FALSE, !.connectTimer = FALSE,
                    !.queued = 0, !.lost = @ + x.c.queued,
                    !.why = IF x.c.queued > 0 THEN cause ELSE @, !.events = Append(@, type)]
<1>z. z = [x EXCEPT !.c = c]
  BY DEF TornDown
<1>c. c = [x.c EXCEPT
              !.state = "Closed", !.enabled = {}, !.woken = FALSE, !.active = {},
              !.delayed = "None", !.timer = FALSE, !.connectTimer = FALSE,
              !.queued = 0, !.lost = @ + x.c.queued,
              !.why = IF x.c.queued > 0 THEN cause ELSE @, !.events = Append(@, type)]
  OBVIOUS
<1> HIDE DEF c
<1>3. /\ z = [c |-> z.c, out |-> x.out, in |-> x.in, gone |-> x.gone, eof |-> x.eof]
      /\ z.out = x.out /\ z.in = x.in /\ z.gone = x.gone /\ z.eof = x.eof /\ z.c = c
  BY ONLY <1>1, <1>z
<1>2. z.c = [x.c EXCEPT
              !.state = "Closed", !.enabled = {}, !.woken = FALSE, !.active = {},
              !.delayed = "None", !.timer = FALSE, !.connectTimer = FALSE,
              !.queued = 0, !.lost = @ + x.c.queued,
              !.why = IF x.c.queued > 0 THEN cause ELSE @, !.events = Append(@, type)]
  BY ONLY <1>3, <1>c
<1>4. /\ DOMAIN z.c = Fields
      /\ z.c.state = "Closed" /\ z.c.enabled = {} /\ z.c.active = {} /\ z.c.woken = FALSE
      /\ z.c.timer = FALSE /\ z.c.connectTimer = FALSE /\ z.c.queued = 0
      /\ z.c.lost = x.c.lost + x.c.queued
      /\ z.c.why = (IF x.c.queued > 0 THEN cause ELSE x.c.why)
      /\ z.c.events = Append(x.c.events, type)
      /\ z.c.tcp = x.c.tcp /\ z.c.connecting = x.c.connecting
      /\ z.c.half = x.c.half /\ z.c.posted = x.c.posted
      /\ z.c.accepted = x.c.accepted /\ z.c.got = x.c.got
      /\ z.c.disabled = x.c.disabled /\ z.c.unreleased = x.c.unreleased
      /\ z.c.fin = x.c.fin /\ z.c.writeReady = x.c.writeReady /\ z.c.failed = x.c.failed
  <2>1. DOMAIN x.c = Fields
    BY ONLY <1>0
  <2>2. DOMAIN z.c = Fields
    BY ONLY <1>2, <2>1
  <2>3. /\ z.c.state = "Closed" /\ z.c.enabled = {} /\ z.c.active = {} /\ z.c.woken = FALSE
        /\ z.c.timer = FALSE /\ z.c.connectTimer = FALSE /\ z.c.queued = 0
        /\ z.c.lost = x.c.lost + x.c.queued
        /\ z.c.why = (IF x.c.queued > 0 THEN cause ELSE x.c.why)
        /\ z.c.events = Append(x.c.events, type)
    BY ONLY <2>1, <1>2 DEF Fields
  <2>4. /\ z.c.tcp = x.c.tcp /\ z.c.connecting = x.c.connecting
        /\ z.c.half = x.c.half /\ z.c.posted = x.c.posted
        /\ z.c.accepted = x.c.accepted /\ z.c.got = x.c.got
        /\ z.c.disabled = x.c.disabled /\ z.c.unreleased = x.c.unreleased
        /\ z.c.fin = x.c.fin /\ z.c.writeReady = x.c.writeReady /\ z.c.failed = x.c.failed
    BY ONLY <2>1, <1>2 DEF Fields
  <2>5. QED BY ONLY <2>2, <2>3, <2>4
<1>5. Typed(z.c)
  <2>1. z.c.events \in Seq(CloseEvents \cup {"Connected"})
    <3>1. x.c.events \in Seq(CloseEvents \cup {"Connected"})
      BY DEF Good, Sound, Typed
    <3>2. type \in CloseEvents \cup {"Connected"}
      OBVIOUS
    <3>3. z.c.events = Append(x.c.events, type)
      BY ONLY <1>4
    <3>4. QED BY ONLY <3>1, <3>2, <3>3
  <2>2. z.c.lost \in Nat /\ z.c.queued \in Nat
    BY <1>0, <1>4
  <2>3. z.c.why \in (Causes \ {"drained"}) \cup {"nothing"}
    BY <1>0, <1>4 DEF Good, Sound, Typed
  <2>4. QED BY <1>4, <2>1, <2>2, <2>3 DEF Good, Sound, Typed
<1>6. Asked(z.c)
  BY <1>4 DEF Good, Sound, Asked
<1>7. Told(z.c)
  <2>1. x.c.events \in Seq(CloseEvents \cup {"Connected"})
    BY DEF Good, Sound, Typed
  <2>2. \A i \in 1..Len(x.c.events) : x.c.events[i] \notin CloseEvents
    BY DEF Good, Sound, Told
  <2>3. \A i \in 1..Len(z.c.events) :
           \/ i = Len(z.c.events)
           \/ i \in 1..Len(x.c.events) /\ z.c.events[i] = x.c.events[i]
    <3>1. z.c.events = Append(x.c.events, type)
      BY ONLY <1>4
    <3>2. type \in CloseEvents \cup {"Connected"}
      OBVIOUS
    <3>3. Len(z.c.events) = Len(x.c.events) + 1
          /\ \A i \in 1..Len(x.c.events) : z.c.events[i] = x.c.events[i]
      BY ONLY <2>1, <3>1, <3>2
    <3>4. Len(x.c.events) \in Nat
      BY ONLY <2>1
    <3> TAKE i \in 1..Len(z.c.events)
    <3>5. i \in 1..(Len(x.c.events) + 1)
      BY <3>3
    <3>6. i = Len(x.c.events) + 1 \/ i \in 1..Len(x.c.events)
      BY ONLY <3>4, <3>5
    <3>7. QED BY ONLY <3>3, <3>6
  <2>4. QED BY <1>4, <2>2, <2>3 DEF Told
<1>8. Over(z.c) /\ Early(z.c)
  BY <1>4 DEF Good, Sound, Over, Early, Released
<1>9. Trying(z.c)
  BY <1>4 DEF Good, Sound, Trying
<1>10. Good(z)
  BY <1>3, <1>5, <1>6, <1>7, <1>8, <1>9 DEF Good, Sound
<1>11. Same(x, z) /\ Deaf(x, z)
  BY <1>3, <1>4 DEF Same, Deaf
<1>12. Balanced(x, z)
  <2>1. x.out \in Nat /\ x.c.accepted \in Nat
    BY PairAssumption DEF Good, Sound, Typed
  <2>2. ~Back(z.c)
    BY <1>4 DEF Back
  <2>3. QED BY <2>1, <2>2, <1>0, <1>3, <1>4 DEF Balanced
<1>13. QED BY <1>4, <1>10, <1>11, <1>12 DEF Leads

LEMMA closeSocketLeads ==
    ASSUME NEW x, Good(x), NEW type \in CloseEvents,
           NEW cause \in Causes, cause = "drained" => x.c.queued = 0,
           NEW z, z = closeSocket(x, type, cause)
    PROVE  Leads(x, z) /\ z.c.state = "Closed" /\ z.c.accepted = x.c.accepted
<1>1. CASE x.c.state = "Closed"
  BY <1>1, LeadsStays DEF closeSocket
<1>2. CASE x.c.state # "Closed"
  BY <1>2, TornDownLeads DEF closeSocket
<1>3. QED BY <1>1, <1>2

(* The close that is posted from inside the reading or the writing.        *)
Ending(x, type, cause) ==
    [x EXCEPT !.c.deferred = TRUE,
              !.c.posted = Append(@, [type |-> type, cause |-> cause])]

LEMMA PostsLeads ==
    ASSUME NEW x, Good(x), NEW type \in CloseEvents, NEW cause \in Causes,
           cause = "drained" => x.c.half /\ x.c.queued = 0,
           NEW z, z = Ending(x, type, cause)
    PROVE  /\ Leads(x, z)
           /\ z.c.deferred /\ z.c.accepted = x.c.accepted /\ z.c.state = x.c.state
           /\ z.c.queued = x.c.queued
<1> DEFINE t == [type |-> type, cause |-> cause]
<1>0. DOMAIN x.c = Fields /\ x.c.posted \in Seq(Posted) /\ t \in Posted
  BY DEF Good, Sound, Typed, Posted
<1>1. x = [c |-> x.c, out |-> x.out, in |-> x.in, gone |-> x.gone, eof |-> x.eof]
  BY DEF Good
<1>2. z = [x EXCEPT !.c.deferred = TRUE, !.c.posted = Append(@, t)]
  BY DEF Ending
<1>t. t.cause = cause
  OBVIOUS
<1> HIDE DEF t
<1>3. /\ z.c = [x.c EXCEPT !.deferred = TRUE, !.posted = Append(@, t)]
      /\ z = [c |-> z.c, out |-> x.out, in |-> x.in, gone |-> x.gone, eof |-> x.eof]
      /\ z.out = x.out /\ z.in = x.in /\ z.gone = x.gone /\ z.eof = x.eof
  BY ONLY <1>1, <1>2
<1>4. /\ DOMAIN z.c = Fields
      /\ z.c.deferred = TRUE /\ z.c.posted = Append(x.c.posted, t)
      /\ z.c.state = x.c.state /\ z.c.tcp = x.c.tcp /\ z.c.connecting = x.c.connecting
      /\ z.c.half = x.c.half /\ z.c.events = x.c.events /\ z.c.queued = x.c.queued
      /\ z.c.accepted = x.c.accepted /\ z.c.got = x.c.got /\ z.c.lost = x.c.lost
      /\ z.c.why = x.c.why /\ z.c.active = x.c.active /\ z.c.enabled = x.c.enabled
      /\ z.c.woken = x.c.woken /\ z.c.disabled = x.c.disabled
      /\ z.c.unreleased = x.c.unreleased /\ z.c.connectTimer = x.c.connectTimer
      /\ z.c.timer = x.c.timer /\ z.c.fin = x.c.fin
      /\ z.c.writeReady = x.c.writeReady /\ z.c.failed = x.c.failed
  <2>1. DOMAIN x.c = Fields
    BY ONLY <1>0
  <2>2. z.c = [x.c EXCEPT !.deferred = TRUE, !.posted = Append(@, t)]
    BY ONLY <1>3
  <2>3. QED BY ONLY <2>1, <2>2 DEF Fields
<1>5. Typed(z.c)
  <2>1. z.c.posted \in Seq(Posted)
    BY ONLY <1>0, <1>4
  <2>2. QED BY <1>4, <2>1 DEF Good, Sound, Typed
<1>6. Asked(z.c)
  <2>1. /\ Len(z.c.posted) = Len(x.c.posted) + 1 /\ Len(x.c.posted) \in Nat
        /\ \A k \in 1..Len(x.c.posted) : z.c.posted[k] = x.c.posted[k]
        /\ z.c.posted[Len(x.c.posted) + 1] = t
    BY ONLY <1>0, <1>4
  <2>2. ASSUME NEW k \in 1..Len(z.c.posted), z.c.posted[k].cause = "drained"
        PROVE  z.c.half /\ z.c.queued = 0
    <3>1. k \in 1..Len(x.c.posted) \/ k = Len(x.c.posted) + 1
      BY ONLY <2>1, k \in 1..Len(z.c.posted)
    <3>2. CASE k \in 1..Len(x.c.posted)
      BY <1>4, <2>1, <2>2, <3>2 DEF Good, Sound, Asked
    <3>3. CASE k = Len(x.c.posted) + 1
      BY <1>4, <1>t, <2>1, <2>2, <3>3
    <3>4. QED BY <3>1, <3>2, <3>3
  <2>3. QED BY <1>4, <2>2 DEF Good, Sound, Asked
<1>7. Told(z.c)
  BY <1>4 DEF Good, Sound, Told
<1>8. Over(z.c) /\ Early(z.c)
  BY <1>4 DEF Good, Sound, Over, Early, Released
<1>9. Trying(z.c)
  BY <1>4 DEF Good, Sound, Trying
<1>10. Good(z)
  BY <1>3, <1>5, <1>6, <1>7, <1>8, <1>9 DEF Good, Sound
<1>11. Same(x, z) /\ Deaf(x, z)
  BY <1>3, <1>4 DEF Same, Deaf
<1>12. Balanced(x, z)
  <2>1. x.out \in Nat /\ x.c.queued \in Nat /\ x.c.lost \in Nat /\ x.c.accepted \in Nat
    BY PairAssumption DEF Good, Sound, Typed
  <2>2. QED BY <2>1, <1>3, <1>4 DEF Balanced, Back
<1>13. QED BY <1>4, <1>10, <1>11, <1>12 DEF Leads

LEMMA closeThroughLeads ==
    ASSUME NEW x, Good(x), NEW type \in CloseEvents, NEW cause \in Causes,
           x.c.tcp # "none",
           x.c.connecting => x.c.state \in {"Closing", "Closed"} /\ x.c.queued = 0,
           cause = "drained" => x.c.half /\ x.c.queued = 0,
           NEW z, z = closeThroughFilterManager(x, type, cause)
    PROVE  /\ Leads(x, z)
           /\ z.c.state = "Closed" \/ z.c.deferred
           /\ z.c.accepted = x.c.accepted
<1>1. CASE x.c.state = "Closed" \/ x.c.deferred
  BY <1>1, LeadsStays DEF closeThroughFilterManager
<1>2. CASE x.c.state # "Closed" /\ ~x.c.deferred
  <2> DEFINE y == enableFileEvents(x, {})
  <2>1. May(x.c, {})
    BY <1>2 DEF May
  <2>2. Leads(x, y)
    BY <2>1, EnableLeads
  <2>3. y.c.half = x.c.half /\ y.c.queued = x.c.queued /\ y.c.accepted = x.c.accepted
    <3>1. \A f \in Fields \ {"enabled", "woken"} : y.c[f] = x.c[f]
      BY EnableFields
    <3>2. QED BY ONLY <3>1 DEF Fields
  <2>4. z = Ending(y, type, cause)
    BY <1>2 DEF closeThroughFilterManager, Ending
  <2> HIDE DEF y
  <2>5. Good(y)
    BY ONLY <2>2 DEF Leads
  <2>6. Leads(y, z) /\ z.c.deferred /\ z.c.accepted = y.c.accepted
    <3>1. type \in CloseEvents /\ cause \in Causes
      OBVIOUS
    <3>2. cause = "drained" => y.c.half /\ y.c.queued = 0
      BY <2>3
    <3>3. QED BY ONLY <3>1, <3>2, <2>4, <2>5, PostsLeads
  <2>7. QED BY <2>2, <2>3, <2>6, LeadsOn
<1>3. QED BY <1>1, <1>2

-----------------------------------------------------------------------------
(* Writing to the socket.                                                  *)

Sent(x) == [x EXCEPT !.c.queued = @ - Taken(x),
                     !.out = IF x.gone THEN @ ELSE @ + Taken(x)]

LEMMA TakenLeads ==
    ASSUME NEW x, Good(x), NEW y, y = Sent(x)
    PROVE  /\ Leads(x, y)
           /\ y.c.state = x.c.state /\ y.c.delayed = x.c.delayed
           /\ y.c.accepted = x.c.accepted /\ y.c.tcp = x.c.tcp
           /\ y.c.connecting = x.c.connecting /\ y.c.enabled = x.c.enabled
           /\ y.c.active = x.c.active
           /\ y.c.queued \in 0..x.c.queued
<1> DEFINE n == Taken(x)
<1>0. /\ DOMAIN x.c = Fields /\ x.c.queued \in Nat /\ x.out \in 0..Room /\ Room \in Nat
      /\ x.c.lost \in Nat /\ x.c.accepted \in Nat
  BY PairAssumption DEF Good, Sound, Typed
<1>n. /\ n \in 0..x.c.queued
      /\ ~x.gone => x.out + n \in 0..Room /\ (x.c.tcp # "ok" => n = 0)
  BY <1>0 DEF Taken
<1>1. x = [c |-> x.c, out |-> x.out, in |-> x.in, gone |-> x.gone, eof |-> x.eof]
  BY DEF Good
<1>2. y = [x EXCEPT !.c.queued = @ - n, !.out = IF x.gone THEN @ ELSE @ + n]
  BY DEF Sent
<1> HIDE DEF n
<1>3. /\ y.c = [x.c EXCEPT !.queued = @ - n]
      /\ y = [c |-> y.c, out |-> y.out, in |-> x.in, gone |-> x.gone, eof |-> x.eof]
      /\ y.out = (IF x.gone THEN x.out ELSE x.out + n)
      /\ y.in = x.in /\ y.gone = x.gone /\ y.eof = x.eof
  BY ONLY <1>1, <1>2
<1>4. /\ DOMAIN y.c = Fields
      /\ y.c.queued = x.c.queued - n /\ y.c.posted = x.c.posted
      /\ y.c.state = x.c.state /\ y.c.tcp = x.c.tcp /\ y.c.connecting = x.c.connecting
      /\ y.c.half = x.c.half /\ y.c.events = x.c.events /\ y.c.delayed = x.c.delayed
      /\ y.c.accepted = x.c.accepted /\ y.c.got = x.c.got /\ y.c.lost = x.c.lost
      /\ y.c.why = x.c.why /\ y.c.active = x.c.active /\ y.c.enabled = x.c.enabled
      /\ y.c.woken = x.c.woken /\ y.c.disabled = x.c.disabled
      /\ y.c.unreleased = x.c.unreleased /\ y.c.connectTimer = x.c.connectTimer
      /\ y.c.timer = x.c.timer /\ y.c.fin = x.c.fin
      /\ y.c.writeReady = x.c.writeReady /\ y.c.failed = x.c.failed
  <2>1. DOMAIN x.c = Fields
    BY ONLY <1>0
  <2>2. y.c = [x.c EXCEPT !.queued = @ - n]
    BY ONLY <1>3
  <2>3. QED BY ONLY <2>1, <2>2 DEF Fields
<1>q. y.c.queued \in 0..x.c.queued /\ y.c.queued + n = x.c.queued
      /\ (x.c.queued = 0 => y.c.queued = 0) /\ (y.c.queued > 0 => x.c.queued > 0)
  BY ONLY <1>0, <1>n, <1>4
<1>5. Typed(y.c)
  BY <1>4, <1>q DEF Good, Sound, Typed
<1>6. Asked(y.c) /\ Told(y.c)
  BY <1>4, <1>q DEF Good, Sound, Asked, Told
<1>7. Over(y.c) /\ Early(y.c)
  BY <1>4, <1>q DEF Good, Sound, Over, Early, Released
<1>8. Trying(y.c)
  BY <1>4, <1>q DEF Good, Sound, Trying
<1>9. Good(y)
  <2>1. y.out \in 0..Room
    BY ONLY <1>0, <1>n, <1>3
  <2>2. QED BY <1>3, <1>5, <1>6, <1>7, <1>8, <2>1 DEF Good, Sound
<1>10. Same(x, y) /\ Deaf(x, y)
  BY <1>3, <1>4 DEF Same, Deaf
<1>11. Balanced(x, y)
  <2>0. /\ y.c.lost = x.c.lost /\ y.c.accepted = x.c.accepted
        /\ x.c.lost \in Nat /\ x.c.accepted \in Nat /\ x.c.queued \in Nat
        /\ x.out \in Nat /\ n \in Nat /\ y.c.queued \in Nat
        /\ y.c.queued + n = x.c.queued
    <3>1. y.c.lost = x.c.lost /\ y.c.accepted = x.c.accepted
      BY ONLY <1>4
    <3>2. /\ x.c.lost \in Nat /\ x.c.accepted \in Nat /\ x.c.queued \in Nat
          /\ x.out \in Nat
      BY ONLY <1>0
    <3>3. n \in Nat
      BY ONLY <3>2, <1>n
    <3>4. y.c.queued \in Nat /\ y.c.queued + n = x.c.queued
      BY ONLY <3>2, <1>q
    <3>5. QED BY ONLY <3>1, <3>2, <3>3, <3>4
  <2>1. ASSUME ~x.gone
        PROVE  /\ y.out = x.out + n
               /\ y.out + y.c.queued + y.c.lost + x.c.accepted
                    = x.out + x.c.queued + x.c.lost + y.c.accepted
    <3>1. y.out = x.out + n
      BY ONLY <1>3, <2>1
    <3>2. QED BY ONLY <2>0, <3>1
  <2>2. ~x.gone /\ x.c.tcp # "ok" => y.out = x.out
    BY ONLY <1>0, <1>n, <2>1
  <2>3. (Back(y.c) => Back(x.c)) /\ y.c.got + y.in = x.c.got + x.in
    BY ONLY <1>3, <1>4 DEF Back
  <2>4. QED BY ONLY <2>1, <2>2, <2>3 DEF Balanced
<1>12. QED BY <1>4, <1>q, <1>9, <1>10, <1>11 DEF Leads

(* It leaves the end listening for what it now waits for.                  *)
LEMMA doWriteLeads ==
    ASSUME NEW x, Good(x), x.c.tcp # "none", NEW broken,
           x.c.connecting => x.c.state \in {"Closing", "Closed"},
           NEW z, z = doWrite(x, broken)
    PROVE  Leads(x, z) /\ Listens(z) /\ z.c.accepted = x.c.accepted
<1> DEFINE y == Sent(x)
<1>1. /\ Leads(x, y)
      /\ y.c.state = x.c.state /\ y.c.delayed = x.c.delayed
      /\ y.c.accepted = x.c.accepted /\ y.c.tcp = x.c.tcp
      /\ y.c.connecting = x.c.connecting /\ y.c.enabled = x.c.enabled
      /\ y.c.active = x.c.active
      /\ y.c.queued \in 0..x.c.queued
  BY TakenLeads
<1>2. Good(y) /\ y.c.queued \in Nat /\ x.c.queued \in Nat
  BY <1>1 DEF Leads, Good, Sound, Typed
<1>3. z = IF x.c.state = "Closed" THEN x
          ELSE IF x.c.queued > 0 /\ (x.c.tcp = "failed" \/ (x.gone /\ broken))
               THEN closeSocket(x, "LocalClose", "broken")
          ELSE IF y.c.queued > 0 THEN enableFileEvents(y, {"Write"})
          ELSE Drained(y)
  <2>1. z = doWrite(x, broken)
    OBVIOUS
  <2>2. QED BY ONLY <2>1 DEF doWrite, Sent
<1> HIDE DEF y
<1>4. CASE x.c.state = "Closed"
  BY <1>3, <1>4, LeadsStays, OwedNothing DEF Listens
<1>5. CASE x.c.state # "Closed" /\ z = closeSocket(x, "LocalClose", "broken")
  <2>1. "LocalClose" \in CloseEvents /\ "broken" \in Causes /\ "broken" # "drained"
    BY DEF CloseEvents, Causes
  <2>2. Leads(x, z) /\ z.c.state = "Closed" /\ z.c.accepted = x.c.accepted
    BY <1>5, <2>1, closeSocketLeads
  <2>3. QED BY <2>2, OwedNothing DEF Listens
<1>6. CASE x.c.state # "Closed" /\ y.c.queued > 0 /\ z = enableFileEvents(y, {"Write"})
  <2>1. y.c.connecting => y.c.active = {} /\ "Write" \in y.c.enabled
    BY <1>1, <1>2, <1>6 DEF Good, Sound, Trying
  <2>2. May(y.c, {"Write"})
    BY <1>1, <1>6, <2>1 DEF May, Bits
  <2>3. Leads(y, z)
    BY <1>2, <1>6, <2>2, EnableLeads
  <2>4. z.c.accepted = y.c.accepted
    <3>1. \A f \in Fields \ {"enabled", "woken"} : z.c[f] = y.c[f]
      BY <1>2, <1>6, EnableFields
    <3>2. QED BY ONLY <3>1 DEF Fields
  <2>5. ~InCond(y.c) /\ "Write" \in {"Write"}
    BY <1>6 DEF InCond
  <2>6. Listens(z)
    BY <1>2, <1>6, <2>5, EnableListens
  <2>7. QED BY <1>1, <2>3, <2>4, <2>6, LeadsOn
<1>7. CASE x.c.state # "Closed" /\ y.c.queued = 0 /\ z = Drained(y)
  <2>0. y.c.connecting => y.c.state = "Closing"
    BY <1>1, <1>7
  <2>o. ~OutCond(y.c)
    BY <1>7 DEF OutCond
  <2>1. CASE z = enableFileEvents(y, {"Read"})
    <3>1. May(y.c, {"Read"})
      BY <1>1, <1>7, <2>0 DEF May, Bits
    <3>2. Leads(y, z)
      BY <1>2, <2>1, <3>1, EnableLeads
    <3>3. z.c.accepted = y.c.accepted
      <4>1. \A f \in Fields \ {"enabled", "woken"} : z.c[f] = y.c[f]
        BY <1>2, <2>1, EnableFields
      <4>2. QED BY ONLY <4>1 DEF Fields
    <3>4. Listens(z)
      BY <1>2, <2>1, <2>o, EnableListens
    <3>5. QED BY <1>1, <3>2, <3>3, <3>4, LeadsOn
  <2>2. CASE y.c.state = "Closing" /\ z = closeThroughFilterManager(y, "LocalClose", "drained")
    <3>1. "LocalClose" \in CloseEvents /\ "drained" \in Causes
      BY DEF CloseEvents, Causes
    <3>2. y.c.half
      BY <1>2, <2>2 DEF Good, Sound, Asked
    <3>3. y.c.tcp # "none"
      BY <1>1
    <3>4. /\ Leads(y, z)
          /\ z.c.state = "Closed" \/ z.c.deferred
          /\ z.c.accepted = y.c.accepted
      BY <1>2, <1>7, <2>0, <2>2, <3>1, <3>2, <3>3, closeThroughLeads
    <3>5. QED BY <1>1, <3>4, LeadsOn, OwedNothing DEF Listens
  <2>3. QED BY <1>7, <2>1, <2>2 DEF Drained, finishFlushIfDrained, FlushPending
<1>8. QED BY <1>2, <1>3, <1>4, <1>5, <1>6, <1>7

-----------------------------------------------------------------------------
(* The application's calls.                                                *)

Begun(x, to) ==
    transitionDelayedCloseState([x EXCEPT !.c.state = "Closing", !.c.half = TRUE], to)

LEMMA BegunLeads ==
    ASSUME NEW x, Good(x), x.c.state # "Closed", x.c.tcp # "none",
           NEW to, NEW z, z = Begun(x, to)
    PROVE  /\ Leads(x, z)
           /\ z.c.accepted = x.c.accepted /\ z.c.tcp = x.c.tcp /\ z.c.queued = x.c.queued
           /\ z.c.state = "Closing" /\ z.c.connecting = x.c.connecting
<1> DEFINE t == x.c.timer \/ Deadline
<1>0. DOMAIN x.c = Fields
  BY DEF Good, Sound, Typed
<1>1. x = [c |-> x.c, out |-> x.out, in |-> x.in, gone |-> x.gone, eof |-> x.eof]
  BY DEF Good
<1>2. z = [[x EXCEPT !.c.state = "Closing", !.c.half = TRUE]
              EXCEPT !.c.delayed = to, !.c.timer = @ \/ Deadline]
  BY DEF Begun, transitionDelayedCloseState
<1>3. /\ z.c = [[x.c EXCEPT !.state = "Closing", !.half = TRUE]
                   EXCEPT !.delayed = to, !.timer = @ \/ Deadline]
      /\ z = [c |-> z.c, out |-> x.out, in |-> x.in, gone |-> x.gone, eof |-> x.eof]
      /\ z.out = x.out /\ z.in = x.in /\ z.gone = x.gone /\ z.eof = x.eof
  BY ONLY <1>1, <1>2
<1>4. /\ DOMAIN z.c = Fields
      /\ z.c.state = "Closing" /\ z.c.half = TRUE
      /\ z.c.tcp = x.c.tcp /\ z.c.connecting = x.c.connecting
      /\ z.c.queued = x.c.queued /\ z.c.posted = x.c.posted
      /\ z.c.events = x.c.events
      /\ z.c.accepted = x.c.accepted /\ z.c.got = x.c.got /\ z.c.lost = x.c.lost
      /\ z.c.why = x.c.why /\ z.c.active = x.c.active /\ z.c.enabled = x.c.enabled
      /\ z.c.woken = x.c.woken /\ z.c.disabled = x.c.disabled
      /\ z.c.unreleased = x.c.unreleased /\ z.c.connectTimer = x.c.connectTimer
      /\ z.c.fin = x.c.fin
      /\ z.c.writeReady = x.c.writeReady /\ z.c.failed = x.c.failed
  <2>2. z.c = [[x.c EXCEPT !.state = "Closing", !.half = TRUE]
                  EXCEPT !.delayed = to, !.timer = @ \/ Deadline]
    BY ONLY <1>3
  <2>3. QED BY ONLY <1>0, <2>2 DEF Fields
<1>5. Typed(z.c)
  BY <1>4 DEF Good, Sound, Typed
<1>6. Asked(z.c) /\ Told(z.c)
  BY <1>4 DEF Good, Sound, Asked, Told
<1>7. Over(z.c) /\ Early(z.c)
  BY <1>4 DEF Good, Sound, Over, Early, Released
<1>8. Trying(z.c)
  BY <1>4 DEF Good, Sound, Trying
<1>9. Good(z)
  BY <1>3, <1>5, <1>6, <1>7, <1>8 DEF Good, Sound
<1>10. Same(x, z) /\ Deaf(x, z)
  BY <1>3, <1>4 DEF Same, Deaf
<1>11. Balanced(x, z)
  <2>1. x.out \in Nat /\ x.c.queued \in Nat /\ x.c.lost \in Nat /\ x.c.accepted \in Nat
    BY PairAssumption DEF Good, Sound, Typed
  <2>2. Back(z.c) => Back(x.c)
    BY <1>4 DEF Back, Good, Sound, Typed
  <2>3. QED BY <2>1, <2>2, <1>3, <1>4 DEF Balanced
<1>12. QED BY <1>4, <1>9, <1>10, <1>11 DEF Leads

LEMMA closeLeads ==
    ASSUME NEW x, Good(x), x.c.tcp # "none", NEW broken,
           NEW type \in {"NoFlush", "FlushWrite", "FlushWriteAndDelay"},
           NEW z, z = close(x, type, broken)
    PROVE  Leads(x, z) /\ Listens(z) /\ z.c.accepted = x.c.accepted
<1>t. /\ "LocalClose" \in CloseEvents /\ "asked" \in Causes /\ "drained" \in Causes
      /\ "asked" # "drained"
  BY DEF CloseEvents, Causes
<1>1. CASE x.c.state = "Closed"
  <2>1. z = x
    BY <1>1 DEF close
  <2>2. QED BY <1>1, <2>1, LeadsStays, OwedNothing DEF Listens
<1>2. CASE x.c.state # "Closed" /\ z = closeSocket(x, "LocalClose", "asked")
  <2>1. Leads(x, z) /\ z.c.state = "Closed" /\ z.c.accepted = x.c.accepted
    BY <1>t, <1>2, closeSocketLeads
  <2>2. QED BY <2>1, OwedNothing DEF Listens
<1>3. ASSUME x.c.state # "Closed", NEW to, NEW y, y = Begun(x, to),
             \/ y.c.queued = 0 /\ z = closeSocket(y, "LocalClose", "drained")
             \/ z = doWrite(y, broken)
      PROVE  Leads(x, z) /\ Listens(z) /\ z.c.accepted = x.c.accepted
  <2>1. /\ Leads(x, y)
        /\ y.c.accepted = x.c.accepted /\ y.c.tcp = x.c.tcp /\ y.c.queued = x.c.queued
        /\ y.c.state = "Closing" /\ y.c.connecting = x.c.connecting
    BY <1>3, BegunLeads
  <2>2. Good(y)
    BY <2>1 DEF Leads
  <2>3. CASE y.c.queued = 0 /\ z = closeSocket(y, "LocalClose", "drained")
    <3>1. Leads(y, z) /\ z.c.state = "Closed" /\ z.c.accepted = y.c.accepted
      BY <1>t, <2>2, <2>3, closeSocketLeads
    <3>2. QED BY <2>1, <3>1, LeadsOn, OwedNothing DEF Listens
  <2>4. CASE z = doWrite(y, broken)
    <3>1. y.c.tcp # "none" /\ (y.c.connecting => y.c.state \in {"Closing", "Closed"})
      BY <2>1
    <3>2. Leads(y, z) /\ Listens(z) /\ z.c.accepted = y.c.accepted
      BY <2>2, <2>4, <3>1, doWriteLeads
    <3>3. QED BY <2>1, <3>2, LeadsOn
  <2>5. QED BY <1>3, <2>3, <2>4
<1>4. CASE x.c.state # "Closed" /\ type = "NoFlush"
  <2>1. z = closeSocket(x, "LocalClose", "asked")
    BY <1>4 DEF close
  <2>2. QED BY <1>2, <1>4, <2>1
<1>5. CASE x.c.state # "Closed" /\ type = "FlushWrite"
  <2>1. z = IF x.c.queued = 0
            THEN closeSocket(Begun(x, "CloseAfterFlush"), "LocalClose", "drained")
            ELSE doWrite(Begun(x, "CloseAfterFlush"), broken)
    BY <1>5 DEF close, Begun
  <2>2. Begun(x, "CloseAfterFlush").c.queued = x.c.queued
    BY <1>5, BegunLeads
  <2>3. QED BY <1>3, <1>5, <2>1, <2>2
<1>6. CASE x.c.state # "Closed" /\ type = "FlushWriteAndDelay"
  <2>1. z = doWrite(Begun(x, IF Deadline THEN "CloseAfterFlushAndWait"
                             ELSE "CloseAfterFlush"), broken)
    BY <1>6 DEF close, Begun
  <2>2. QED BY <1>3, <1>6, <2>1
<1>7. QED BY <1>1, <1>4, <1>5, <1>6

(* n more bytes are taken from the application, which may still write.     *)
Given(x, n) == [x EXCEPT !.c.queued = @ + n, !.c.accepted = @ + n]

LEMMA AcceptedLeads ==
    ASSUME NEW x, Good(x), x.c.state = "Open", ~x.c.half, x.c.tcp # "none",
           x.c.connecting => "Write" \in x.c.enabled,
           NEW n \in Nat \ {0}, x.c.accepted + n <= MaxBytes,
           NEW z, z = Given(x, n)
    PROVE  /\ Leads(x, z)
           /\ z.c.state = "Open" /\ z.c.tcp = x.c.tcp /\ z.c.connecting = x.c.connecting
           /\ z.c.writeReady = x.c.writeReady /\ z.c.queued > 0
           /\ z.c.enabled = x.c.enabled /\ z.c.woken = x.c.woken
           /\ z.out = x.out /\ z.gone = x.gone
<1>0. /\ DOMAIN x.c = Fields /\ x.c.queued \in Nat /\ x.c.accepted \in Nat
      /\ x.c.lost \in Nat /\ x.out \in Nat /\ x.c.got \in Nat /\ MaxBytes \in Nat
  BY PairAssumption DEF Good, Sound, Typed
<1>1. x = [c |-> x.c, out |-> x.out, in |-> x.in, gone |-> x.gone, eof |-> x.eof]
  BY DEF Good
<1>2. z = [x EXCEPT !.c.queued = @ + n, !.c.accepted = @ + n]
  BY DEF Given
<1>3. /\ z.c = [x.c EXCEPT !.queued = @ + n, !.accepted = @ + n]
      /\ z = [c |-> z.c, out |-> x.out, in |-> x.in, gone |-> x.gone, eof |-> x.eof]
      /\ z.out = x.out /\ z.in = x.in /\ z.gone = x.gone /\ z.eof = x.eof
  BY ONLY <1>1, <1>2
<1>4. /\ DOMAIN z.c = Fields
      /\ z.c.queued = x.c.queued + n /\ z.c.accepted = x.c.accepted + n
      /\ z.c.state = x.c.state /\ z.c.half = x.c.half
      /\ z.c.tcp = x.c.tcp /\ z.c.connecting = x.c.connecting
      /\ z.c.posted = x.c.posted /\ z.c.events = x.c.events
      /\ z.c.got = x.c.got /\ z.c.lost = x.c.lost
      /\ z.c.why = x.c.why /\ z.c.active = x.c.active /\ z.c.enabled = x.c.enabled
      /\ z.c.woken = x.c.woken /\ z.c.disabled = x.c.disabled
      /\ z.c.unreleased = x.c.unreleased /\ z.c.connectTimer = x.c.connectTimer
      /\ z.c.fin = x.c.fin /\ z.c.timer = x.c.timer
      /\ z.c.writeReady = x.c.writeReady /\ z.c.failed = x.c.failed
  <2>1. DOMAIN x.c = Fields
    BY ONLY <1>0
  <2>2. z.c = [x.c EXCEPT !.queued = @ + n, !.accepted = @ + n]
    BY ONLY <1>3
  <2>3. QED BY ONLY <2>1, <2>2 DEF Fields
<1>q. /\ z.c.queued \in Nat /\ z.c.queued > 0 /\ z.c.accepted \in 0..MaxBytes
      /\ x.out + z.c.queued + x.c.lost + x.c.accepted
           = x.out + x.c.queued + x.c.lost + z.c.accepted
  <2>1. z.c.queued = x.c.queued + n /\ z.c.accepted = x.c.accepted + n
    BY ONLY <1>4
  <2>2. n \in Nat \ {0} /\ x.c.accepted + n <= MaxBytes
    OBVIOUS
  <2>3. QED BY ONLY <1>0, <2>1, <2>2
<1>5. Typed(z.c)
  BY <1>4, <1>q DEF Good, Sound, Typed
<1>6. Asked(z.c)
  BY <1>4 DEF Good, Sound, Asked
<1>7. Told(z.c)
  BY <1>4 DEF Good, Sound, Told
<1>8. Over(z.c) /\ Early(z.c)
  BY <1>4 DEF Good, Sound, Over, Early, Released
<1>9. Trying(z.c)
  BY <1>4 DEF Good, Sound, Trying
<1>10. Good(z)
  BY <1>3, <1>5, <1>6, <1>7, <1>8, <1>9 DEF Good, Sound
<1>11. Same(x, z) /\ Deaf(x, z)
  BY <1>3, <1>4 DEF Same, Deaf
<1>12. Balanced(x, z)
  <2>1. (Back(z.c) => Back(x.c)) /\ z.c.got + z.in = x.c.got + x.in
    BY ONLY <1>3, <1>4 DEF Back
  <2>2. z.out = x.out /\ z.c.lost = x.c.lost
    BY ONLY <1>3, <1>4
  <2>3. QED BY ONLY <2>1, <2>2, <1>q DEF Balanced
<1>13. QED BY <1>3, <1>4, <1>q, <1>10, <1>11, <1>12 DEF Leads

LEMMA writeLeads ==
    ASSUME NEW x, Good(x), x.c.tcp # "none", NEW broken,
           NEW n \in Nat \ {0}, x.c.accepted + n <= MaxBytes,
           NEW z, z = write(x, n, broken), NEW R, NEW W, ListensBut(x, R, W)
    PROVE  Leads(x, z) /\ ListensBut(z, R, W)
<1>1. CASE x.c.state # "Open" \/ x.c.half
  BY <1>1, LeadsStays DEF write
<1>2. CASE x.c.state = "Open" /\ ~x.c.half
  <2> DEFINE w == enableFileEvents(x, {"Write"})
  <2> DEFINE y == Given(w, n)
  <2>0. x.c.connecting => x.c.active = {}
    BY <1>2 DEF Good, Sound, Trying, Typed, Bits
  <2>1. May(x.c, {"Write"})
    BY <1>2, <2>0 DEF May, Bits
  <2>2. Leads(x, w)
    BY <2>1, EnableLeads
  <2>3. /\ w.c.state = x.c.state /\ w.c.half = x.c.half /\ w.c.tcp = x.c.tcp
        /\ w.c.accepted = x.c.accepted /\ w.c.connecting = x.c.connecting
        /\ w.c.writeReady = x.c.writeReady /\ w.c.enabled = {"Write"}
        /\ w.c.woken = (Ready(w) \cap {"Write"} # {})
    <3>1. /\ \A f \in Fields \ {"enabled", "woken"} : w.c[f] = x.c[f]
          /\ w.c.enabled = {"Write"}
          /\ w.c.woken = (Ready(w) \cap {"Write"} # {})
      BY EnableFields
    <3> HIDE DEF w
    <3>2. QED BY ONLY <3>1 DEF Fields
  <2>4. z = IF y.c.writeReady THEN doWrite(y, broken) ELSE y
    BY <1>2 DEF write, Given
  <2> HIDE DEF w
  <2>5. Good(w)
    BY <2>2 DEF Leads
  <2>6. /\ Leads(w, y)
        /\ y.c.state = "Open" /\ y.c.tcp = w.c.tcp /\ y.c.connecting = w.c.connecting
        /\ y.c.writeReady = w.c.writeReady /\ y.c.queued > 0
        /\ y.c.enabled = w.c.enabled /\ y.c.woken = w.c.woken
        /\ y.out = w.out /\ y.gone = w.gone
    <3>1. /\ w.c.state = "Open" /\ ~w.c.half /\ w.c.tcp # "none"
          /\ w.c.connecting => "Write" \in w.c.enabled
          /\ n \in Nat \ {0} /\ w.c.accepted + n <= MaxBytes
      BY <1>2, <2>3
    <3>2. y = Given(w, n)
      OBVIOUS
    <3> HIDE DEF y
    <3>3. QED BY ONLY <2>5, <3>1, <3>2, AcceptedLeads
  <2> HIDE DEF y
  <2>7. Leads(x, y)
    BY <2>2, <2>6, LeadsOn
  <2>8. Good(y)
    BY <2>6 DEF Leads
  <2>9. CASE y.c.writeReady
    <3>1. ~y.c.connecting
      BY <2>8, <2>9 DEF Good, Sound, Trying
    <3>2. y.c.tcp # "none" /\ z = doWrite(y, broken)
      BY <2>3, <2>4, <2>6, <2>9
    <3>3. Leads(y, z) /\ Listens(z)
      BY <2>8, <3>1, <3>2, doWriteLeads
    <3>4. QED BY <2>7, <3>3, LeadsOn DEF Listens, ListensBut
  <2>10. CASE ~y.c.writeReady
    <3>1. "Write" \in Ready(y) => "Write" \in Ready(w)
      BY <2>6 DEF Ready
    <3>2. ~InCond(y.c)
      BY <2>6 DEF InCond
    <3>3. ListensBut(y, R, W)
      BY <2>3, <2>6, <3>1, <3>2 DEF ListensBut
    <3>4. QED BY <2>4, <2>7, <2>10, <3>3
  <2>11. QED BY <2>9, <2>10
<1>3. QED BY <1>1, <1>2 DEF Good, Sound, Typed

-----------------------------------------------------------------------------
(* Reading.                                                                *)

Noted == {"disabled", "active", "woken", "got", "writeReady", "written"}

(* Steps that leave the bytes of an end's output, and its closing, alone.  *)
LEMMA NotedLeads ==
    ASSUME NEW x, Good(x), x.c.tcp # "none",
           NEW z,
           z = [c |-> z.c, out |-> x.out, in |-> z.in, gone |-> x.gone, eof |-> x.eof],
           DOMAIN z.c = Fields,
           \A f \in Fields \ Noted : z.c[f] = x.c[f],
           z.c.active \subseteq Bits, z.in \in {x.in, 0}, z.c.got \in Nat,
           Trying(z.c),
           Back(x.c) => z.c.got + z.in = x.c.got + x.in,
           x.c.state \in {"Closing", "Closed"} /\ ~x.c.connecting => z.c.got = x.c.got
    PROVE  /\ Leads(x, z)
           /\ z.c.accepted = x.c.accepted /\ z.c.tcp = x.c.tcp /\ z.c.state = x.c.state
           /\ z.c.queued = x.c.queued /\ z.c.connecting = x.c.connecting
           /\ z.c.enabled = x.c.enabled /\ z.c.deferred = x.c.deferred
           /\ z.c.failed = x.c.failed /\ z.c.half = x.c.half /\ z.c.delayed = x.c.delayed
           /\ z.out = x.out /\ z.gone = x.gone /\ z.eof = x.eof
<1>1. z.out = x.out /\ z.gone = x.gone /\ z.eof = x.eof
  <2>1. z = [c |-> z.c, out |-> x.out, in |-> z.in, gone |-> x.gone, eof |-> x.eof]
    OBVIOUS
  <2>2. QED BY ONLY <2>1
<1>2. /\ z.c.state = x.c.state /\ z.c.tcp = x.c.tcp /\ z.c.connecting = x.c.connecting
      /\ z.c.half = x.c.half /\ z.c.posted = x.c.posted /\ z.c.events = x.c.events
      /\ z.c.queued = x.c.queued /\ z.c.accepted = x.c.accepted
      /\ z.c.lost = x.c.lost /\ z.c.why = x.c.why /\ z.c.enabled = x.c.enabled
      /\ z.c.unreleased = x.c.unreleased /\ z.c.deferred = x.c.deferred
      /\ z.c.connectTimer = x.c.connectTimer /\ z.c.timer = x.c.timer /\ z.c.fin = x.c.fin
      /\ z.c.failed = x.c.failed /\ z.c.delayed = x.c.delayed
  <2>1. \A f \in Fields \ Noted : z.c[f] = x.c[f]
    OBVIOUS
  <2>2. QED BY ONLY <2>1 DEF Fields, Noted
<1>3. Typed(z.c)
  BY <1>2 DEF Good, Sound, Typed
<1>4. Asked(z.c) /\ Told(z.c)
  BY <1>2 DEF Good, Sound, Asked, Told
<1>5. Over(z.c) /\ Early(z.c)
  BY <1>2 DEF Good, Sound, Over, Early, Released
<1>6. Good(z)
  <2>1. z = [c |-> z.c, out |-> z.out, in |-> z.in, gone |-> z.gone, eof |-> z.eof]
    BY <1>1
  <2>2. z.out \in 0..Room /\ z.in \in 0..Room
    BY <1>1, PairAssumption DEF Good
  <2>3. Sound(z.c)
    BY <1>3, <1>4, <1>5 DEF Sound
  <2>4. QED BY <2>1, <2>2, <2>3 DEF Good
<1>7. Same(x, z) /\ Deaf(x, z)
  BY <1>1, <1>2 DEF Same, Deaf
<1>8. Balanced(x, z)
  <2>1. x.out \in Nat /\ x.c.queued \in Nat /\ x.c.lost \in Nat /\ x.c.accepted \in Nat
    BY PairAssumption DEF Good, Sound, Typed
  <2>2. Back(z.c) => Back(x.c)
    BY <1>2 DEF Back
  <2>3. Back(x.c) => z.c.got + z.in = x.c.got + x.in
    OBVIOUS
  <2>4. QED BY ONLY <1>1, <1>2, <2>1, <2>2, <2>3 DEF Balanced
<1>9. QED BY <1>1, <1>2, <1>6, <1>7, <1>8 DEF Leads

Held(x, d) == [x EXCEPT !.c.disabled = d]

LEMMA HeldLeads ==
    ASSUME NEW x, Good(x), x.c.tcp # "none", ~x.c.connecting,
           NEW d \in BOOLEAN, NEW z, z = Held(x, d)
    PROVE  /\ Leads(x, z) /\ z.c.disabled = d
           /\ z.c.accepted = x.c.accepted /\ z.c.tcp = x.c.tcp /\ z.c.state = x.c.state
           /\ z.c.queued = x.c.queued /\ ~z.c.connecting
           /\ z.c.enabled = x.c.enabled /\ z.c.deferred = x.c.deferred
           /\ z.c.failed = x.c.failed /\ z.c.woken = x.c.woken
           /\ z.out = x.out /\ z.gone = x.gone
<1>0. DOMAIN x.c = Fields /\ x.c.active \subseteq Bits /\ x.c.got \in Nat
  BY DEF Good, Sound, Typed
<1>1. x = [c |-> x.c, out |-> x.out, in |-> x.in, gone |-> x.gone, eof |-> x.eof]
  BY DEF Good
<1>2. z = [x EXCEPT !.c.disabled = d]
  BY DEF Held
<1>3. /\ z.c = [x.c EXCEPT !.disabled = d] /\ z.in = x.in
      /\ z = [c |-> z.c, out |-> x.out, in |-> z.in, gone |-> x.gone, eof |-> x.eof]
  BY ONLY <1>1, <1>2
<1>4. /\ DOMAIN z.c = Fields /\ \A f \in Fields \ Noted : z.c[f] = x.c[f]
      /\ z.c.active = x.c.active /\ z.c.got = x.c.got /\ z.c.disabled = d
      /\ z.c.connecting = x.c.connecting /\ z.c.woken = x.c.woken
  <2>1. DOMAIN x.c = Fields
    BY ONLY <1>0
  <2>2. z.c = [x.c EXCEPT !.disabled = d]
    BY ONLY <1>3
  <2>3. QED BY ONLY <2>1, <2>2 DEF Fields, Noted
<1>5. Trying(z.c)
  BY <1>4 DEF Trying
<1>6. /\ Good(x) /\ x.c.tcp # "none" /\ z.c.active \subseteq Bits
      /\ z.in \in {x.in, 0} /\ z.c.got \in Nat /\ z.c.got + z.in = x.c.got + x.in
  BY <1>0, <1>3, <1>4
<1>7. /\ Leads(x, z)
      /\ z.c.accepted = x.c.accepted /\ z.c.tcp = x.c.tcp /\ z.c.state = x.c.state
      /\ z.c.queued = x.c.queued /\ z.c.connecting = x.c.connecting
      /\ z.c.enabled = x.c.enabled /\ z.c.deferred = x.c.deferred
      /\ z.c.failed = x.c.failed /\ z.c.half = x.c.half /\ z.c.delayed = x.c.delayed
      /\ z.out = x.out /\ z.gone = x.gone /\ z.eof = x.eof
  BY ONLY <1>3, <1>4, <1>5, <1>6, NotedLeads
<1>8. QED BY <1>4, <1>7

LEMMA readDisableLeads ==
    ASSUME NEW x, Good(x), x.c.tcp # "none", ~x.c.connecting,
           NEW z, z = readDisable(x), Listens(x)
    PROVE  Leads(x, z) /\ Listens(z)
<1> DEFINE y == Held(x, TRUE)
<1>1. /\ Leads(x, y) /\ y.c.disabled
      /\ y.c.accepted = x.c.accepted /\ y.c.tcp = x.c.tcp /\ y.c.state = x.c.state
      /\ y.c.queued = x.c.queued /\ ~y.c.connecting
      /\ y.c.enabled = x.c.enabled /\ y.c.deferred = x.c.deferred
      /\ y.c.failed = x.c.failed /\ y.c.woken = x.c.woken
      /\ y.out = x.out /\ y.gone = x.gone
  <2> DEFINE d == TRUE
  <2>1. Good(x) /\ x.c.tcp # "none" /\ ~x.c.connecting /\ d \in BOOLEAN /\ y = Held(x, d)
    OBVIOUS
  <2> HIDE DEF y, d
  <2>2. /\ Leads(x, y) /\ y.c.disabled = d
        /\ y.c.accepted = x.c.accepted /\ y.c.tcp = x.c.tcp /\ y.c.state = x.c.state
        /\ y.c.queued = x.c.queued /\ ~y.c.connecting
        /\ y.c.enabled = x.c.enabled /\ y.c.deferred = x.c.deferred
        /\ y.c.failed = x.c.failed /\ y.c.woken = x.c.woken
        /\ y.out = x.out /\ y.gone = x.gone
    BY ONLY <2>1, HeldLeads
  <2>3. QED BY ONLY <2>2 DEF d
<1>2. z = IF x.c.state # "Open" THEN y ELSE enableFileEvents(y, {"Write"})
  BY DEF readDisable, Held
<1> HIDE DEF y
<1>3. Good(y)
  BY <1>1 DEF Leads
<1>4. ~InCond(y.c)
  BY <1>1 DEF InCond
<1>5. CASE x.c.state # "Open"
  <2>1. "Write" \in Ready(y) => "Write" \in Ready(x)
    BY <1>1 DEF Ready
  <2>2. OutCond(y.c) => OutCond(x.c)
    BY <1>1 DEF OutCond
  <2>3. Listens(y)
    BY <1>1, <1>4, <2>1, <2>2 DEF Listens, ListensBut
  <2>4. QED BY <1>1, <1>2, <1>5, <2>3
<1>6. CASE x.c.state = "Open"
  <2>1. May(y.c, {"Write"})
    BY <1>1, <1>6 DEF May, Bits
  <2>2. z = enableFileEvents(y, {"Write"})
    BY <1>2, <1>6
  <2>3. Leads(y, z)
    BY ONLY <1>3, <2>1, <2>2, EnableLeads
  <2>4. OutCond(y.c) => "Write" \in {"Write"}
    OBVIOUS
  <2>5. InCond(y.c) => "Read" \in {"Write"}
    BY <1>4
  <2>6. Listens(z)
    BY ONLY <1>3, <2>2, <2>4, <2>5, EnableListens
  <2>7. QED BY <1>1, <2>3, <2>6, LeadsOn
<1>7. QED BY <1>5, <1>6

(* What a reading does to its end: to be read again, and the bytes read    *)
(* thrown away or handed to the filters.                                   *)
Poke(x) == [x EXCEPT !.c.active = @ \cup {"Read"}]
Discard(x) == [x EXCEPT !.in = 0, !.c.active = @ \cup {"Read"}]
Deliver(x) == [Discard(x) EXCEPT !.c.got = @ + x.in]

Alike(x, z) ==
    /\ z.c.accepted = x.c.accepted /\ z.c.tcp = x.c.tcp /\ z.c.state = x.c.state
    /\ z.c.queued = x.c.queued /\ z.c.connecting = x.c.connecting
    /\ z.c.enabled = x.c.enabled /\ z.c.deferred = x.c.deferred
    /\ z.c.failed = x.c.failed /\ z.c.half = x.c.half /\ z.c.delayed = x.c.delayed
    /\ z.out = x.out /\ z.gone = x.gone /\ z.eof = x.eof
    /\ z.c.disabled = x.c.disabled /\ z.c.woken = x.c.woken

LEMMA AlikeListens ==
    ASSUME NEW x, NEW z, Alike(x, z), "Read" \in z.c.active,
           NEW R, NEW W, ListensBut(x, R, W)
    PROVE  ListensBut(z, FALSE, W)
<1>1. InCond(z.c) => InCond(x.c)
  BY DEF Alike, InCond
<1>2. OutCond(z.c) => OutCond(x.c)
  BY DEF Alike, OutCond
<1>3. "Write" \in Ready(z) => "Write" \in Ready(x)
  BY DEF Alike, Ready
<1>4. QED BY <1>1, <1>2, <1>3 DEF ListensBut, Alike

LEMMA PokeLeads ==
    ASSUME NEW x, Good(x), x.c.tcp # "none",
           NEW z,
           \/ z = Poke(x) /\ ~x.c.connecting
           \/ z = Discard(x) /\ x.c.state = "Closing"
              /\ (x.c.connecting => "Write" \notin x.c.enabled)
           \/ z = Deliver(x) /\ x.c.state = "Open" /\ ~x.c.connecting
    PROVE  Leads(x, z) /\ Alike(x, z) /\ "Read" \in z.c.active
<1>0. /\ DOMAIN x.c = Fields /\ x.c.active \subseteq Bits /\ x.c.got \in Nat
      /\ x.in \in Nat
  BY PairAssumption DEF Good, Sound, Typed
<1>1. x = [c |-> x.c, out |-> x.out, in |-> x.in, gone |-> x.gone, eof |-> x.eof]
  BY DEF Good
<1> DEFINE a == x.c.active \cup {"Read"}
<1>2. /\ z = [c |-> z.c, out |-> x.out, in |-> z.in, gone |-> x.gone, eof |-> x.eof]
      /\ z.in \in {x.in, 0}
      /\ DOMAIN z.c = Fields /\ z.c.active = a
      /\ \A f \in Fields \ {"active", "got"} : z.c[f] = x.c[f]
      /\ \/ z.c.got = x.c.got /\ z.in = x.in
         \/ z.c.got = x.c.got /\ ~Back(x.c)
         \/ z.c.got = x.c.got + x.in /\ z.in = 0 /\ x.c.state = "Open"
  <2> HIDE DEF a
  <2>0. "active" \in Fields /\ "got" \in Fields
    BY DEF Fields
  <2>1. CASE z = Poke(x) /\ ~x.c.connecting
    <3>1. z = [x EXCEPT !.c.active = a]
      BY <2>1 DEF Poke, a
    <3>2. /\ z = [c |-> z.c, out |-> x.out, in |-> z.in, gone |-> x.gone, eof |-> x.eof]
          /\ z.in = x.in /\ z.c = [x.c EXCEPT !.active = a]
      BY ONLY <1>1, <3>1
    <3>3. DOMAIN x.c = Fields
      BY ONLY <1>0
    <3>4. /\ DOMAIN z.c = Fields /\ z.c.active = a /\ z.c.got = x.c.got
          /\ \A f \in Fields \ {"active", "got"} : z.c[f] = x.c[f]
      BY ONLY <2>0, <3>2, <3>3
    <3>5. QED BY ONLY <3>2, <3>4
  <2>2. CASE z = Discard(x) /\ x.c.state = "Closing"
             /\ (x.c.connecting => "Write" \notin x.c.enabled)
    <3>1. z = [x EXCEPT !.in = 0, !.c.active = a]
      BY <2>2 DEF Discard, a
    <3>2. /\ z = [c |-> z.c, out |-> x.out, in |-> z.in, gone |-> x.gone, eof |-> x.eof]
          /\ z.in = 0 /\ z.c = [x.c EXCEPT !.active = a]
      BY ONLY <1>1, <3>1
    <3>3. DOMAIN x.c = Fields
      BY ONLY <1>0
    <3>4. /\ DOMAIN z.c = Fields /\ z.c.active = a /\ z.c.got = x.c.got
          /\ \A f \in Fields \ {"active", "got"} : z.c[f] = x.c[f]
      BY ONLY <2>0, <3>2, <3>3
    <3>5. ~Back(x.c)
      BY <2>2 DEF Back
    <3>6. QED BY ONLY <3>2, <3>4, <3>5
  <2>3. CASE z = Deliver(x) /\ x.c.state = "Open" /\ ~x.c.connecting
    <3>1. z = [[x EXCEPT !.in = 0, !.c.active = a] EXCEPT !.c.got = @ + x.in]
      BY <2>3 DEF Deliver, Discard, a
    <3>2. /\ z = [c |-> z.c, out |-> x.out, in |-> z.in, gone |-> x.gone, eof |-> x.eof]
          /\ z.in = 0 /\ z.c = [[x.c EXCEPT !.active = a] EXCEPT !.got = @ + x.in]
      BY ONLY <1>1, <3>1
    <3>3. DOMAIN x.c = Fields
      BY ONLY <1>0
    <3>4. /\ DOMAIN z.c = Fields /\ z.c.active = a /\ z.c.got = x.c.got + x.in
          /\ \A f \in Fields \ {"active", "got"} : z.c[f] = x.c[f]
      BY ONLY <2>0, <3>2, <3>3
    <3>5. x.c.state = "Open"
      BY <2>3
    <3>6. QED BY ONLY <3>2, <3>4, <3>5
  <2>4. QED BY <2>1, <2>2, <2>3
<1>3. /\ z.c.connecting = x.c.connecting /\ z.c.disabled = x.c.disabled
      /\ z.c.writeReady = x.c.writeReady /\ z.c.failed = x.c.failed
      /\ z.c.enabled = x.c.enabled /\ z.c.state = x.c.state /\ z.c.queued = x.c.queued
      /\ z.c.woken = x.c.woken
  BY ONLY <1>2 DEF Fields
<1>4. Trying(z.c)
  <2>1. "Write" \notin x.c.active => "Write" \notin a
    OBVIOUS
  <2>2. x.c.connecting => "Write" \notin x.c.enabled /\ x.c.state = "Closing"
    OBVIOUS
  <2>3. Trying(x.c)
    BY DEF Good, Sound
  <2> HIDE DEF a
  <2>4. QED BY ONLY <1>2, <1>3, <2>1, <2>2, <2>3 DEF Trying
<1>5. /\ z.c.active \subseteq Bits /\ "Read" \in z.c.active /\ z.c.got \in Nat
  BY <1>0, <1>2 DEF Bits
<1> HIDE DEF a
<1>6. \A f \in Fields \ Noted : z.c[f] = x.c[f]
  BY ONLY <1>2 DEF Noted
<1>7. Back(x.c) => z.c.got + z.in = x.c.got + x.in
  BY ONLY <1>0, <1>2
<1>8. x.c.state \in {"Closing", "Closed"} /\ ~x.c.connecting => z.c.got = x.c.got
  BY ONLY <1>2
<1>9. Good(x) /\ x.c.tcp # "none"
  OBVIOUS
<1>10. /\ Leads(x, z)
       /\ z.c.accepted = x.c.accepted /\ z.c.tcp = x.c.tcp /\ z.c.state = x.c.state
       /\ z.c.queued = x.c.queued /\ z.c.connecting = x.c.connecting
       /\ z.c.enabled = x.c.enabled /\ z.c.deferred = x.c.deferred
       /\ z.c.failed = x.c.failed /\ z.c.half = x.c.half /\ z.c.delayed = x.c.delayed
       /\ z.out = x.out /\ z.gone = x.gone /\ z.eof = x.eof
  BY ONLY <1>2, <1>4, <1>5, <1>6, <1>7, <1>8, <1>9, NotedLeads
<1>11. QED BY ONLY <1>3, <1>5, <1>10 DEF Alike

LEMMA readEnableLeads ==
    ASSUME NEW x, Good(x), x.c.disabled, Listens(x), NEW z, z = readEnable(x)
    PROVE  Leads(x, z) /\ Listens(z)
<1> DEFINE y == Held(x, FALSE)
<1> DEFINE m == {"Read"} \cup (IF y.c.queued > 0 THEN {"Write"} ELSE {})
<1> DEFINE w == enableFileEvents(y, m)
<1>0. x.c.tcp # "none" /\ ~x.c.connecting
  BY DEF Good, Sound, Early, Trying
<1>1. /\ Leads(x, y)
      /\ y.c.accepted = x.c.accepted /\ y.c.tcp = x.c.tcp /\ y.c.state = x.c.state
      /\ y.c.queued = x.c.queued /\ ~y.c.connecting
      /\ y.c.enabled = x.c.enabled /\ y.c.deferred = x.c.deferred
      /\ y.c.failed = x.c.failed /\ y.c.woken = x.c.woken
      /\ y.out = x.out /\ y.gone = x.gone
  <2> DEFINE d == FALSE
  <2>1. Good(x) /\ x.c.tcp # "none" /\ ~x.c.connecting /\ d \in BOOLEAN /\ y = Held(x, d)
    BY <1>0
  <2> HIDE DEF y, d
  <2>2. /\ Leads(x, y) /\ y.c.disabled = d
        /\ y.c.accepted = x.c.accepted /\ y.c.tcp = x.c.tcp /\ y.c.state = x.c.state
        /\ y.c.queued = x.c.queued /\ ~y.c.connecting
        /\ y.c.enabled = x.c.enabled /\ y.c.deferred = x.c.deferred
        /\ y.c.failed = x.c.failed /\ y.c.woken = x.c.woken
        /\ y.out = x.out /\ y.gone = x.gone
    BY ONLY <2>1, HeldLeads
  <2>3. QED BY ONLY <2>2
<1>2. z = IF y.c.state # "Open" THEN y ELSE Poke(w)
  <2>1. z = readEnable(x)
    OBVIOUS
  <2>2. y = [x EXCEPT !.c.disabled = FALSE]
    BY DEF Held
  <2> HIDE DEF y
  <2>3. x.c.state # "Open" => z = y
    BY ONLY <2>1, <2>2 DEF readEnable
  <2>4. x.c.state = "Open" => z = Poke(w)
    BY ONLY <2>1, <2>2 DEF readEnable, Poke
  <2>5. y.c.state = x.c.state
    BY ONLY <1>1
  <2>6. QED BY ONLY <2>3, <2>4, <2>5
<1>3. "Read" \in m /\ m \subseteq Bits /\ (y.c.queued > 0 => "Write" \in m)
  BY DEF Bits
<1> HIDE DEF y, m
<1>4. Good(y)
  BY <1>1 DEF Leads
<1>5. CASE x.c.state # "Open"
  <2>1. "Write" \in Ready(y) => "Write" \in Ready(x)
    BY <1>1 DEF Ready
  <2>2. OutCond(y.c) => OutCond(x.c)
    BY <1>1 DEF OutCond
  <2>3. ~InCond(y.c)
    BY <1>1, <1>5 DEF InCond
  <2>4. Listens(y)
    BY <1>1, <2>1, <2>2, <2>3 DEF Listens, ListensBut
  <2>5. QED BY <1>1, <1>2, <1>5, <2>4
<1>6. CASE x.c.state = "Open"
  <2>0. w = enableFileEvents(y, m) /\ z = Poke(w)
    BY <1>1, <1>2, <1>6
  <2> HIDE DEF w
  <2>1. May(y.c, m)
    BY <1>0, <1>1, <1>3, <1>6 DEF May
  <2>2. Leads(y, w)
    BY ONLY <1>4, <2>0, <2>1, EnableLeads
  <2>3. (InCond(y.c) => "Read" \in m) /\ (OutCond(y.c) => "Write" \in m)
    BY ONLY <1>3 DEF OutCond
  <2>4. Listens(w)
    BY ONLY <1>4, <2>0, <2>3, EnableListens
  <2>5. Good(w) /\ w.c.tcp # "none" /\ ~w.c.connecting
    BY <1>0, <1>1, <2>2 DEF Leads, Same
  <2>6. Leads(w, z) /\ Alike(w, z) /\ "Read" \in z.c.active
    BY ONLY <2>0, <2>5, PokeLeads
  <2>7. ListensBut(z, FALSE, FALSE)
    BY ONLY <2>4, <2>6, AlikeListens DEF Listens
  <2>8. Leads(x, w)
    BY <1>1, <2>2, LeadsOn
  <2>9. Leads(x, z)
    BY <2>6, <2>8, LeadsOn
  <2>10. QED BY <2>7, <2>9 DEF Listens
<1>7. QED BY <1>5, <1>6

Hows == {"take", "reply", "replyClose", "replyDelay", "disable"}
Replies == {"reply", "replyClose", "replyDelay"}

(* The filters are given what was read, and do one of the things they may. *)
LEMMA processLeads ==
    ASSUME NEW x, Good(x), x.c.tcp # "none", x.c.state = "Open", ~x.c.connecting,
           NEW how \in Hows, how \in Replies => x.c.accepted < MaxBytes,
           NEW broken, NEW y, y = Deliver(x), NEW R, ListensBut(x, R, FALSE),
           NEW z,
           z = CASE how = "take" -> y
                 [] how = "reply" -> write(y, 1, broken)
                 [] how = "replyClose" -> close(write(y, 1, broken), "FlushWrite", broken)
                 [] how = "replyDelay" ->
                      close(write(y, 1, broken), "FlushWriteAndDelay", broken)
                 [] how = "disable" -> readDisable(y)
    PROVE  Leads(x, z) /\ Listens(z)
<1>0. Good(x)
  OBVIOUS
<1>1. Leads(x, y) /\ Alike(x, y) /\ "Read" \in y.c.active
  BY PokeLeads
<1>2. ListensBut(y, FALSE, FALSE)
  BY ONLY <1>1, AlikeListens, ListensBut(x, R, FALSE)
<1>3. Good(y) /\ y.c.tcp # "none" /\ ~y.c.connecting /\ y.c.accepted = x.c.accepted
  BY <1>1 DEF Leads, Alike
<1>4. CASE how = "take"
  <2>1. z = y
    BY <1>4
  <2>2. QED BY <1>1, <1>2, <2>1 DEF Listens
<1>5. CASE how = "disable"
  <2>1. z = readDisable(y)
    BY <1>5
  <2>2. Listens(y)
    BY ONLY <1>2 DEF Listens
  <2>3. Leads(y, z) /\ Listens(z)
    BY ONLY <1>3, <2>1, <2>2, readDisableLeads
  <2>4. QED BY ONLY <1>0, <1>1, <2>3, LeadsOn
<1>6. CASE how \in Replies
  <2> DEFINE w == write(y, 1, broken)
  <2>1. 1 \in Nat \ {0} /\ y.c.accepted + 1 <= MaxBytes
    BY <1>3, <1>6, PairAssumption DEF Good, Sound, Typed
  <2>2. w = write(y, 1, broken)
    OBVIOUS
  <2>3. z = w \/ \E type \in {"NoFlush", "FlushWrite", "FlushWriteAndDelay"} :
                    z = close(w, type, broken)
    BY <1>6 DEF Replies
  <2> HIDE DEF w
  <2>4. Leads(y, w) /\ ListensBut(w, FALSE, FALSE)
    BY ONLY <1>2, <1>3, <2>1, <2>2, writeLeads
  <2>5. Leads(x, w)
    BY ONLY <1>0, <1>1, <2>4, LeadsOn
  <2>6. CASE z = w
    BY <2>4, <2>5, <2>6 DEF Listens
  <2>7. CASE \E type \in {"NoFlush", "FlushWrite", "FlushWriteAndDelay"} :
                z = close(w, type, broken)
    <3>1. Good(w) /\ w.c.tcp # "none"
      BY <1>3, <2>4 DEF Leads, Same
    <3>2. Leads(w, z) /\ Listens(z)
      <4>1. PICK type \in {"NoFlush", "FlushWrite", "FlushWriteAndDelay"} :
                    z = close(w, type, broken)
        BY <2>7
      <4>2. QED BY ONLY <3>1, <4>1, closeLeads
    <3>3. QED BY ONLY <1>0, <2>5, <3>2, LeadsOn
  <2>8. QED BY <2>3, <2>6, <2>7
<1>7. QED BY <1>4, <1>5, <1>6 DEF Hows, Replies

LEMMA EndOfStreamLeads ==
    ASSUME NEW x, Good(x), x.c.tcp # "none", Reading(x),
           x.c.connecting => x.c.state = "Closing",
           NEW z, z = EndOfStream(x)
    PROVE  Leads(x, z) /\ Listens(z)
<1>1. "RemoteClose" \in CloseEvents /\ "peer" \in Causes /\ "peer" # "drained"
  BY DEF CloseEvents, Causes
<1>2. ~(x.c.state = "Closing" /\ x.c.queued > 0)
  BY DEF Reading, waitingForPeerClose
<1>3. z = closeThroughFilterManager(x, "RemoteClose", "peer")
  BY <1>2 DEF EndOfStream
<1>4. x.c.connecting => x.c.state \in {"Closing", "Closed"} /\ x.c.queued = 0
  BY DEF Reading, waitingForPeerClose
<1>5. Leads(x, z) /\ (z.c.state = "Closed" \/ z.c.deferred)
  BY <1>1, <1>3, <1>4, closeThroughLeads
<1>6. QED BY <1>5, OwedNothing DEF Listens

LEMMA ReadAllLeads ==
    ASSUME NEW x, Good(x), x.c.tcp # "none", Reading(x), NEW R, ListensBut(x, R, FALSE),
           x.c.connecting => x.c.state = "Closing" /\ "Write" \notin x.c.enabled,
           NEW how \in Hows, how \in Replies => x.c.accepted < MaxBytes,
           NEW broken, NEW z, z = ReadAll(x, how, broken)
    PROVE  /\ Leads(x, z) /\ Listens(z)
           /\ z.c.connecting => z.c.state = "Closing"
<1>1. CASE waitingForPeerClose(x)
  <2>1. z = Discard(x) /\ x.c.state = "Closing"
    BY <1>1 DEF ReadAll, Discard, waitingForPeerClose
  <2>2. Leads(x, z) /\ Alike(x, z) /\ "Read" \in z.c.active
    BY <2>1, PokeLeads
  <2>3. ListensBut(z, FALSE, FALSE)
    BY <2>2, AlikeListens
  <2>4. QED BY <2>1, <2>2, <2>3 DEF Listens, Alike
<1>2. CASE ~waitingForPeerClose(x)
  <2> DEFINE y == Deliver(x)
  <2>1. x.c.state = "Open" /\ ~x.c.connecting
    BY <1>2 DEF Reading
  <2>2. z = CASE how = "take" -> y
              [] how = "reply" -> write(y, 1, broken)
              [] how = "replyClose" -> close(write(y, 1, broken), "FlushWrite", broken)
              [] how = "replyDelay" ->
                   close(write(y, 1, broken), "FlushWriteAndDelay", broken)
              [] how = "disable" -> readDisable(y)
    <3>1. z = ReadAll(x, how, broken)
      OBVIOUS
    <3>2. z = processReadBuffer([x EXCEPT !.in = 0, !.c.active = @ \cup {"Read"}],
                                x.in, how, broken)
      BY ONLY <1>2, <3>1 DEF ReadAll
    <3>3. y = [[x EXCEPT !.in = 0, !.c.active = @ \cup {"Read"}] EXCEPT !.c.got = @ + x.in]
      BY ONLY DEF Deliver, Discard
    <3> HIDE DEF y
    <3>4. QED BY ONLY <3>2, <3>3 DEF processReadBuffer
  <2>3. y = Deliver(x)
    OBVIOUS
  <2> HIDE DEF y
  <2>4. /\ Good(x) /\ x.c.tcp # "none" /\ ListensBut(x, R, FALSE)
        /\ how \in Hows /\ (how \in Replies => x.c.accepted < MaxBytes)
    OBVIOUS
  <2>5. Leads(x, z) /\ Listens(z)
    BY ONLY <2>1, <2>2, <2>3, <2>4, processLeads
  <2>6. ~z.c.connecting
    BY <2>1, <2>5 DEF Leads, Same
  <2>7. QED BY <2>5, <2>6
<1>3. QED BY <1>1, <1>2

LEMMA doReadLeads ==
    ASSUME NEW x, Good(x), x.c.tcp # "none", NEW R, ListensBut(x, R, FALSE),
           x.c.connecting => x.c.state = "Closing" /\ "Write" \notin x.c.enabled,
           NEW how \in Hows, how \in Replies => x.c.accepted < MaxBytes,
           NEW broken, NEW z, z = doRead(x, how, broken)
    PROVE  Leads(x, z) /\ Listens(z)
<1>1. CASE ~Reading(x)
  <2>1. z = x
    BY <1>1 DEF doRead
  <2>2. ~InCond(x.c)
    BY <1>1 DEF InCond, Reading
  <2>3. QED BY <2>1, <2>2, LeadsStays DEF Listens, ListensBut
<1>2. CASE Reading(x)
  <2> DEFINE y == IF x.in > 0 THEN ReadAll(x, how, broken) ELSE x
  <2>0. z = IF x.eof /\ Reading(y) THEN EndOfStream(y) ELSE y
    <3>1. z = doRead(x, how, broken)
      OBVIOUS
    <3>2. QED BY ONLY <1>2, <3>1 DEF doRead
  <2>1. /\ Leads(x, y)
        /\ y.c.connecting => y.c.state = "Closing"
        /\ (y = x /\ x.in = 0) \/ Listens(y)
    <3>1. CASE x.in > 0
      BY <1>2, <3>1, ReadAllLeads
    <3>2. CASE ~(x.in > 0)
      <4>1. x.in = 0
        BY <3>2, PairAssumption DEF Good
      <4>2. QED BY <3>2, <4>1, LeadsStays
    <3>3. QED BY <3>1, <3>2
  <2> HIDE DEF y
  <2>2. Good(y) /\ y.c.tcp # "none" /\ y.eof = x.eof
    BY <2>1 DEF Leads, Same
  <2>3. CASE x.eof /\ Reading(y)
    <3>1. z = EndOfStream(y) /\ Reading(y)
      BY <2>0, <2>3
    <3>2. Leads(y, z) /\ Listens(z)
      BY ONLY <2>1, <2>2, <3>1, EndOfStreamLeads
    <3>3. QED BY <2>1, <3>2, LeadsOn
  <2>4. CASE ~(x.eof /\ Reading(y))
    <3>1. z = y
      BY <2>0, <2>4
    <3>2. CASE Listens(y)
      BY <2>1, <3>1, <3>2
    <3>3. CASE y = x /\ x.in = 0
      <4>1. ~x.eof
        BY <1>2, <2>4, <3>3
      <4>2. x.c.tcp = "ok" => "Read" \notin Ready(x)
        BY <3>3, <4>1 DEF Ready
      <4>3. Listens(x)
        BY <4>2 DEF Listens, ListensBut, InCond
      <4>4. QED BY <2>1, <3>1, <3>3, <4>3
    <3>4. QED BY <2>1, <3>2, <3>3
  <2>5. QED BY <2>3, <2>4
<1>3. QED BY <1>1, <1>2

-----------------------------------------------------------------------------
(* The file event.                                                         *)

(* A connect that failed is closed by a posted task.                       *)
LEMMA ConnectFailedLeads ==
    ASSUME NEW x, Good(x), x.c.state # "Closed", x.c.tcp = "failed",
           NEW z, z = ConnectFailed(x)
    PROVE  /\ Leads(x, z) /\ ~z.c.connecting /\ z.c.accepted = x.c.accepted
           /\ \A R, W : ListensBut(z, R, W)
<1> DEFINE t == [type |-> "RemoteClose", cause |-> "refused"]
<1>0. DOMAIN x.c = Fields /\ x.c.posted \in Seq(Posted) /\ t \in Posted /\ t.cause # "drained"
  BY DEF Good, Sound, Typed, Posted, CloseEvents, Causes
<1>1. x = [c |-> x.c, out |-> x.out, in |-> x.in, gone |-> x.gone, eof |-> x.eof]
  BY DEF Good
<1>2. z = [x EXCEPT !.c.connecting = FALSE, !.c.failed = TRUE, !.c.writeReady = TRUE,
                    !.c.posted = Append(@, t)]
  BY DEF ConnectFailed
<1> HIDE DEF t
<1>3. /\ z.c = [x.c EXCEPT !.connecting = FALSE, !.failed = TRUE, !.writeReady = TRUE,
                           !.posted = Append(@, t)]
      /\ z = [c |-> z.c, out |-> x.out, in |-> x.in, gone |-> x.gone, eof |-> x.eof]
      /\ z.out = x.out /\ z.in = x.in /\ z.gone = x.gone /\ z.eof = x.eof
  BY ONLY <1>1, <1>2
<1>4. /\ DOMAIN z.c = Fields
      /\ z.c.failed = TRUE /\ z.c.connecting = FALSE /\ z.c.posted = Append(x.c.posted, t)
      /\ z.c.state = x.c.state /\ z.c.tcp = x.c.tcp
      /\ z.c.half = x.c.half /\ z.c.events = x.c.events /\ z.c.queued = x.c.queued
      /\ z.c.accepted = x.c.accepted /\ z.c.got = x.c.got /\ z.c.lost = x.c.lost
      /\ z.c.why = x.c.why /\ z.c.active = x.c.active /\ z.c.enabled = x.c.enabled
      /\ z.c.woken = x.c.woken /\ z.c.disabled = x.c.disabled
      /\ z.c.unreleased = x.c.unreleased /\ z.c.connectTimer = x.c.connectTimer
      /\ z.c.timer = x.c.timer /\ z.c.fin = x.c.fin
  <2>1. DOMAIN x.c = Fields
    BY ONLY <1>0
  <2>2. z.c = [x.c EXCEPT !.connecting = FALSE, !.failed = TRUE, !.writeReady = TRUE,
                          !.posted = Append(@, t)]
    BY ONLY <1>3
  <2>3. QED BY ONLY <2>1, <2>2 DEF Fields
<1>5. Typed(z.c)
  <2>1. z.c.posted \in Seq(Posted)
    BY ONLY <1>0, <1>4
  <2>2. QED BY <1>4, <2>1 DEF Good, Sound, Typed
<1>6. Asked(z.c)
  <2>1. /\ Len(z.c.posted) = Len(x.c.posted) + 1 /\ Len(x.c.posted) \in Nat
        /\ \A k \in 1..Len(x.c.posted) : z.c.posted[k] = x.c.posted[k]
        /\ z.c.posted[Len(x.c.posted) + 1] = t
    BY ONLY <1>0, <1>4
  <2>2. ASSUME NEW k \in 1..Len(z.c.posted), z.c.posted[k].cause = "drained"
        PROVE  z.c.half /\ z.c.queued = 0
    <3>1. k \in 1..Len(x.c.posted) \/ k = Len(x.c.posted) + 1
      BY ONLY <2>1, k \in 1..Len(z.c.posted)
    <3>2. CASE k \in 1..Len(x.c.posted)
      BY <1>4, <2>1, <2>2, <3>2 DEF Good, Sound, Asked
    <3>3. CASE k = Len(x.c.posted) + 1
      BY <1>0, <2>1, <2>2, <3>3
    <3>4. QED BY <3>1, <3>2, <3>3
  <2>3. QED BY <1>4, <2>2 DEF Good, Sound, Asked
<1>7. Told(z.c)
  BY <1>4 DEF Good, Sound, Told
<1>8. Over(z.c) /\ Trying(z.c)
  BY <1>4 DEF Good, Sound, Over, Trying, Released
<1>9. Early(z.c)
  BY <1>4 DEF Good, Sound, Early
<1>10. Good(z)
  BY <1>3, <1>5, <1>6, <1>7, <1>8, <1>9 DEF Good, Sound
<1>11. Same(x, z) /\ Deaf(x, z)
  BY <1>3, <1>4 DEF Same, Deaf
<1>12. Balanced(x, z)
  <2>1. x.out \in Nat /\ x.c.queued \in Nat /\ x.c.lost \in Nat /\ x.c.accepted \in Nat
    BY PairAssumption DEF Good, Sound, Typed
  <2>2. Back(z.c) => Back(x.c)
    BY <1>4 DEF Back
  <2>3. QED BY <2>1, <2>2, <1>3, <1>4 DEF Balanced
<1>13. ~InCond(z.c) /\ ~OutCond(z.c)
  BY <1>4 DEF InCond, OutCond
<1>14. QED BY <1>4, <1>10, <1>11, <1>12, <1>13 DEF Leads, ListensBut

(* A connect that succeeded: what was asked of the end meanwhile is undone. *)
Joined(x) ==
    [x EXCEPT !.c.connecting = FALSE, !.c.writeReady = TRUE, !.c.state = "Open",
              !.c.connectTimer = FALSE, !.c.events = Append(@, "Connected")]

LEMMA JoinedLeads ==
    ASSUME NEW x, Good(x), x.c.state \in {"Open", "Closing"}, x.c.tcp = "ok", x.c.connecting,
           "Write" \in x.c.enabled, NEW z, z = Joined(x)
    PROVE  /\ Leads(x, z) /\ ~z.c.connecting /\ z.c.accepted = x.c.accepted
           /\ z.c.tcp = "ok"
<1>0. DOMAIN x.c = Fields /\ x.c.events \in Seq(CloseEvents \cup {"Connected"})
      /\ "Connected" \notin CloseEvents /\ x.c.state # "Closed"
  BY DEF Good, Sound, Typed, CloseEvents
<1>1. x = [c |-> x.c, out |-> x.out, in |-> x.in, gone |-> x.gone, eof |-> x.eof]
  BY DEF Good
<1>2. z = [x EXCEPT !.c.connecting = FALSE, !.c.writeReady = TRUE, !.c.state = "Open",
              !.c.connectTimer = FALSE, !.c.events = Append(@, "Connected")]
  BY DEF Joined
<1>3. /\ z.c = [x.c EXCEPT !.connecting = FALSE, !.writeReady = TRUE, !.state = "Open",
                           !.connectTimer = FALSE, !.events = Append(@, "Connected")]
      /\ z = [c |-> z.c, out |-> x.out, in |-> x.in, gone |-> x.gone, eof |-> x.eof]
      /\ z.out = x.out /\ z.in = x.in /\ z.gone = x.gone /\ z.eof = x.eof
  BY ONLY <1>1, <1>2
<1>4. /\ DOMAIN z.c = Fields
      /\ z.c.connecting = FALSE /\ z.c.state = "Open" /\ z.c.connectTimer = FALSE
      /\ z.c.events = Append(x.c.events, "Connected")
      /\ z.c.posted = x.c.posted /\ z.c.tcp = x.c.tcp
      /\ z.c.half = x.c.half /\ z.c.queued = x.c.queued
      /\ z.c.accepted = x.c.accepted /\ z.c.got = x.c.got /\ z.c.lost = x.c.lost
      /\ z.c.why = x.c.why /\ z.c.active = x.c.active /\ z.c.enabled = x.c.enabled
      /\ z.c.woken = x.c.woken /\ z.c.disabled = x.c.disabled
      /\ z.c.unreleased = x.c.unreleased
      /\ z.c.timer = x.c.timer /\ z.c.fin = x.c.fin
  <2>1. DOMAIN x.c = Fields
    BY ONLY <1>0
  <2>2. z.c = [x.c EXCEPT !.connecting = FALSE, !.writeReady = TRUE, !.state = "Open",
                          !.connectTimer = FALSE, !.events = Append(@, "Connected")]
    BY ONLY <1>3
  <2>3. QED BY ONLY <2>1, <2>2 DEF Fields
<1>5. Typed(z.c)
  <2>1. z.c.events \in Seq(CloseEvents \cup {"Connected"})
    <3>1. "Connected" \in CloseEvents \cup {"Connected"}
      OBVIOUS
    <3>2. z.c.events = Append(x.c.events, "Connected")
      BY ONLY <1>4
    <3>3. QED BY ONLY <1>0, <3>1, <3>2
  <2>2. QED BY <1>4, <2>1 DEF Good, Sound, Typed
<1>6. Asked(z.c)
  BY <1>4 DEF Good, Sound, Asked
<1>7. Told(z.c)
  <2>1. \A i \in 1..Len(x.c.events) : x.c.events[i] \notin CloseEvents
    BY <1>0 DEF Good, Sound, Told
  <2>2. /\ Len(z.c.events) = Len(x.c.events) + 1 /\ Len(x.c.events) \in Nat
        /\ \A i \in 1..Len(x.c.events) : z.c.events[i] = x.c.events[i]
        /\ z.c.events[Len(x.c.events) + 1] = "Connected"
    <3>1. "Connected" \in CloseEvents \cup {"Connected"}
      OBVIOUS
    <3>2. z.c.events = Append(x.c.events, "Connected")
      BY ONLY <1>4
    <3>3. QED BY ONLY <1>0, <3>1, <3>2
  <2>3. ASSUME NEW i \in 1..Len(z.c.events)
        PROVE  z.c.events[i] \notin CloseEvents
    <3>1. i \in 1..Len(x.c.events) \/ i = Len(x.c.events) + 1
      BY ONLY <2>2, <2>3
    <3>2. QED BY ONLY <1>0, <2>1, <2>2, <3>1
  <2>4. QED BY ONLY <2>3 DEF Told
<1>8. Over(z.c) /\ Trying(z.c) /\ Early(z.c)
  BY <1>4 DEF Good, Sound, Over, Trying, Released, Early
<1>9. Good(z)
  BY <1>3, <1>5, <1>6, <1>7, <1>8 DEF Good, Sound
<1>10. Same(x, z) /\ Deaf(x, z)
  BY <1>3, <1>4 DEF Same, Deaf
<1>11. Balanced(x, z)
  <2>1. x.out \in Nat /\ x.c.queued \in Nat /\ x.c.lost \in Nat /\ x.c.accepted \in Nat
    BY PairAssumption DEF Good, Sound, Typed
  <2>2. Back(x.c)
    BY DEF Back
  <2>3. QED BY <2>1, <2>2, <1>3, <1>4 DEF Balanced
<1>12. QED BY <1>4, <1>9, <1>10, <1>11 DEF Leads

(* What is listened for when nothing of the end is closed.                 *)
Mask(c) == {"Read"} \cup (IF c.queued > 0 THEN {"Write"} ELSE {})

LEMMA EnabledLeads ==
    ASSUME NEW x, Good(x), ~x.c.connecting, x.c.tcp # "none", x.c.state # "Closed",
           NEW m, m \subseteq Bits, InCond(x.c) => "Read" \in m, OutCond(x.c) => "Write" \in m,
           NEW z, z = enableFileEvents(x, m)
    PROVE  Leads(x, z) /\ Listens(z) /\ z.c.accepted = x.c.accepted
<1>1. May(x.c, m)
  BY DEF May
<1>2. Leads(x, z)
  BY <1>1, EnableLeads
<1>3. Listens(z)
  BY EnableListens
<1>4. z.c.accepted = x.c.accepted
  <2>1. \A f \in Fields \ {"enabled", "woken"} : z.c[f] = x.c[f]
    BY EnableFields
  <2>2. QED BY ONLY <2>1 DEF Fields
<1>5. QED BY <1>2, <1>3, <1>4

LEMMA ConnectSucceededLeads ==
    ASSUME NEW x, Good(x), x.c.state \in {"Open", "Closing"}, x.c.tcp = "ok", x.c.connecting,
           "Write" \in x.c.enabled, NEW broken, NEW z, z = ConnectSucceeded(x, broken)
    PROVE  Leads(x, z) /\ Listens(z) /\ ~z.c.connecting /\ z.c.accepted = x.c.accepted
<1> DEFINE w == Joined(x)
<1> DEFINE y == doWrite(w, broken)
<1> DEFINE m == Mask(y.c)
<1>0. Good(x)
  OBVIOUS
<1>1. Leads(x, w) /\ ~w.c.connecting /\ w.c.accepted = x.c.accepted /\ w.c.tcp = "ok"
  BY JoinedLeads
<1>2. y = doWrite(w, broken)
  OBVIOUS
<1>3. (y.c.state = "Closed" => z = y) /\ (y.c.state # "Closed" => z = enableFileEvents(y, m))
  <2>1. z = ConnectSucceeded(x, broken)
    OBVIOUS
  <2>2. w = [x EXCEPT !.c.connecting = FALSE, !.c.writeReady = TRUE, !.c.state = "Open",
                      !.c.connectTimer = FALSE, !.c.events = Append(@, "Connected")]
    BY DEF Joined
  <2>3. m = {"Read"} \cup (IF y.c.queued > 0 THEN {"Write"} ELSE {})
    BY DEF Mask
  <2> HIDE DEF w, m
  <2>4. QED BY ONLY <2>1, <2>2, <2>3 DEF ConnectSucceeded
<1>4. "Read" \in m /\ m \subseteq Bits /\ (OutCond(y.c) => "Write" \in m)
  BY DEF Mask, Bits, OutCond
<1> HIDE DEF w, y, m
<1>5. Good(w) /\ w.c.tcp # "none" /\ ~w.c.connecting
  BY ONLY <1>1 DEF Leads
<1>6. Leads(w, y) /\ Listens(y) /\ y.c.accepted = w.c.accepted
  BY ONLY <1>2, <1>5, doWriteLeads
<1>7. Good(y) /\ ~y.c.connecting /\ y.c.tcp # "none"
  BY ONLY <1>5, <1>6 DEF Leads, Same
<1>8. Leads(x, y)
  BY ONLY <1>0, <1>1, <1>6, LeadsOn
<1>9. CASE y.c.state = "Closed"
  BY <1>1, <1>3, <1>6, <1>7, <1>8, <1>9
<1>10. CASE y.c.state # "Closed"
  <2>1. z = enableFileEvents(y, m)
    BY <1>3, <1>10
  <2>2. Leads(y, z) /\ Listens(z) /\ z.c.accepted = y.c.accepted
    BY ONLY <1>4, <1>7, <1>10, <2>1, EnabledLeads
  <2>3. Leads(x, z)
    BY ONLY <1>0, <1>8, <2>2, LeadsOn
  <2>4. ~z.c.connecting
    BY <1>7, <2>2 DEF Leads, Same
  <2>5. QED BY <1>1, <1>6, <2>2, <2>3, <2>4
<1>11. QED BY <1>9, <1>10

(* Two flags that are only noted.                                          *)
Marked(x) == [x EXCEPT !.c.writeReady = TRUE]
Tried(x) == [x EXCEPT !.c.written = TRUE]

LEMMA MarkedLeads ==
    ASSUME NEW x, Good(x), x.c.tcp # "none", ~x.c.connecting,
           NEW z, z = Marked(x) \/ z = Tried(x)
    PROVE  /\ Leads(x, z)
           /\ z.c.accepted = x.c.accepted /\ z.c.tcp = x.c.tcp /\ z.c.state = x.c.state
           /\ z.c.queued = x.c.queued /\ z.c.connecting = x.c.connecting
           /\ z.c.enabled = x.c.enabled /\ z.c.deferred = x.c.deferred
           /\ z.c.failed = x.c.failed /\ z.c.disabled = x.c.disabled
           /\ z.c.active = x.c.active /\ z.c.woken = x.c.woken
           /\ z.out = x.out /\ z.gone = x.gone /\ z.eof = x.eof /\ z.in = x.in
<1>0. DOMAIN x.c = Fields /\ x.c.active \subseteq Bits /\ x.c.got \in Nat
  BY DEF Good, Sound, Typed
<1>1. x = [c |-> x.c, out |-> x.out, in |-> x.in, gone |-> x.gone, eof |-> x.eof]
  BY DEF Good
<1>2. z = [x EXCEPT !.c.writeReady = TRUE] \/ z = [x EXCEPT !.c.written = TRUE]
  BY DEF Marked, Tried
<1>3. /\ z.c = [x.c EXCEPT !.writeReady = TRUE] \/ z.c = [x.c EXCEPT !.written = TRUE]
      /\ z.in = x.in
      /\ z = [c |-> z.c, out |-> x.out, in |-> z.in, gone |-> x.gone, eof |-> x.eof]
  BY ONLY <1>1, <1>2
<1>4. /\ DOMAIN z.c = Fields /\ \A f \in Fields \ Noted : z.c[f] = x.c[f]
      /\ z.c.active = x.c.active /\ z.c.got = x.c.got /\ z.c.disabled = x.c.disabled
      /\ z.c.connecting = x.c.connecting /\ z.c.woken = x.c.woken
  <2>1. DOMAIN x.c = Fields
    BY ONLY <1>0
  <2>2. z.c = [x.c EXCEPT !.writeReady = TRUE] \/ z.c = [x.c EXCEPT !.written = TRUE]
    BY ONLY <1>3
  <2>3. QED BY ONLY <2>1, <2>2 DEF Fields, Noted
<1>5. Trying(z.c)
  BY <1>4 DEF Trying
<1>6. /\ Good(x) /\ x.c.tcp # "none" /\ z.c.active \subseteq Bits
      /\ z.in \in {x.in, 0} /\ z.c.got \in Nat /\ z.c.got + z.in = x.c.got + x.in
  BY <1>0, <1>3, <1>4
<1>7. /\ Leads(x, z)
      /\ z.c.accepted = x.c.accepted /\ z.c.tcp = x.c.tcp /\ z.c.state = x.c.state
      /\ z.c.queued = x.c.queued /\ z.c.connecting = x.c.connecting
      /\ z.c.enabled = x.c.enabled /\ z.c.deferred = x.c.deferred
      /\ z.c.failed = x.c.failed /\ z.c.half = x.c.half /\ z.c.delayed = x.c.delayed
      /\ z.out = x.out /\ z.gone = x.gone /\ z.eof = x.eof
  BY ONLY <1>3, <1>4, <1>5, <1>6, NotedLeads
<1>8. QED BY ONLY <1>3, <1>4, <1>7

LEMMA FlushLeads ==
    ASSUME NEW x, Good(x), x.c.tcp # "none", ~x.c.connecting,
           NEW broken, NEW z, z = Flush(x, broken)
    PROVE  Leads(x, z) /\ Listens(z) /\ z.c.accepted = x.c.accepted
<1> DEFINE w == doWrite(x, broken)
<1> DEFINE y == Tried(w)
<1> DEFINE m == Interest(y)
<1>0. Good(x) /\ x.c.tcp # "none" /\ ~x.c.connecting
  OBVIOUS
<1>1. w = doWrite(x, broken)
  OBVIOUS
<1>2. z = IF y.c.state = "Closed" \/ y.c.deferred THEN y ELSE enableFileEvents(y, m)
  <2>1. z = Flush(x, broken)
    OBVIOUS
  <2>2. y = [doWrite(x, broken) EXCEPT !.c.written = TRUE]
    BY DEF Tried
  <2>3. m = Interest(y)
    OBVIOUS
  <2> HIDE DEF y, m
  <2>4. QED BY ONLY <2>1, <2>2, <2>3 DEF Flush
<1>3. /\ m \subseteq Bits
      /\ InCond(y.c) => "Read" \in m
      /\ OutCond(y.c) => "Write" \in m
  BY DEF Interest, Bits, InCond, OutCond
<1>4. y = Tried(w)
  OBVIOUS
<1> HIDE DEF w, y, m
<1>5. Leads(x, w) /\ w.c.accepted = x.c.accepted
  BY ONLY <1>0, <1>1, doWriteLeads
<1>6. Good(w) /\ w.c.tcp # "none" /\ ~w.c.connecting
  BY ONLY <1>0, <1>5 DEF Leads, Same
<1>7. Leads(w, y) /\ y.c.accepted = w.c.accepted
  BY ONLY <1>4, <1>6, MarkedLeads
<1>8. Good(y) /\ ~y.c.connecting /\ y.c.tcp # "none"
  BY ONLY <1>6, <1>7 DEF Leads, Same
<1>9. Leads(x, y)
  BY ONLY <1>0, <1>5, <1>7, LeadsOn
<1>10. CASE y.c.state = "Closed" \/ y.c.deferred
  BY <1>2, <1>5, <1>7, <1>9, <1>10, OwedNothing DEF Listens
<1>11. CASE y.c.state # "Closed" /\ ~y.c.deferred
  <2>1. z = enableFileEvents(y, m)
    BY <1>2, <1>11
  <2>2. Leads(y, z) /\ Listens(z) /\ z.c.accepted = y.c.accepted
    BY ONLY <1>3, <1>8, <1>11, <2>1, EnabledLeads
  <2>3. Leads(x, z)
    BY ONLY <1>0, <1>9, <2>2, LeadsOn
  <2>4. QED BY <1>5, <1>7, <2>2, <2>3
<1>12. QED BY <1>10, <1>11

(* Called for writing, it owes no more of it.                              *)
LEMMA onWriteReadyLeads ==
    ASSUME NEW x, Good(x), x.c.tcp # "none", x.c.state \in {"Open", "Closing"},
           x.c.connecting => x.c.tcp \in {"ok", "failed"} /\ "Write" \in x.c.enabled,
           NEW R, NEW W, ListensBut(x, R, W),
           NEW broken, NEW z, z = onWriteReady(x, broken)
    PROVE  /\ Leads(x, z) /\ ListensBut(z, R, FALSE)
           /\ ~z.c.connecting /\ z.c.accepted = x.c.accepted
<1>0. Good(x) /\ x.c.tcp # "none" /\ ListensBut(x, R, W) /\ z = onWriteReady(x, broken)
  OBVIOUS
<1>1. CASE x.c.connecting /\ x.c.tcp = "failed"
  <2>1. z = ConnectFailed(x)
    BY <1>1 DEF onWriteReady
  <2>2. x.c.state # "Closed"
    OBVIOUS
  <2>3. QED BY <1>1, <2>1, <2>2, ConnectFailedLeads
<1>2. CASE x.c.connecting /\ x.c.tcp = "ok"
  <2>1. z = ConnectSucceeded(x, broken)
    BY <1>2 DEF onWriteReady
  <2>2. QED BY <1>2, <2>1, ConnectSucceededLeads DEF Listens, ListensBut
<1>3. CASE ~x.c.connecting
  <2> DEFINE y == Marked(x)
  <2>1. /\ Leads(x, y)
        /\ y.c.accepted = x.c.accepted /\ y.c.tcp = x.c.tcp /\ y.c.state = x.c.state
        /\ y.c.queued = x.c.queued /\ y.c.connecting = x.c.connecting
        /\ y.c.enabled = x.c.enabled /\ y.c.deferred = x.c.deferred
        /\ y.c.failed = x.c.failed /\ y.c.disabled = x.c.disabled
        /\ y.c.active = x.c.active /\ y.c.woken = x.c.woken
        /\ y.out = x.out /\ y.gone = x.gone /\ y.eof = x.eof /\ y.in = x.in
    BY <1>3, MarkedLeads
  <2>2. z = IF y.c.queued = 0 /\ ~y.c.half /\ y.c.written THEN y ELSE Flush(y, broken)
    <3>1. y = [x EXCEPT !.c.writeReady = TRUE]
      BY DEF Marked
    <3> HIDE DEF y
    <3>2. QED BY ONLY <1>0, <1>3, <3>1 DEF onWriteReady
  <2> HIDE DEF y
  <2>3. Good(y) /\ y.c.tcp # "none" /\ ~y.c.connecting
    BY <1>3, <2>1 DEF Leads
  <2>4. CASE y.c.queued = 0 /\ z = y
    <3>1. ~OutCond(y.c)
      BY <2>4 DEF OutCond
    <3>2. InCond(y.c) => InCond(x.c)
      BY ONLY <2>1 DEF InCond
    <3>3. Ready(y) = Ready(x)
      BY ONLY <2>1 DEF Ready
    <3>4. ListensBut(y, R, FALSE)
      BY ONLY <1>0, <2>1, <3>1, <3>2, <3>3 DEF ListensBut
    <3>5. QED BY <2>1, <2>3, <2>4, <3>4
  <2>5. CASE z = Flush(y, broken)
    <3>1. Leads(y, z) /\ Listens(z) /\ z.c.accepted = y.c.accepted
      BY ONLY <2>3, <2>5, FlushLeads
    <3>2. Leads(x, z)
      BY ONLY <1>0, <2>1, <3>1, LeadsOn
    <3>3. ~z.c.connecting
      BY ONLY <2>3, <3>1 DEF Leads, Same
    <3>4. ListensBut(z, R, FALSE)
      BY ONLY <3>1 DEF Listens, ListensBut
    <3>5. QED BY <2>1, <3>1, <3>2, <3>3, <3>4
  <2>6. QED BY <2>2, <2>4, <2>5
<1>4. QED BY <1>1, <1>2, <1>3

(* A callback starts from an end that has been woken: what it was woken    *)
(* for is what it is called for.                                           *)
Quieted(x) == [x EXCEPT !.c.woken = FALSE, !.c.active = {}]
What(x) == (IF x.c.woken THEN Ready(x) \cap x.c.enabled ELSE {}) \cup x.c.active

LEMMA QuietedLeads ==
    ASSUME NEW x, Good(x), x.c.tcp # "none", NEW z, z = Quieted(x)
    PROVE  /\ Leads(x, z)
           /\ z.c.accepted = x.c.accepted /\ z.c.tcp = x.c.tcp /\ z.c.state = x.c.state
           /\ z.c.queued = x.c.queued /\ z.c.connecting = x.c.connecting
           /\ z.c.enabled = x.c.enabled /\ z.c.deferred = x.c.deferred
           /\ z.c.failed = x.c.failed /\ z.c.disabled = x.c.disabled
           /\ z.out = x.out /\ z.gone = x.gone /\ z.eof = x.eof /\ z.in = x.in
<1>0. DOMAIN x.c = Fields /\ x.c.got \in Nat
  BY DEF Good, Sound, Typed
<1>1. x = [c |-> x.c, out |-> x.out, in |-> x.in, gone |-> x.gone, eof |-> x.eof]
  BY DEF Good
<1>2. z = [x EXCEPT !.c.woken = FALSE, !.c.active = {}]
  BY DEF Quieted
<1>3. /\ z.c = [x.c EXCEPT !.woken = FALSE, !.active = {}]
      /\ z.in = x.in
      /\ z = [c |-> z.c, out |-> x.out, in |-> z.in, gone |-> x.gone, eof |-> x.eof]
  BY ONLY <1>1, <1>2
<1>4. /\ DOMAIN z.c = Fields /\ \A f \in Fields \ Noted : z.c[f] = x.c[f]
      /\ z.c.active = {} /\ z.c.got = x.c.got /\ z.c.disabled = x.c.disabled
      /\ z.c.connecting = x.c.connecting /\ z.c.writeReady = x.c.writeReady
      /\ z.c.failed = x.c.failed /\ z.c.enabled = x.c.enabled
      /\ z.c.queued = x.c.queued /\ z.c.state = x.c.state
      /\ z.c.accepted = x.c.accepted /\ z.c.tcp = x.c.tcp /\ z.c.deferred = x.c.deferred
  <2>1. DOMAIN x.c = Fields
    BY ONLY <1>0
  <2>2. z.c = [x.c EXCEPT !.woken = FALSE, !.active = {}]
    BY ONLY <1>3
  <2>3. QED BY ONLY <2>1, <2>2 DEF Fields, Noted
<1>5. Trying(z.c)
  BY <1>4 DEF Good, Sound, Trying
<1>6. /\ Good(x) /\ x.c.tcp # "none" /\ z.c.active \subseteq Bits
      /\ z.in \in {x.in, 0} /\ z.c.got \in Nat /\ z.c.got + z.in = x.c.got + x.in
  BY <1>0, <1>3, <1>4
<1>7. Leads(x, z)
  <2>1. /\ z = [c |-> z.c, out |-> x.out, in |-> z.in, gone |-> x.gone, eof |-> x.eof]
        /\ DOMAIN z.c = Fields /\ \A f \in Fields \ Noted : z.c[f] = x.c[f]
        /\ z.c.got = x.c.got
    BY ONLY <1>3, <1>4
  <2>2. QED BY ONLY <2>1, <1>5, <1>6, NotedLeads
<1>8. z.out = x.out /\ z.gone = x.gone /\ z.eof = x.eof
  BY ONLY <1>3
<1>9. QED BY ONLY <1>3, <1>4, <1>7, <1>8

LEMMA onFileEventLeads ==
    ASSUME NEW x, Good(x), x.c.tcp # "none", x.c.state \in {"Open", "Closing"}, Listens(x),
           NEW how \in Hows, how \in Replies => x.c.accepted < MaxBytes,
           NEW broken, NEW z, z = onFileEvent(Quieted(x), What(x), how, broken)
    PROVE  Leads(x, z) /\ Listens(z)
<1> DEFINE y == Quieted(x)
<1> DEFINE what == What(x)
<1> DEFINE R == "Read" \in what
<1> DEFINE W == "Write" \in what
<1>0. Good(x)
  OBVIOUS
<1>1. /\ Leads(x, y)
      /\ y.c.accepted = x.c.accepted /\ y.c.tcp = x.c.tcp /\ y.c.state = x.c.state
      /\ y.c.queued = x.c.queued /\ y.c.connecting = x.c.connecting
      /\ y.c.enabled = x.c.enabled /\ y.c.deferred = x.c.deferred
      /\ y.c.failed = x.c.failed /\ y.c.disabled = x.c.disabled
      /\ y.out = x.out /\ y.gone = x.gone /\ y.eof = x.eof /\ y.in = x.in
  BY QuietedLeads
<1>2. z = onFileEvent(y, what, how, broken)
  OBVIOUS
<1>3. ListensBut(y, R, W)
  <2>1. Ready(y) = Ready(x)
    BY ONLY <1>1 DEF Ready
  <2>2. InCond(y.c) => InCond(x.c)
    BY ONLY <1>1 DEF InCond
  <2>3. OutCond(y.c) => OutCond(x.c)
    BY ONLY <1>1 DEF OutCond
  <2>4. InCond(x.c) => "Read" \in x.c.enabled /\ ("Read" \in Ready(x) => R)
    BY DEF Listens, ListensBut, What
  <2>5. "Write" \in x.c.active => ~x.c.connecting
    BY DEF Good, Sound, Trying
  <2>6. OutCond(x.c) => "Write" \in x.c.enabled /\ ("Write" \in Ready(x) => W)
    BY DEF Listens, ListensBut, What
  <2> HIDE DEF y, what, R, W
  <2>7. QED BY ONLY <1>1, <2>1, <2>2, <2>3, <2>4, <2>6 DEF ListensBut
<1>4. x.c.connecting => /\ W => x.c.tcp \in {"ok", "failed"} /\ "Write" \in x.c.enabled
                        /\ R /\ ~W => x.c.state = "Closing" /\ "Write" \notin x.c.enabled
  <2>1. SUFFICES ASSUME x.c.connecting
                 PROVE  /\ W => x.c.tcp \in {"ok", "failed"} /\ "Write" \in x.c.enabled
                        /\ R => x.c.state = "Closing" /\ "Write" \notin x.c.enabled
    OBVIOUS
  <2>2. Trying(x.c)
    BY DEF Good, Sound
  <2>3. W => "Write" \in Ready(x) /\ "Write" \in x.c.enabled
    BY <2>1, <2>2 DEF Trying, What
  <2>4. "Write" \in Ready(x) => x.c.tcp \in {"ok", "failed"}
    BY DEF Ready
  <2>5. R => "Read" \in x.c.enabled \/ "Read" \in x.c.active
    BY DEF What
  <2> HIDE DEF R, W
  <2>6. R => x.c.state = "Closing" /\ "Write" \notin x.c.enabled
    BY <2>1, <2>2, <2>5 DEF Trying
  <2>7. QED BY <2>3, <2>4, <2>6
<1>5. Good(y) /\ y.c.tcp # "none" /\ y.c.state \in {"Open", "Closing"}
  BY <1>1 DEF Leads
<1> HIDE DEF y
<1>6. CASE y.c.failed
  <2>1. z = closeSocket(y, "RemoteClose", "refused")
    BY <1>2, <1>5, <1>6 DEF onFileEvent
  <2>2. "RemoteClose" \in CloseEvents /\ "refused" \in Causes /\ "refused" # "drained"
    BY DEF CloseEvents, Causes
  <2>3. Leads(y, z) /\ z.c.state = "Closed"
    BY ONLY <1>5, <2>1, <2>2, closeSocketLeads
  <2>4. Leads(x, z)
    BY ONLY <1>0, <1>1, <2>3, LeadsOn
  <2>5. QED BY <2>3, <2>4, OwedNothing DEF Listens
<1>7. CASE ~y.c.failed
  <2> DEFINE v == IF "Write" \in what THEN onWriteReady(y, broken) ELSE y
  <2>0. z = IF "Read" \in what /\ (v.c.state = "Open" \/ waitingForPeerClose(v))
            THEN doRead(v, how, broken) ELSE v
    <3> HIDE DEF what
    <3>1. y.c.state # "Closed"
      BY <1>5
    <3>2. QED BY ONLY <1>2, <1>7, <3>1 DEF onFileEvent
  <2>1. /\ Leads(y, v) /\ ListensBut(v, R, FALSE) /\ v.c.accepted = y.c.accepted
        /\ R => (v.c.connecting => v.c.state = "Closing" /\ "Write" \notin v.c.enabled)
    <3>1. CASE W
      <4>1. v = onWriteReady(y, broken)
        BY <3>1
      <4>2. y.c.connecting => y.c.tcp \in {"ok", "failed"} /\ "Write" \in y.c.enabled
        BY <1>1, <1>4, <3>1
      <4> HIDE DEF v, R, W
      <4>3. Leads(y, v) /\ ListensBut(v, R, FALSE) /\ ~v.c.connecting
            /\ v.c.accepted = y.c.accepted
        BY ONLY <1>3, <1>5, <4>1, <4>2, onWriteReadyLeads
      <4>4. QED BY <4>3
    <3>2. CASE ~W
      <4>1. v = y
        BY <3>2
      <4>2. Leads(y, y)
        BY <1>5, LeadsStays
      <4> HIDE DEF v, R, W
      <4>3. ListensBut(y, R, FALSE)
        BY ONLY <1>3, <3>2 DEF ListensBut
      <4>4. R => (y.c.connecting => y.c.state = "Closing" /\ "Write" \notin y.c.enabled)
        BY ONLY <1>1, <1>4, <3>2
      <4>5. QED BY ONLY <4>1, <4>2, <4>3, <4>4
    <3>3. QED BY <3>1, <3>2
  <2> HIDE DEF v
  <2>2. Good(v) /\ v.c.tcp # "none"
    BY ONLY <1>5, <2>1 DEF Leads, Same
  <2>3. Leads(x, v)
    BY ONLY <1>0, <1>1, <2>1, LeadsOn
  <2>4. how \in Hows /\ (how \in Replies => v.c.accepted < MaxBytes)
    BY <1>1, <2>1
  <2>5. CASE R /\ z = doRead(v, how, broken)
    <3>1. v.c.connecting => v.c.state = "Closing" /\ "Write" \notin v.c.enabled
      BY <2>1, <2>5
    <3> HIDE DEF R
    <3>2. ListensBut(v, R, FALSE) /\ z = doRead(v, how, broken)
      BY <2>1, <2>5
    <3>3. Leads(v, z) /\ Listens(z)
      BY ONLY <2>2, <2>4, <3>1, <3>2, doReadLeads
    <3>4. Leads(x, z)
      BY ONLY <1>0, <2>3, <3>3, LeadsOn
    <3>5. QED BY <3>3, <3>4
  <2>6. CASE z = v /\ (~R \/ v.c.state # "Open")
    <3> HIDE DEF R
    <3>1. Listens(v)
      BY ONLY <2>1, <2>6 DEF Listens, ListensBut, InCond
    <3>2. QED BY <2>3, <2>6, <3>1
  <2>7. QED BY <2>0, <2>5, <2>6
<1>8. QED BY <1>6, <1>7

-----------------------------------------------------------------------------
(* The two ends together.                                                  *)

(* A byte taken from one end's application is accounted for, as long as    *)
(* the other end reads.                                                    *)
Counted(e) ==
    Back(conn[Peer(e)]) =>
        conn[Peer(e)].got + pipe[e] + conn[e].queued + conn[e].lost = conn[e].accepted

(* The server's end does nothing before there is a client.                 *)
Before(c) ==
    /\ c.state = "Unborn" /\ c.posted = <<>> /\ ~c.timer /\ ~c.unreleased /\ ~c.disabled
    /\ c.got = 0 /\ c.accepted = 0 /\ c.queued = 0 /\ c.lost = 0

Born ==
    /\ conn[server].tcp = "ok" /\ ~conn[server].connecting /\ ~conn[server].connectTimer
    /\ conn[client].state # "Unborn"
    /\ conn[client].tcp = "ok" => conn[server].state # "Unborn"
    /\ conn[client].tcp # "ok" =>
          Before(conn[server]) /\ pipe[client] = 0 /\ pipe[server] = 0

PairInv ==
    /\ DOMAIN conn = Ends /\ DOMAIN pipe = Ends
    /\ \A e \in Ends : Sound(conn[e]) /\ pipe[e] \in 0..Room
    /\ \A e \in Ends : Listens(View(e))
    /\ \A e \in Ends : Counted(e)
    /\ Born

(* One end of the step ClosingIsDeaf is about.                             *)
Hushed(c, d) ==
    /\ c.half \/ c.state = "Closed" => d.accepted = c.accepted
    /\ c.state \in {"Closing", "Closed"} /\ ~c.connecting => d.got = c.got

LEMMA Peers ==
    ASSUME NEW e \in Ends
    PROVE  /\ Peer(e) \in Ends /\ Peer(e) # e /\ Peer(Peer(e)) = e
           /\ Ends = {e, Peer(e)}
           /\ (e = client <=> Peer(e) = server) /\ (e = server <=> Peer(e) = client)
BY PairAssumption DEF Peer, Ends

LEMMA ViewGood ==
    ASSUME PairInv, NEW e \in Ends
    PROVE  /\ Good(View(e)) /\ Listens(View(e)) /\ View(e).c = conn[e]
           /\ View(e).out = pipe[e] /\ View(e).in = pipe[Peer(e)]
           /\ View(e).gone = Released(conn[Peer(e)]) /\ View(e).eof = Ended(conn[Peer(e)])
<1>1. Peer(e) \in Ends
  BY Peers
<1>2. Sound(conn[e]) /\ pipe[e] \in 0..Room /\ pipe[Peer(e)] \in 0..Room
  BY <1>1 DEF PairInv
<1>3. Listens(View(e))
  BY DEF PairInv
<1>4. /\ View(e).c = conn[e]
      /\ View(e).out = pipe[e] /\ View(e).in = pipe[Peer(e)]
      /\ View(e).gone = Released(conn[Peer(e)]) /\ View(e).eof = Ended(conn[Peer(e)])
      /\ View(e) = [c |-> View(e).c, out |-> View(e).out, in |-> View(e).in,
                    gone |-> View(e).gone, eof |-> View(e).eof]
  BY DEF View
<1>5. Good(View(e))
  BY ONLY <1>2, <1>4 DEF Good
<1>6. QED BY ONLY <1>3, <1>4, <1>5

(* An end is told of what it listens for: room, bytes, or the other's end. *)
LEMMA HearingListens ==
    ASSUME NEW v, Listens(v), NEW w,
           \A f \in Fields \ {"woken"} : w.c[f] = v.c[f],
           v.in \in 0..Room, v.out \in 0..Room, w.in \in 0..Room, w.out \in 0..Room,
           w.c.woken <=> \/ v.c.woken
                         \/ "Read" \in v.c.enabled
                              /\ \/ w.gone /\ ~v.gone
                                 \/ w.eof /\ ~v.eof
                                 \/ w.in > v.in
                         \/ "Write" \in v.c.enabled /\ ((w.gone /\ ~v.gone) \/ w.out < v.out)
    PROVE  Listens(w)
<1>0. Room \in Nat
  BY PairAssumption
<1>1. /\ w.c.state = v.c.state /\ w.c.tcp = v.c.tcp /\ w.c.connecting = v.c.connecting
      /\ w.c.disabled = v.c.disabled /\ w.c.deferred = v.c.deferred
      /\ w.c.failed = v.c.failed /\ w.c.queued = v.c.queued /\ w.c.enabled = v.c.enabled
      /\ w.c.active = v.c.active
  <2>1. \A f \in Fields \ {"woken"} : w.c[f] = v.c[f]
    OBVIOUS
  <2>2. QED BY ONLY <2>1 DEF Fields
<1>2. (InCond(w.c) => InCond(v.c)) /\ (OutCond(w.c) => OutCond(v.c))
  BY ONLY <1>1 DEF InCond, OutCond
<1>3. v.c.tcp = "ok" /\ "Read" \in Ready(w) /\ "Read" \in v.c.enabled =>
        "Read" \in Ready(v) \/ w.c.woken
  BY <1>0, <1>1 DEF Ready
<1>4. v.c.tcp # "failed" /\ "Write" \in Ready(w) /\ "Write" \in v.c.enabled =>
        "Write" \in Ready(v) \/ w.c.woken
  BY <1>0, <1>1 DEF Ready
<1>5. v.c.woken => w.c.woken
  OBVIOUS
<1>6. Listens(v)
  OBVIOUS
<1>7. QED BY ONLY <1>1, <1>2, <1>3, <1>4, <1>5, <1>6 DEF Listens, ListensBut, InCond, OutCond

LEMMA GoodCounts ==
    ASSUME NEW x, Good(x)
    PROVE  /\ x.c.queued \in Nat /\ x.c.lost \in Nat /\ x.c.accepted \in Nat
           /\ x.c.got \in Nat /\ x.out \in Nat /\ x.in \in Nat
BY PairAssumption DEF Good, Sound, Typed

(* Bytes that are moved on are still accounted for.                        *)
LEMMA Carries ==
    ASSUME NEW g \in Nat, NEW o \in Nat, NEW q \in Nat, NEW l \in Nat, NEW a \in Nat,
           NEW oo \in Nat, NEW qq \in Nat, NEW ll \in Nat, NEW aa \in Nat,
           g + o + q + l = a, oo + qq + ll + a = o + q + l + aa
    PROVE  g + oo + qq + ll = aa
OBVIOUS

(* What a step of one end does to both: the other only hears of it.        *)
Moves(e, z) ==
    LET p == Peer(e) IN
    /\ DOMAIN conn' = Ends /\ DOMAIN pipe' = Ends
    /\ conn'[e] = z.c /\ pipe'[e] = z.out /\ pipe'[p] = z.in
    /\ DOMAIN conn'[p] = Fields
    /\ conn'[p].woken <=> conn[p].woken \/ Hears(p, z)
    /\ \A f \in Fields \ {"woken"} : conn'[p][f] = conn[p][f]

LEMMA MovesKeeps ==
    ASSUME PairInv, NEW e \in Ends, e = server => conn[client].tcp = "ok",
           NEW z, Leads(View(e), z), Listens(z), Moves(e, z)
    PROVE  PairInv' /\ \A d \in Ends : Hushed(conn[d], conn'[d])
<1> DEFINE p == Peer(e)
<1> DEFINE x == View(e)
<1>p. p \in Ends /\ p # e /\ Peer(p) = e /\ Ends = {e, p}
      /\ (e = client <=> p = server) /\ (e = server <=> p = client)
  BY Peers
<1>x. /\ Good(x) /\ Listens(x) /\ x.c = conn[e] /\ x.out = pipe[e] /\ x.in = pipe[p]
      /\ x.gone = Released(conn[p]) /\ x.eof = Ended(conn[p])
  BY ViewGood
<1>v. /\ Good(View(p)) /\ Listens(View(p)) /\ View(p).c = conn[p]
      /\ View(p).out = pipe[p] /\ View(p).in = pipe[e]
      /\ View(p).gone = Released(conn[e]) /\ View(p).eof = Ended(conn[e])
  BY ONLY <1>p, ViewGood, PairInv
<1>l. Leads(x, z) /\ Listens(z)
  OBVIOUS
<1>b. Moves(e, z)
  OBVIOUS
<1>1. /\ DOMAIN conn' = Ends /\ DOMAIN pipe' = Ends
      /\ conn'[e] = z.c /\ pipe'[e] = z.out /\ pipe'[p] = z.in
  BY ONLY <1>b DEF Moves, p
<1>2. Good(z)
  BY ONLY <1>l DEF Leads
<1>4. /\ DOMAIN conn'[p] = Fields
      /\ conn'[p].woken <=> conn[p].woken \/ Hears(p, z)
      /\ \A f \in Fields \ {"woken"} : conn'[p][f] = conn[p][f]
  BY ONLY <1>b DEF Moves, p
<1> HIDE DEF p, x
<1>5. /\ conn'[p].state = conn[p].state /\ conn'[p].connecting = conn[p].connecting
      /\ conn'[p].tcp = conn[p].tcp /\ conn'[p].connectTimer = conn[p].connectTimer
      /\ conn'[p].unreleased = conn[p].unreleased /\ conn'[p].half = conn[p].half
      /\ conn'[p].timer = conn[p].timer /\ conn'[p].disabled = conn[p].disabled
      /\ conn'[p].queued = conn[p].queued /\ conn'[p].enabled = conn[p].enabled
      /\ conn'[p].active = conn[p].active /\ conn'[p].fin = conn[p].fin
      /\ conn'[p].writeReady = conn[p].writeReady /\ conn'[p].failed = conn[p].failed
      /\ conn'[p].posted = conn[p].posted /\ conn'[p].events = conn[p].events
      /\ conn'[p].accepted = conn[p].accepted /\ conn'[p].got = conn[p].got
      /\ conn'[p].lost = conn[p].lost /\ conn'[p].why = conn[p].why
  BY ONLY <1>4 DEF Fields
<1>6. Sound(conn'[p])
  <2>1. Sound(conn[p])
    BY <1>v DEF Good
  <2>2. conn[p].enabled = {} => ~Hears(p, z)
    BY DEF Hears
  <2>3. Typed(conn'[p]) /\ Asked(conn'[p]) /\ Told(conn'[p])
    BY ONLY <1>4, <1>5, <2>1 DEF Sound, Typed, Asked, Told
  <2>4. Over(conn'[p]) /\ Trying(conn'[p])
    BY ONLY <1>5, <2>1 DEF Sound, Over, Trying, Released
  <2>5. Early(conn'[p])
    BY ONLY <1>4, <1>5, <2>1, <2>2 DEF Sound, Early
  <2>6. QED BY ONLY <2>3, <2>4, <2>5 DEF Sound
<1>7. Sound(conn'[e])
  BY ONLY <1>1, <1>2 DEF Good
<1>8. pipe'[e] \in 0..Room /\ pipe'[p] \in 0..Room
  BY ONLY <1>1, <1>2 DEF Good
<1>9. Released(conn'[p]) = Released(conn[p]) /\ Ended(conn'[p]) = Ended(conn[p])
  BY ONLY <1>5 DEF Released, Ended
<1>10. Listens(View(e)')
  <2>1. View(e)' = [c |-> z.c, out |-> z.out, in |-> z.in,
                    gone |-> Released(conn'[p]), eof |-> Ended(conn'[p])]
    BY <1>1 DEF View, p
  <2>2. z.gone = Released(conn[p]) /\ z.eof = Ended(conn[p])
    BY ONLY <1>l, <1>x DEF Leads, Same
  <2>3. View(e)' = z
    BY ONLY <1>2, <1>9, <2>1, <2>2 DEF Good
  <2>4. QED BY ONLY <1>l, <2>3
<1>11. Listens(View(p)')
  <2> DEFINE w == [c |-> conn'[p], out |-> z.in, in |-> z.out,
                   gone |-> Released(z.c), eof |-> Ended(z.c)]
  <2> DEFINE v == View(p)
  <2>1. View(p)' = w
    BY ONLY <1>1, <1>p DEF View
  <2>2. /\ w.c = conn'[p] /\ w.out = z.in /\ w.in = z.out
        /\ w.gone = Released(z.c) /\ w.eof = Ended(z.c)
    OBVIOUS
  <2>3. v.c = conn[p] /\ v.out = pipe[p] /\ v.in = pipe[e] /\ Listens(v)
        /\ v.gone = Released(conn[e]) /\ v.eof = Ended(conn[e])
        /\ v.out \in 0..Room /\ v.in \in 0..Room
    BY <1>v DEF Good
  <2>4. Hears(p, z) = (\/ "Read" \in conn[p].enabled
                          /\ \/ Released(z.c) /\ ~Released(conn[e])
                             \/ Ended(z.c) /\ ~Ended(conn[e])
                             \/ z.out > pipe[e]
                       \/ "Write" \in conn[p].enabled
                          /\ ((Released(z.c) /\ ~Released(conn[e])) \/ z.in < pipe[p]))
    BY <1>p DEF Hears
  <2> HIDE DEF v, w
  <2>5. w.c.woken <=> \/ v.c.woken
                      \/ "Read" \in v.c.enabled
                           /\ \/ w.gone /\ ~v.gone
                              \/ w.eof /\ ~v.eof
                              \/ w.in > v.in
                      \/ "Write" \in v.c.enabled /\ ((w.gone /\ ~v.gone) \/ w.out < v.out)
    BY ONLY <1>4, <2>2, <2>3, <2>4
  <2>6. /\ \A f \in Fields \ {"woken"} : w.c[f] = v.c[f]
        /\ w.in \in 0..Room /\ w.out \in 0..Room
    BY ONLY <1>2, <1>4, <2>2, <2>3 DEF Good
  <2>7. Listens(w)
    BY ONLY <2>3, <2>5, <2>6, HearingListens
  <2>8. QED BY ONLY <2>1, <2>7
<1>12. /\ conn[e].queued \in Nat /\ conn[e].lost \in Nat /\ conn[e].accepted \in Nat
       /\ conn[e].got \in Nat /\ pipe[e] \in Nat /\ pipe[p] \in Nat
       /\ conn[p].queued \in Nat /\ conn[p].lost \in Nat /\ conn[p].accepted \in Nat
       /\ conn[p].got \in Nat
       /\ z.c.queued \in Nat /\ z.c.lost \in Nat /\ z.c.accepted \in Nat
       /\ z.c.got \in Nat /\ z.out \in Nat /\ z.in \in Nat
  <2>1. Good(z)
    BY ONLY <1>2
  <2>2. /\ z.c.queued \in Nat /\ z.c.lost \in Nat /\ z.c.accepted \in Nat
        /\ z.c.got \in Nat /\ z.out \in Nat /\ z.in \in Nat
    BY ONLY <2>1, GoodCounts
  <2>3. Good(x)
    BY ONLY <1>x
  <2>4. /\ x.c.queued \in Nat /\ x.c.lost \in Nat /\ x.c.accepted \in Nat
        /\ x.c.got \in Nat /\ x.out \in Nat /\ x.in \in Nat
    BY ONLY <2>3, GoodCounts
  <2> DEFINE v == View(p)
  <2>5. Good(v) /\ v.c = conn[p]
    BY ONLY <1>v
  <2> HIDE DEF v
  <2>6. v.c.queued \in Nat /\ v.c.lost \in Nat /\ v.c.accepted \in Nat /\ v.c.got \in Nat
    BY ONLY <2>5, GoodCounts
  <2>7. QED BY ONLY <1>x, <2>2, <2>4, <2>5, <2>6
<1>13. Counted(e)'
  <2>1. Counted(e)
    BY DEF PairInv
  <2>2. SUFFICES ASSUME Back(conn'[p])
                 PROVE  conn'[p].got + pipe'[e] + conn'[e].queued + conn'[e].lost
                          = conn'[e].accepted
    BY DEF Counted, p
  <2>3. Back(conn[p]) /\ ~Released(conn[p])
    BY ONLY <1>5, <2>2 DEF Back, Released
  <2>4. conn[p].got + pipe[e] + conn[e].queued + conn[e].lost = conn[e].accepted
    BY <2>1, <2>3 DEF Counted, p
  <2>5. z.out + z.c.queued + z.c.lost + conn[e].accepted
          = pipe[e] + conn[e].queued + conn[e].lost + z.c.accepted
    BY ONLY <1>l, <1>x, <2>3 DEF Leads, Balanced
  <2>6. conn[p].got + z.out + z.c.queued + z.c.lost = z.c.accepted
    <3>1. /\ conn[p].got \in Nat /\ pipe[e] \in Nat /\ conn[e].queued \in Nat
          /\ conn[e].lost \in Nat /\ conn[e].accepted \in Nat
          /\ z.out \in Nat /\ z.c.queued \in Nat /\ z.c.lost \in Nat /\ z.c.accepted \in Nat
      BY ONLY <1>12
    <3> DEFINE g == conn[p].got
               o == pipe[e]
               q == conn[e].queued
               l == conn[e].lost
               a == conn[e].accepted
               oo == z.out
               qq == z.c.queued
               ll == z.c.lost
               aa == z.c.accepted
    <3>2. /\ g \in Nat /\ o \in Nat /\ q \in Nat /\ l \in Nat /\ a \in Nat
          /\ oo \in Nat /\ qq \in Nat /\ ll \in Nat /\ aa \in Nat
      BY ONLY <3>1
    <3>3. g + o + q + l = a
      BY ONLY <2>4
    <3>4. oo + qq + ll + a = o + q + l + aa
      BY ONLY <2>5
    <3> HIDE DEF g, o, q, l, a, oo, qq, ll, aa
    <3>5. g + oo + qq + ll = aa
      BY ONLY <3>2, <3>3, <3>4, Carries
    <3>6. QED BY ONLY <3>5 DEF g, oo, qq, ll, aa
  <2>7. QED BY ONLY <1>1, <1>5, <2>6
<1>14. Counted(p)'
  <2>1. Back(conn[e]) => conn[e].got + pipe[p] + conn[p].queued + conn[p].lost
                           = conn[p].accepted
    BY <1>p DEF PairInv, Counted
  <2>2. SUFFICES ASSUME Back(conn'[e])
                 PROVE  conn'[e].got + pipe'[p] + conn'[p].queued + conn'[p].lost
                          = conn'[p].accepted
    BY <1>p DEF Counted
  <2>3. Back(conn[e]) /\ z.c.got + z.in = conn[e].got + pipe[p]
    BY ONLY <1>1, <1>l, <1>x, <2>2 DEF Leads, Balanced
  <2>4. z.c.got + z.in + conn[p].queued + conn[p].lost = conn[p].accepted
    BY ONLY <1>12, <2>1, <2>3
  <2>5. QED BY ONLY <1>1, <1>5, <2>4
<1>15. /\ z.c.tcp = conn[e].tcp
       /\ z.c.connecting => conn[e].connecting
       /\ z.c.connectTimer => conn[e].connectTimer
       /\ z.c.state = "Unborn" => conn[e].state = "Unborn"
       /\ z.in \in {pipe[p], 0}
  BY ONLY <1>l, <1>x DEF Leads, Same
<1>16. Born'
  <2>0. Born
    BY DEF PairInv
  <2>1. CASE e = client
    <3>1. p = server
      BY <1>p, <2>1
    <3>2. conn[client].tcp # "ok" => z.out = 0 /\ z.in = 0
      <4>1. SUFFICES ASSUME conn[client].tcp # "ok" PROVE z.out = 0 /\ z.in = 0
        OBVIOUS
      <4>2. pipe[e] = 0 /\ pipe[p] = 0 /\ conn[p].state = "Unborn"
        BY <2>0, <2>1, <3>1, <4>1 DEF Born, Before
      <4>3. ~x.gone
        BY <1>x, <4>2 DEF Released
      <4>4. z.out = x.out
        BY <1>l, <1>x, <2>1, <4>1, <4>3 DEF Leads, Balanced
      <4>5. QED BY <1>15, <1>x, <4>2, <4>4
    <3>3. Before(conn[p]) => Before(conn'[p])
      BY ONLY <1>5 DEF Before
    <3>4. /\ conn'[server].tcp = conn[server].tcp
          /\ conn'[server].connecting = conn[server].connecting
          /\ conn'[server].connectTimer = conn[server].connectTimer
          /\ conn'[server].state = conn[server].state
          /\ Before(conn[server]) => Before(conn'[server])
      BY ONLY <1>5, <3>1, <3>3
    <3>5. /\ conn'[client].tcp = conn[client].tcp
          /\ conn'[client].state = "Unborn" => conn[client].state = "Unborn"
          /\ conn[client].tcp # "ok" => pipe'[client] = 0 /\ pipe'[server] = 0
      BY ONLY <1>1, <1>15, <2>1, <3>1, <3>2
    <3>6. QED BY ONLY <2>0, <3>4, <3>5 DEF Born
  <2>2. CASE e = server
    <3>1. p = client /\ conn[client].tcp = "ok"
      BY <1>p, <2>2
    <3>2. QED BY ONLY <1>1, <1>5, <1>15, <2>0, <2>2, <3>1 DEF Born
  <2>3. QED BY <2>1, <2>2 DEF Ends
<1>17. PairInv'
  BY ONLY <1>p, <1>1, <1>6, <1>7, <1>8, <1>10, <1>11, <1>13, <1>14, <1>16 DEF PairInv
<1>18. Hushed(conn[e], conn'[e])
  BY ONLY <1>1, <1>l, <1>x DEF Leads, Deaf, Hushed
<1>19. Hushed(conn[p], conn'[p])
  BY ONLY <1>5 DEF Hushed
<1>20. QED BY ONLY <1>p, <1>17, <1>18, <1>19

LEMMA BecomesKeeps ==
    ASSUME PairInv, NEW e \in Ends, e = server => conn[client].tcp = "ok",
           NEW z, Leads(View(e), z), Listens(z), Becomes(e, z)
    PROVE  PairInv' /\ \A d \in Ends : Hushed(conn[d], conn'[d])
<1> DEFINE p == Peer(e)
<1>1. p \in Ends /\ p # e
  BY Peers
<1>2. DOMAIN conn = Ends /\ DOMAIN pipe = Ends /\ DOMAIN conn[p] = Fields
  BY <1>1 DEF PairInv, Sound, Typed
<1>3. /\ conn' = [conn EXCEPT ![e] = z.c, ![p].woken = @ \/ Hears(p, z)]
      /\ pipe' = [pipe EXCEPT ![e] = z.out, ![p] = z.in]
  BY DEF Becomes
<1>4. e \in Ends /\ "woken" \in Fields
  BY DEF Fields
<1> HIDE DEF p
<1>5. /\ DOMAIN conn' = Ends /\ DOMAIN pipe' = Ends
      /\ conn'[e] = z.c /\ conn'[p] = [conn[p] EXCEPT !.woken = @ \/ Hears(p, z)]
      /\ pipe'[e] = z.out /\ pipe'[p] = z.in
  BY ONLY <1>1, <1>2, <1>3, <1>4
<1>6. /\ DOMAIN conn'[p] = Fields
      /\ conn'[p].woken = (conn[p].woken \/ Hears(p, z))
      /\ \A f \in Fields \ {"woken"} : conn'[p][f] = conn[p][f]
  BY ONLY <1>2, <1>4, <1>5
<1>7. Moves(e, z)
  BY ONLY <1>5, <1>6 DEF Moves, p
<1>8. QED BY <1>7, MovesKeeps

-----------------------------------------------------------------------------
(* The steps of the loops, of the kernel and of the application.           *)

Aside == {"posted", "timer", "fin"}

(* Steps on what neither reads nor writes.                                 *)
LEMMA AsideLeads ==
    ASSUME NEW x, Good(x),
           NEW z,
           z = [c |-> z.c, out |-> x.out, in |-> x.in, gone |-> x.gone, eof |-> x.eof],
           DOMAIN z.c = Fields,
           \A f \in Fields \ Aside : z.c[f] = x.c[f],
           z.c.posted \in Seq(Posted), Asked(z.c),
           z.c.timer => x.c.timer, z.c.fin => x.c.tcp = "ok"
    PROVE  /\ Leads(x, z)
           /\ Listens(x) => Listens(z)
           /\ z.c.queued = x.c.queued /\ z.c.state = x.c.state
<1>1. z.out = x.out /\ z.in = x.in /\ z.gone = x.gone /\ z.eof = x.eof
  <2>1. z = [c |-> z.c, out |-> x.out, in |-> x.in, gone |-> x.gone, eof |-> x.eof]
    OBVIOUS
  <2>2. QED BY ONLY <2>1
<1>2. /\ z.c.state = x.c.state /\ z.c.tcp = x.c.tcp /\ z.c.connecting = x.c.connecting
      /\ z.c.half = x.c.half /\ z.c.events = x.c.events /\ z.c.disabled = x.c.disabled
      /\ z.c.queued = x.c.queued /\ z.c.accepted = x.c.accepted /\ z.c.got = x.c.got
      /\ z.c.lost = x.c.lost /\ z.c.why = x.c.why /\ z.c.enabled = x.c.enabled
      /\ z.c.active = x.c.active /\ z.c.woken = x.c.woken
      /\ z.c.unreleased = x.c.unreleased /\ z.c.deferred = x.c.deferred
      /\ z.c.connectTimer = x.c.connectTimer /\ z.c.writeReady = x.c.writeReady
      /\ z.c.failed = x.c.failed
  <2>1. \A f \in Fields \ Aside : z.c[f] = x.c[f]
    OBVIOUS
  <2>2. QED BY ONLY <2>1 DEF Fields, Aside
<1>3. Typed(z.c)
  BY <1>2 DEF Good, Sound, Typed
<1>4. Told(z.c)
  BY <1>2 DEF Good, Sound, Told
<1>5. Over(z.c) /\ Early(z.c)
  BY <1>2 DEF Good, Sound, Over, Early, Released
<1>6. Trying(z.c)
  BY <1>2 DEF Good, Sound, Trying
<1>7. Good(z)
  <2>1. z = [c |-> z.c, out |-> z.out, in |-> z.in, gone |-> z.gone, eof |-> z.eof]
    BY <1>1
  <2>2. z.out \in 0..Room /\ z.in \in 0..Room
    BY <1>1 DEF Good
  <2>3. Sound(z.c)
    BY <1>3, <1>4, <1>5, <1>6 DEF Sound
  <2>4. QED BY ONLY <2>1, <2>2, <2>3 DEF Good
<1>8. Same(x, z) /\ Deaf(x, z)
  BY ONLY <1>1, <1>2 DEF Same, Deaf
<1>9. Balanced(x, z)
  <2>1. Back(z.c) => Back(x.c)
    BY ONLY <1>2 DEF Back
  <2>2. QED BY ONLY <1>1, <1>2, <2>1 DEF Balanced
<1>10. Listens(x) => Listens(z)
  <2>1. InCond(z.c) <=> InCond(x.c)
    BY ONLY <1>2 DEF InCond
  <2>2. OutCond(z.c) <=> OutCond(x.c)
    BY ONLY <1>2 DEF OutCond
  <2>3. Ready(z) = Ready(x)
    BY ONLY <1>1, <1>2 DEF Ready
  <2>4. QED BY ONLY <1>2, <2>1, <2>2, <2>3 DEF Listens, ListensBut
<1>11. QED BY ONLY <1>2, <1>7, <1>8, <1>9, <1>10 DEF Leads

NextPosted(x) == [x EXCEPT !.c.posted = Tail(@)]
TimerFired(x) == [x EXCEPT !.c.timer = FALSE]
Shut(x) == [x EXCEPT !.c.fin = TRUE]

LEMMA NextPostedLeads ==
    ASSUME NEW x, Good(x), x.c.posted # <<>>, NEW z, z = NextPosted(x)
    PROVE  /\ Leads(x, z) /\ (Listens(x) => Listens(z))
           /\ Head(x.c.posted).type \in CloseEvents /\ Head(x.c.posted).cause \in Causes
           /\ Head(x.c.posted).cause = "drained" => z.c.queued = 0
<1>0. DOMAIN x.c = Fields /\ x.c.posted \in Seq(Posted)
  BY DEF Good, Sound, Typed
<1>1. x = [c |-> x.c, out |-> x.out, in |-> x.in, gone |-> x.gone, eof |-> x.eof]
  BY DEF Good
<1>2. z = [x EXCEPT !.c.posted = Tail(@)]
  BY DEF NextPosted
<1>3. /\ z.c = [x.c EXCEPT !.posted = Tail(@)]
      /\ z = [c |-> z.c, out |-> x.out, in |-> x.in, gone |-> x.gone, eof |-> x.eof]
  BY ONLY <1>1, <1>2
<1>4. /\ DOMAIN z.c = Fields /\ \A f \in Fields \ Aside : z.c[f] = x.c[f]
      /\ z.c.posted = Tail(x.c.posted) /\ z.c.timer = x.c.timer /\ z.c.fin = x.c.fin
      /\ z.c.state = x.c.state /\ z.c.half = x.c.half /\ z.c.queued = x.c.queued
  <2>1. DOMAIN x.c = Fields
    BY ONLY <1>0
  <2>2. z.c = [x.c EXCEPT !.posted = Tail(@)]
    BY ONLY <1>3
  <2>3. QED BY ONLY <2>1, <2>2 DEF Fields, Aside
<1>5. /\ z.c.posted \in Seq(Posted) /\ Len(z.c.posted) = Len(x.c.posted) - 1
      /\ Len(x.c.posted) \in Nat \ {0}
      /\ \A k \in 1..Len(z.c.posted) : z.c.posted[k] = x.c.posted[k + 1]
      /\ Head(x.c.posted) = x.c.posted[1] /\ Head(x.c.posted) \in Posted
  <2>1. x.c.posted # <<>>
    OBVIOUS
  <2>2. QED BY ONLY <1>0, <1>4, <2>1
<1>6. \A k \in 1..Len(x.c.posted) :
         x.c.posted[k].cause = "drained" => x.c.half /\ x.c.queued = 0
  BY DEF Good, Sound, Asked
<1>7. Asked(z.c)
  <2>1. \A k \in 1..Len(z.c.posted) : k + 1 \in 1..Len(x.c.posted)
    BY ONLY <1>5
  <2>2. x.c.state = "Closing" => x.c.half
    BY DEF Good, Sound, Asked
  <2>3. QED BY ONLY <1>4, <1>5, <1>6, <2>1, <2>2 DEF Asked
<1>8. Good(x) /\ (z.c.timer => x.c.timer) /\ (z.c.fin => x.c.tcp = "ok")
  BY <1>4 DEF Good, Sound, Early
<1>9. /\ Leads(x, z) /\ (Listens(x) => Listens(z))
      /\ z.c.queued = x.c.queued /\ z.c.state = x.c.state
  BY ONLY <1>3, <1>4, <1>5, <1>7, <1>8, AsideLeads
<1>10. 1 \in 1..Len(x.c.posted)
  BY ONLY <1>5
<1>11. Head(x.c.posted).type \in CloseEvents /\ Head(x.c.posted).cause \in Causes
  BY ONLY <1>5 DEF Posted
<1>12. QED BY ONLY <1>5, <1>6, <1>9, <1>10, <1>11

LEMMA FiredLeads ==
    ASSUME NEW x, Good(x), NEW z,
           z = TimerFired(x) \/ (z = Shut(x) /\ x.c.tcp = "ok")
    PROVE  Leads(x, z) /\ (Listens(x) => Listens(z))
<1>0. DOMAIN x.c = Fields /\ x.c.posted \in Seq(Posted) /\ Asked(x.c)
      /\ (x.c.fin => x.c.tcp = "ok")
  BY DEF Good, Sound, Typed, Early
<1>1. x = [c |-> x.c, out |-> x.out, in |-> x.in, gone |-> x.gone, eof |-> x.eof]
  BY DEF Good
<1>2. \/ z = [x EXCEPT !.c.timer = FALSE]
      \/ z = [x EXCEPT !.c.fin = TRUE] /\ x.c.tcp = "ok"
  BY DEF TimerFired, Shut
<1>3. /\ \/ z.c = [x.c EXCEPT !.timer = FALSE]
         \/ z.c = [x.c EXCEPT !.fin = TRUE] /\ x.c.tcp = "ok"
      /\ z = [c |-> z.c, out |-> x.out, in |-> x.in, gone |-> x.gone, eof |-> x.eof]
  BY ONLY <1>1, <1>2
<1>4. /\ DOMAIN z.c = Fields /\ \A f \in Fields \ Aside : z.c[f] = x.c[f]
      /\ z.c.posted = x.c.posted /\ (z.c.timer => x.c.timer)
      /\ z.c.fin => x.c.fin \/ x.c.tcp = "ok"
      /\ z.c.state = x.c.state /\ z.c.half = x.c.half /\ z.c.queued = x.c.queued
  <2>1. DOMAIN x.c = Fields
    BY ONLY <1>0
  <2>2. \/ z.c = [x.c EXCEPT !.timer = FALSE]
        \/ z.c = [x.c EXCEPT !.fin = TRUE] /\ x.c.tcp = "ok"
    BY ONLY <1>3
  <2>3. QED BY ONLY <2>1, <2>2 DEF Fields, Aside
<1>5. Asked(z.c)
  BY ONLY <1>0, <1>4 DEF Asked
<1>6. Good(x) /\ z.c.posted \in Seq(Posted) /\ (z.c.fin => x.c.tcp = "ok")
  BY <1>0, <1>4
<1>7. /\ Leads(x, z) /\ (Listens(x) => Listens(z))
      /\ z.c.queued = x.c.queued /\ z.c.state = x.c.state
  BY ONLY <1>3, <1>4, <1>5, <1>6, AsideLeads
<1>8. QED BY ONLY <1>7

Gone(x) ==
    [x EXCEPT !.c.unreleased = FALSE, !.c.enabled = {}, !.c.woken = FALSE,
              !.c.active = {}, !.c.timer = FALSE, !.c.posted = <<>>,
              !.c.queued = 0, !.c.lost = @ + x.c.queued]

LEMMA GoneLeads ==
    ASSUME NEW x, Good(x), x.c.unreleased, NEW z, z = Gone(x)
    PROVE  Leads(x, z) /\ Listens(z)
<1>0. DOMAIN x.c = Fields /\ x.c.queued \in Nat /\ x.c.lost \in Nat /\ x.c.state = "Closed"
  BY DEF Good, Sound, Typed, Over
<1>1. x = [c |-> x.c, out |-> x.out, in |-> x.in, gone |-> x.gone, eof |-> x.eof]
  BY DEF Good
<1>g. z = Gone(x)
  OBVIOUS
<1>2. /\ z.c = [x.c EXCEPT !.unreleased = FALSE, !.enabled = {}, !.woken = FALSE,
              !.active = {}, !.timer = FALSE, !.posted = <<>>,
              !.queued = 0, !.lost = @ + x.c.queued]
      /\ z = [c |-> z.c, out |-> x.out, in |-> x.in, gone |-> x.gone, eof |-> x.eof]
      /\ z.out = x.out /\ z.in = x.in /\ z.gone = x.gone /\ z.eof = x.eof
  BY ONLY <1>1, <1>g DEF Gone
<1>3. /\ DOMAIN z.c = Fields
      /\ z.c.unreleased = FALSE /\ z.c.enabled = {} /\ z.c.active = {} /\ z.c.woken = FALSE
      /\ z.c.timer = FALSE /\ z.c.posted = <<>> /\ z.c.queued = 0
      /\ z.c.lost = x.c.lost + x.c.queued
      /\ z.c.state = x.c.state /\ z.c.tcp = x.c.tcp /\ z.c.connecting = x.c.connecting
      /\ z.c.half = x.c.half /\ z.c.events = x.c.events
      /\ z.c.accepted = x.c.accepted /\ z.c.got = x.c.got /\ z.c.why = x.c.why
      /\ z.c.disabled = x.c.disabled /\ z.c.connectTimer = x.c.connectTimer
      /\ z.c.fin = x.c.fin /\ z.c.writeReady = x.c.writeReady /\ z.c.failed = x.c.failed
  <2>1. DOMAIN x.c = Fields
    BY ONLY <1>0
  <2>2. DOMAIN z.c = Fields
    BY ONLY <1>2, <2>1
  <2>3. /\ z.c.unreleased = FALSE /\ z.c.enabled = {} /\ z.c.active = {} /\ z.c.woken = FALSE
        /\ z.c.timer = FALSE /\ z.c.posted = <<>> /\ z.c.queued = 0
        /\ z.c.lost = x.c.lost + x.c.queued
    BY ONLY <2>1, <1>2 DEF Fields
  <2>4. /\ z.c.state = x.c.state /\ z.c.tcp = x.c.tcp /\ z.c.connecting = x.c.connecting
        /\ z.c.half = x.c.half /\ z.c.events = x.c.events
        /\ z.c.accepted = x.c.accepted /\ z.c.got = x.c.got /\ z.c.why = x.c.why
        /\ z.c.disabled = x.c.disabled /\ z.c.connectTimer = x.c.connectTimer
        /\ z.c.fin = x.c.fin /\ z.c.writeReady = x.c.writeReady /\ z.c.failed = x.c.failed
    BY ONLY <2>1, <1>2 DEF Fields
  <2>5. QED BY ONLY <2>2, <2>3, <2>4
<1>4. Typed(z.c)
  <2>1. z.c.lost \in Nat /\ z.c.queued \in Nat
    BY <1>0, <1>3
  <2>2. <<>> \in Seq(Posted)
    OBVIOUS
  <2>3. QED BY <1>3, <2>1, <2>2 DEF Good, Sound, Typed
<1>5. Asked(z.c) /\ Told(z.c)
  BY <1>3 DEF Good, Sound, Asked, Told
<1>6. Over(z.c) /\ Early(z.c)
  BY <1>3 DEF Good, Sound, Over, Early, Released
<1>7. Trying(z.c)
  BY <1>3 DEF Good, Sound, Trying
<1>8. Good(z)
  BY <1>2, <1>4, <1>5, <1>6, <1>7 DEF Good, Sound
<1>9. Same(x, z) /\ Deaf(x, z)
  BY <1>0, <1>2, <1>3 DEF Same, Deaf
<1>10. Balanced(x, z)
  <2>1. x.out \in Nat /\ x.c.accepted \in Nat
    BY PairAssumption DEF Good, Sound, Typed
  <2>2. ~Back(z.c)
    BY <1>0, <1>3 DEF Back
  <2>3. x.out + 0 + (x.c.lost + x.c.queued) + x.c.accepted
          = x.out + x.c.queued + x.c.lost + x.c.accepted
    BY ONLY <1>0, <2>1
  <2>4. QED BY ONLY <1>2, <1>3, <2>2, <2>3 DEF Balanced
<1>11. Listens(z)
  BY <1>0, <1>3, OwedNothing DEF Listens
<1>12. QED BY <1>8, <1>9, <1>10, <1>11 DEF Leads

Kept == PairInv' /\ \A d \in Ends : Hushed(conn[d], conn'[d])

(* The server's end does nothing before there is a client.                 *)
LEMMA NotBefore ==
    ASSUME PairInv, NEW e \in Ends, ~Before(conn[e])
    PROVE  e = server => conn[client].tcp = "ok"
BY DEF PairInv, Born

LEMMA FileEventKeeps ==
    ASSUME PairInv, NEW e \in Ends, FileEvent(e)
    PROVE  Kept
<1> DEFINE x == View(e)
<1>1. /\ Good(x) /\ Listens(x) /\ x.c = conn[e]
  BY ViewGood
<1>2. x.c.state \in {"Open", "Closing"} /\ (x.c.woken \/ x.c.active # {})
  BY <1>1 DEF FileEvent, Woken, Alive
<1>3. x.c.tcp # "none"
  BY <1>1, <1>2 DEF Good, Sound, Early
<1>4. e = server => conn[client].tcp = "ok"
  <2>1. ~Before(conn[e])
    BY <1>1, <1>2 DEF Before
  <2>2. QED BY <2>1, NotBefore
<1>5. PICK how \in Reactions, broken \in Breaks(x) :
          /\ how \in {"reply", "replyClose", "replyDelay"} =>
                  x.c.accepted < MaxBytes /\ ~x.c.fin
          /\ Becomes(e, onFileEvent(Quieted(x), What(x), how, broken))
  BY DEF FileEvent, Quieted, What
<1> DEFINE z == onFileEvent(Quieted(x), What(x), how, broken)
<1>6. how \in Hows /\ (how \in Replies => x.c.accepted < MaxBytes)
  BY <1>5, PairAssumption DEF Hows, Replies
<1>7. Becomes(e, z) /\ z = onFileEvent(Quieted(x), What(x), how, broken)
  BY <1>5
<1> HIDE DEF z
<1>8. Leads(x, z) /\ Listens(z)
  <2> HIDE DEF x
  <2>1. QED BY ONLY <1>1, <1>2, <1>3, <1>6, <1>7, onFileEventLeads
<1>9. QED BY <1>4, <1>7, <1>8, BecomesKeeps DEF Kept

LEMMA RunPostedKeeps ==
    ASSUME PairInv, NEW e \in Ends, RunPosted(e)
    PROVE  Kept
<1> DEFINE x == View(e)
<1> DEFINE y == NextPosted(x)
<1> DEFINE t == Head(conn[e].posted)
<1> DEFINE z == closeSocket(y, t.type, t.cause)
<1>1. Good(x) /\ Listens(x) /\ x.c = conn[e]
  BY ViewGood
<1>2. x.c.posted # <<>> /\ Becomes(e, z)
  BY <1>1 DEF RunPosted, NextPosted
<1>3. e = server => conn[client].tcp = "ok"
  <2>1. ~Before(conn[e])
    BY <1>1, <1>2 DEF Before
  <2>2. QED BY <2>1, NotBefore
<1>4. y = NextPosted(x) /\ t = Head(x.c.posted)
  BY <1>1
<1>5. z = closeSocket(y, t.type, t.cause)
  OBVIOUS
<1> HIDE DEF x, y, t, z
<1>6. /\ Leads(x, y)
      /\ t.type \in CloseEvents /\ t.cause \in Causes
      /\ t.cause = "drained" => y.c.queued = 0
  <2>1. /\ Leads(x, y) /\ (Listens(x) => Listens(y))
        /\ Head(x.c.posted).type \in CloseEvents /\ Head(x.c.posted).cause \in Causes
        /\ Head(x.c.posted).cause = "drained" => y.c.queued = 0
    BY ONLY <1>1, <1>2, <1>4, NextPostedLeads
  <2>2. QED BY ONLY <1>4, <2>1
<1>7. Good(y)
  BY ONLY <1>6 DEF Leads
<1>8. Leads(y, z) /\ z.c.state = "Closed"
  BY ONLY <1>5, <1>6, <1>7, closeSocketLeads
<1>9. Leads(x, z)
  BY ONLY <1>1, <1>6, <1>8, LeadsOn
<1>10. Listens(z)
  BY <1>8, OwedNothing DEF Listens
<1>11. QED BY <1>2, <1>3, <1>9, <1>10, BecomesKeeps DEF Kept, x

LEMMA onDelayedCloseTimeoutKeeps ==
    ASSUME PairInv, NEW e \in Ends, onDelayedCloseTimeout(e)
    PROVE  Kept
<1> DEFINE x == View(e)
<1> DEFINE y == TimerFired(x)
<1> DEFINE z == closeSocket(y, "LocalClose", "deadline")
<1>1. Good(x) /\ x.c = conn[e]
  BY ViewGood
<1>2. x.c.timer /\ Becomes(e, z)
  BY <1>1 DEF onDelayedCloseTimeout, TimerFired
<1>3. e = server => conn[client].tcp = "ok"
  <2>1. ~Before(conn[e])
    BY <1>1, <1>2 DEF Before
  <2>2. QED BY <2>1, NotBefore
<1>4. Leads(x, y)
  <2>1. y = TimerFired(x)
    OBVIOUS
  <2> HIDE DEF x, y
  <2>2. QED BY ONLY <1>1, <2>1, FiredLeads
<1>5. /\ z = closeSocket(y, "LocalClose", "deadline") /\ "deadline" # "drained"
      /\ "LocalClose" \in CloseEvents /\ "deadline" \in Causes
  BY DEF CloseEvents, Causes
<1> HIDE DEF x, y, z
<1>6. Good(y)
  BY ONLY <1>4 DEF Leads
<1>7. Leads(y, z) /\ z.c.state = "Closed"
  BY ONLY <1>5, <1>6, closeSocketLeads
<1>8. Leads(x, z)
  BY ONLY <1>1, <1>4, <1>7, LeadsOn
<1>9. Listens(z)
  BY <1>7, OwedNothing DEF Listens
<1>10. QED BY <1>2, <1>3, <1>8, <1>9, BecomesKeeps DEF Kept, x

LEMMA onIdleReadTimeoutKeeps ==
    ASSUME PairInv, NEW e \in Ends, onIdleReadTimeout(e)
    PROVE  Kept
<1> DEFINE x == View(e)
<1> DEFINE z == closeSocket(x, "LocalClose", "idle")
<1>1. Good(x) /\ x.c = conn[e]
  BY ViewGood
<1>2. x.c.state \in {"Open", "Closing"} /\ Becomes(e, z)
  BY <1>1 DEF onIdleReadTimeout, Alive
<1>3. e = server => conn[client].tcp = "ok"
  <2>1. ~Before(conn[e])
    BY <1>1, <1>2 DEF Before
  <2>2. QED BY <2>1, NotBefore
<1>4. /\ z = closeSocket(x, "LocalClose", "idle") /\ "idle" # "drained"
      /\ "LocalClose" \in CloseEvents /\ "idle" \in Causes
  BY DEF CloseEvents, Causes
<1> HIDE DEF x, z
<1>5. Leads(x, z) /\ z.c.state = "Closed"
  BY ONLY <1>1, <1>4, closeSocketLeads
<1>6. Listens(z)
  BY <1>5, OwedNothing DEF Listens
<1>7. QED BY <1>2, <1>3, <1>5, <1>6, BecomesKeeps DEF Kept, x

LEMMA DestroyKeeps ==
    ASSUME PairInv, NEW e \in Ends, Destroy(e)
    PROVE  Kept
<1> DEFINE x == View(e)
<1> DEFINE z == Gone(x)
<1>1. Good(x) /\ x.c = conn[e]
  BY ViewGood
<1>2. x.c.unreleased /\ Becomes(e, z)
  BY <1>1 DEF Destroy, Gone
<1>3. e = server => conn[client].tcp = "ok"
  <2>1. ~Before(conn[e])
    BY <1>1, <1>2 DEF Before
  <2>2. QED BY <2>1, NotBefore
<1>4. Leads(x, z) /\ Listens(z)
  BY <1>1, <1>2, GoneLeads
<1> HIDE DEF z
<1>5. QED BY <1>2, <1>3, <1>4, BecomesKeeps DEF Kept

LEMMA WriteKeeps ==
    ASSUME PairInv, NEW e \in Ends, NEW n \in 1..MaxBytes, Write(e, n)
    PROVE  Kept
<1> DEFINE x == View(e)
<1>1. Good(x) /\ Listens(x) /\ x.c = conn[e]
  BY ViewGood
<1>2. /\ x.c.state \in {"Open", "Closing"} /\ x.c.tcp # "none" /\ x.c.accepted + n <= MaxBytes
      /\ n \in Nat \ {0}
  BY <1>1, PairAssumption DEF Write, Alive
<1>3. PICK broken : Becomes(e, write(x, n, broken))
  BY DEF Write
<1> DEFINE z == write(x, n, broken)
<1>4. z = write(x, n, broken) /\ Becomes(e, z)
  BY <1>3
<1>5. e = server => conn[client].tcp = "ok"
  <2>1. ~Before(conn[e])
    BY <1>1, <1>2 DEF Before
  <2>2. QED BY <2>1, NotBefore
<1> HIDE DEF z
<1>6. ListensBut(x, FALSE, FALSE)
  BY <1>1 DEF Listens
<1>7. Leads(x, z) /\ ListensBut(z, FALSE, FALSE)
  <2> HIDE DEF x
  <2>1. QED BY ONLY <1>1, <1>2, <1>4, <1>6, writeLeads
<1>8. Listens(z)
  BY <1>7 DEF Listens
<1>9. QED BY <1>4, <1>5, <1>7, <1>8, BecomesKeeps DEF Kept

LEMMA CloseKeeps ==
    ASSUME PairInv, NEW e \in Ends, NEW type \in CloseTypes, Close(e, type)
    PROVE  Kept
<1> DEFINE x == View(e)
<1>1. Good(x) /\ x.c = conn[e]
  BY ViewGood
<1>2. /\ x.c.state \in {"Open", "Closing"} /\ x.c.tcp # "none"
      /\ type \in {"NoFlush", "FlushWrite", "FlushWriteAndDelay"}
  BY <1>1, PairAssumption DEF Close, Alive
<1>3. PICK broken : Becomes(e, close(x, type, broken))
  BY DEF Close
<1> DEFINE z == close(x, type, broken)
<1>4. z = close(x, type, broken) /\ Becomes(e, z)
  BY <1>3
<1>5. e = server => conn[client].tcp = "ok"
  <2>1. ~Before(conn[e])
    BY <1>1, <1>2 DEF Before
  <2>2. QED BY <2>1, NotBefore
<1> HIDE DEF z
<1>6. Leads(x, z) /\ Listens(z)
  <2> HIDE DEF x
  <2>1. QED BY ONLY <1>1, <1>2, <1>4, closeLeads
<1>7. QED BY <1>4, <1>5, <1>6, BecomesKeeps DEF Kept

LEMMA ShutSendingKeeps ==
    ASSUME PairInv, NEW e \in Ends, ShutSending(e)
    PROVE  Kept
<1> DEFINE x == View(e)
<1> DEFINE z == Shut(x)
<1>1. Good(x) /\ Listens(x) /\ x.c = conn[e]
  BY ViewGood
<1>2. x.c.state \in {"Open", "Closing"} /\ x.c.tcp = "ok" /\ Becomes(e, z)
  BY <1>1 DEF ShutSending, Alive, Shut
<1>3. e = server => conn[client].tcp = "ok"
  <2>1. ~Before(conn[e])
    BY <1>1, <1>2 DEF Before
  <2>2. QED BY <2>1, NotBefore
<1>4. Leads(x, z) /\ Listens(z)
  BY <1>1, <1>2, FiredLeads
<1> HIDE DEF z
<1>5. QED BY <1>2, <1>3, <1>4, BecomesKeeps DEF Kept

LEMMA ResumeKeeps ==
    ASSUME PairInv, NEW e \in Ends, Resume(e)
    PROVE  Kept
<1> DEFINE x == View(e)
<1> DEFINE z == readEnable(x)
<1>1. Good(x) /\ Listens(x) /\ x.c = conn[e]
  BY ViewGood
<1>2. x.c.disabled /\ Becomes(e, z)
  BY <1>1 DEF Resume
<1>3. e = server => conn[client].tcp = "ok"
  <2>1. ~Before(conn[e])
    BY <1>1, <1>2 DEF Before
  <2>2. QED BY <2>1, NotBefore
<1>4. Leads(x, z) /\ Listens(z)
  BY <1>1, <1>2, readEnableLeads
<1> HIDE DEF z
<1>5. QED BY <1>2, <1>3, <1>4, BecomesKeeps DEF Kept

(* A connect that times out names the end Closed and leaves the rest.      *)
TimedOut(x) ==
    [x EXCEPT !.c.connectTimer = FALSE, !.c.state = "Closed", !.c.unreleased = TRUE]

LEMMA TimedOutLeads ==
    ASSUME NEW x, Good(x), NEW z, z = TimedOut(x)
    PROVE  /\ Leads(x, z) /\ Listens(z)
           /\ z.out = x.out /\ z.in = x.in /\ z.c.fin = x.c.fin /\ ~Released(z.c)
<1>0. DOMAIN x.c = Fields
  BY DEF Good, Sound, Typed
<1>1. x = [c |-> x.c, out |-> x.out, in |-> x.in, gone |-> x.gone, eof |-> x.eof]
  BY DEF Good
<1>2. z = [x EXCEPT !.c.connectTimer = FALSE, !.c.state = "Closed", !.c.unreleased = TRUE]
  BY DEF TimedOut
<1>3. /\ z.c = [x.c EXCEPT !.connectTimer = FALSE, !.state = "Closed", !.unreleased = TRUE]
      /\ z = [c |-> z.c, out |-> x.out, in |-> x.in, gone |-> x.gone, eof |-> x.eof]
      /\ z.out = x.out /\ z.in = x.in /\ z.gone = x.gone /\ z.eof = x.eof
  BY ONLY <1>1, <1>2
<1>4. /\ DOMAIN z.c = Fields
      /\ z.c.connectTimer = FALSE /\ z.c.state = "Closed" /\ z.c.unreleased = TRUE
      /\ z.c.tcp = x.c.tcp /\ z.c.connecting = x.c.connecting
      /\ z.c.half = x.c.half /\ z.c.events = x.c.events /\ z.c.queued = x.c.queued
      /\ z.c.accepted = x.c.accepted /\ z.c.got = x.c.got /\ z.c.lost = x.c.lost
      /\ z.c.why = x.c.why /\ z.c.active = x.c.active /\ z.c.enabled = x.c.enabled
      /\ z.c.woken = x.c.woken /\ z.c.disabled = x.c.disabled
      /\ z.c.timer = x.c.timer /\ z.c.fin = x.c.fin /\ z.c.posted = x.c.posted
      /\ z.c.writeReady = x.c.writeReady /\ z.c.failed = x.c.failed
  <2>1. z.c = [x.c EXCEPT !.connectTimer = FALSE, !.state = "Closed", !.unreleased = TRUE]
    BY ONLY <1>3
  <2>2. QED BY ONLY <1>0, <2>1 DEF Fields
<1>5. Typed(z.c) /\ Asked(z.c)
  BY <1>4 DEF Good, Sound, Typed, Asked
<1>6. Told(z.c)
  BY <1>4 DEF Good, Sound, Told
<1>7. Over(z.c) /\ Early(z.c) /\ Trying(z.c) /\ ~Released(z.c)
  BY <1>4 DEF Good, Sound, Over, Early, Trying, Released
<1>8. Good(z)
  BY <1>3, <1>5, <1>6, <1>7 DEF Good, Sound
<1>9. Same(x, z) /\ Deaf(x, z)
  BY <1>3, <1>4 DEF Same, Deaf
<1>10. Balanced(x, z)
  <2>1. ~Back(z.c)
    BY <1>4 DEF Back
  <2>2. QED BY <2>1, <1>3, <1>4 DEF Balanced
<1>11. Listens(z)
  BY <1>4, OwedNothing DEF Listens
<1>12. QED BY <1>3, <1>4, <1>7, <1>8, <1>9, <1>10, <1>11 DEF Leads

LEMMA ConnectTimeoutKeeps ==
    ASSUME PairInv, NEW e \in Ends, ConnectTimeout(e)
    PROVE  Kept
<1> DEFINE x == View(e)
<1> DEFINE z == TimedOut(x)
<1> DEFINE p == Peer(e)
<1>p. p \in Ends /\ p # e /\ Peer(p) = e
  BY Peers
<1>1. Good(x) /\ x.c = conn[e] /\ x.out = pipe[e] /\ x.in = pipe[p]
  BY ViewGood
<1>2. e = server => conn[client].tcp = "ok"
  BY DEF ConnectTimeout, PairInv, Born
<1>3. /\ Leads(x, z) /\ Listens(z)
      /\ z.out = x.out /\ z.in = x.in /\ z.c.fin = x.c.fin /\ ~Released(z.c)
  BY <1>1, TimedOutLeads
<1>4. z.c = [conn[e] EXCEPT !.connectTimer = FALSE, !.state = "Closed", !.unreleased = TRUE]
  <2>1. z = [x EXCEPT !.c.connectTimer = FALSE, !.c.state = "Closed", !.c.unreleased = TRUE]
    BY DEF TimedOut
  <2>2. x = [c |-> x.c, out |-> x.out, in |-> x.in, gone |-> x.gone, eof |-> x.eof]
    BY <1>1 DEF Good
  <2> HIDE DEF x, z
  <2>3. QED BY ONLY <1>1, <2>1, <2>2
<1>5. DOMAIN conn = Ends /\ DOMAIN pipe = Ends /\ DOMAIN conn[p] = Fields
  BY <1>p DEF PairInv, Sound, Typed
<1>6. /\ conn' = [conn EXCEPT ![e].connectTimer = FALSE, ![e].state = "Closed",
                              ![e].unreleased = TRUE]
      /\ pipe' = pipe /\ e \in Ends
  BY DEF ConnectTimeout
<1> HIDE DEF x, z, p
<1>7. conn'[e] = z.c /\ conn'[p] = conn[p] /\ DOMAIN conn' = Ends
  BY ONLY <1>p, <1>4, <1>5, <1>6
<1>8. ~Hears(p, z)
  <2>1. /\ ~(Released(z.c) /\ ~Released(conn[e]))
        /\ ~(Ended(z.c) /\ ~Ended(conn[e]))
        /\ ~(z.out > pipe[e]) /\ ~(z.in < pipe[p])
    <3>1. pipe[e] \in Nat /\ pipe[p] \in Nat
      BY <1>1, GoodCounts
    <3>2. QED BY ONLY <1>1, <1>3, <3>1 DEF Ended
  <2>2. QED BY ONLY <1>p, <2>1 DEF Hears
<1>9. Moves(e, z)
  BY ONLY <1>1, <1>3, <1>5, <1>6, <1>7, <1>8 DEF Moves, p
<1>10. QED BY <1>2, <1>3, <1>9, MovesKeeps DEF Kept, x

(* An end that is made when the other's connect succeeds, and one that is  *)
(* yet to connect.                                                         *)
Newborn(c) ==
    /\ DOMAIN c = Fields
    /\ c.state = "Open" /\ c.connectTimer = FALSE /\ c.unreleased = FALSE
    /\ c.half = FALSE /\ c.timer = FALSE /\ c.disabled = FALSE /\ c.queued = 0
    /\ c.woken = FALSE /\ c.active = {} /\ c.fin = FALSE /\ c.writeReady = FALSE
    /\ c.failed = FALSE /\ c.deferred = FALSE /\ c.posted = <<>> /\ c.events = <<>>
    /\ c.accepted = 0 /\ c.got = 0 /\ c.lost = 0 /\ c.why = "nothing"

LEMMA FreshConnected ==
    ASSUME NEW c, c = Fresh(TRUE)
    PROVE  Newborn(c) /\ c.tcp = "ok" /\ c.connecting = FALSE /\ c.enabled = {"Read"}
BY DEF Fresh, Newborn, Fields

LEMMA FreshUnconnected ==
    ASSUME NEW c, c = Fresh(FALSE)
    PROVE  Newborn(c) /\ c.tcp = "none" /\ c.connecting = TRUE /\ c.enabled = {}
BY DEF Fresh, Newborn, Fields

LEMMA NewbornSound ==
    ASSUME NEW c, Newborn(c),
           \/ c.tcp = "ok" /\ c.connecting = FALSE /\ c.enabled = {"Read"}
           \/ c.tcp = "none" /\ c.connecting = TRUE /\ c.enabled = {}
    PROVE  Sound(c)
<1>1. <<>> \in Seq(Posted) /\ <<>> \in Seq(CloseEvents \cup {"Connected"}) /\ Len(<<>>) = 0
  OBVIOUS
<1>2. Newborn(c)
  OBVIOUS
<1>3. Typed(c)
  BY <1>1, PairAssumption DEF Newborn, Typed, Bits
<1>4. Asked(c) /\ Told(c)
  BY ONLY <1>1, <1>2 DEF Newborn, Asked, Told
<1>5. Over(c)
  BY ONLY <1>2 DEF Newborn, Over, Released
<1>6. Early(c) /\ Trying(c)
  <2>1. CASE c.tcp = "ok" /\ c.connecting = FALSE
    BY ONLY <1>2, <2>1 DEF Newborn, Early, Trying
  <2>2. CASE c.tcp = "none" /\ c.connecting = TRUE /\ c.enabled = {}
    <3>1. Early(c)
      BY ONLY <1>2, <2>2 DEF Newborn, Early
    <3>2. Trying(c)
      BY ONLY <1>2, <2>2 DEF Newborn, Trying
    <3>3. QED BY <3>1, <3>2
  <2>3. QED BY <2>1, <2>2
<1>7. QED BY ONLY <1>3, <1>4, <1>5, <1>6 DEF Sound

(* The client's socket comes to something, and the server's end is made.   *)
LEMMA ClientKeeps ==
    ASSUME PairInv, conn[client].tcp # "ok",
           NEW d, Sound(d), NEW s,
           d.tcp = "ok" => s = Fresh(TRUE) /\ ~Ended(d),
           d.tcp # "ok" => s = conn[server],
           DOMAIN conn' = Ends, conn'[client] = d, conn'[server] = s, pipe' = pipe,
           d.state = conn[client].state, d.state # "Unborn",
           d.accepted = conn[client].accepted, d.got = conn[client].got,
           d.queued = conn[client].queued, d.lost = conn[client].lost,
           Back(d) => Back(conn[client]),
           Listens([c |-> d, out |-> 0, in |-> 0, gone |-> Released(s), eof |-> Ended(s)])
    PROVE  Kept
<1>0. /\ client # server /\ Ends = {client, server}
      /\ Peer(client) = server /\ Peer(server) = client /\ Room \in Nat
  BY PairAssumption DEF Ends, Peer
<1>1. /\ DOMAIN conn = Ends /\ DOMAIN pipe = Ends /\ Born
      /\ Sound(conn[client]) /\ Sound(conn[server])
      /\ Counted(client) /\ Counted(server)
  BY <1>0 DEF PairInv
<1>2. /\ Before(conn[server]) /\ pipe[client] = 0 /\ pipe[server] = 0
      /\ conn[server].tcp = "ok" /\ ~conn[server].connecting /\ ~conn[server].connectTimer
  BY <1>1 DEF Born
<1>f. \/ /\ s = Fresh(TRUE) /\ s.tcp = "ok" /\ s.connecting = FALSE /\ s.connectTimer = FALSE
         /\ s.state = "Open" /\ s.accepted = 0 /\ s.got = 0 /\ s.queued = 0 /\ s.lost = 0
         /\ s.enabled = {"Read"} /\ d.tcp = "ok" /\ ~Ended(d)
      \/ s = conn[server] /\ d.tcp # "ok"
  <2>1. CASE d.tcp = "ok"
    <3>1. s = Fresh(TRUE)
      BY <2>1
    <3>2. Newborn(s) /\ s.tcp = "ok" /\ s.connecting = FALSE /\ s.enabled = {"Read"}
      BY ONLY <3>1, FreshConnected
    <3>3. ~Ended(d)
      BY <2>1
    <3>4. QED BY ONLY <2>1, <3>1, <3>2, <3>3 DEF Newborn
  <2>2. CASE d.tcp # "ok"
    BY <2>2
  <2>3. QED BY <2>1, <2>2
<1>3. Sound(s)
  <2>1. CASE s = Fresh(TRUE)
    <3>1. Newborn(s) /\ s.tcp = "ok" /\ s.connecting = FALSE /\ s.enabled = {"Read"}
      BY ONLY <2>1, FreshConnected
    <3>2. QED BY ONLY <3>1, NewbornSound
  <2>2. CASE s = conn[server]
    BY <1>1, <2>2
  <2>3. QED BY ONLY <1>f, <2>1, <2>2
<1>4. \A e \in Ends : Sound(conn'[e]) /\ pipe'[e] \in 0..Room
  BY <1>0, <1>2, <1>3
<1>5. Listens(View(client)')
  <2>1. View(client)' = [c |-> d, out |-> 0, in |-> 0, gone |-> Released(s), eof |-> Ended(s)]
    BY <1>0, <1>2 DEF View
  <2>2. QED BY <2>1
<1>6. Listens(View(server)')
  <2> DEFINE w == [c |-> s, out |-> 0, in |-> 0, gone |-> Released(d), eof |-> Ended(d)]
  <2>1. View(server)' = w
    BY <1>0, <1>2 DEF View
  <2>2. w.c = s /\ w.in = 0 /\ w.eof = Ended(d)
    OBVIOUS
  <2> HIDE DEF w
  <2>3. CASE s.state = "Open"
    <3>1. s.tcp = "ok" /\ s.queued = 0 /\ s.enabled = {"Read"} /\ ~Ended(d)
      BY ONLY <1>2, <1>f, <2>3 DEF Before
    <3>2. "Read" \notin Ready(w)
      BY ONLY <2>2, <3>1 DEF Ready
    <3>3. QED BY ONLY <2>1, <2>2, <3>1, <3>2 DEF Listens, ListensBut, OutCond
  <2>4. CASE s.state = "Unborn"
    BY ONLY <2>1, <2>2, <2>4 DEF Listens, ListensBut, InCond, OutCond
  <2>5. QED BY ONLY <1>2, <1>f, <2>3, <2>4 DEF Before
<1>7. Counted(client)'
  <2>1. conn[client].queued \in Nat /\ conn[client].lost \in Nat
        /\ conn[client].accepted \in Nat
    BY <1>1, PairAssumption DEF Sound, Typed
  <2>2. 0 + 0 + conn[client].queued + conn[client].lost = conn[client].accepted
    BY ONLY <1>0, <1>1, <1>2 DEF Counted, Before, Back
  <2>3. s.got = 0
    BY ONLY <1>2, <1>f DEF Before
  <2>4. QED BY <1>0, <1>2, <2>2, <2>3 DEF Counted
<1>8. Counted(server)'
  <2>1. conn[client].got \in Nat
    BY <1>1 DEF Sound, Typed
  <2>2. Back(conn[client]) => conn[client].got + 0 + 0 + 0 = 0
    BY ONLY <1>0, <1>1, <1>2 DEF Counted, Before
  <2>3. s.queued = 0 /\ s.lost = 0 /\ s.accepted = 0
    BY ONLY <1>2, <1>f DEF Before
  <2>4. QED BY <1>0, <1>2, <2>2, <2>3 DEF Counted
<1>9. Born'
  <2>1. /\ s.tcp = "ok" /\ ~s.connecting /\ ~s.connectTimer
        /\ d.tcp = "ok" => s.state # "Unborn"
        /\ d.tcp # "ok" => Before(s)
    BY ONLY <1>2, <1>f
  <2>2. QED BY <1>2, <2>1 DEF Born
<1>10. PairInv'
  BY <1>0, <1>1, <1>4, <1>5, <1>6, <1>7, <1>8, <1>9 DEF PairInv
<1>11. Hushed(conn[client], d) /\ Hushed(conn[server], s)
  <2>1. s.accepted = conn[server].accepted /\ s.got = conn[server].got
    BY ONLY <1>2, <1>f DEF Before
  <2>2. QED BY <2>1 DEF Hushed
<1>12. QED BY <1>0, <1>10, <1>11 DEF Kept

(* What the answer to a connect changes of the end that asked for it.      *)
Dials == {"tcp", "connecting", "connectTimer", "enabled", "writeReady", "failed",
          "active", "events", "woken"}

LEMMA DialledSound ==
    ASSUME NEW c, Sound(c), c.tcp # "ok",
           NEW d, DOMAIN d = Fields, \A f \in Fields \ Dials : d[f] = c[f],
           d.tcp \in {"pending", "ok", "failed"}, d.tcp = "pending" => d.connecting,
           d.enabled \subseteq Bits, d.active \subseteq Bits,
           \/ d.events = c.events
           \/ d.events = Append(c.events, "Connected") /\ c.state = "Open",
           c.state = "Closed" => d.connectTimer = c.connectTimer /\ d.enabled = c.enabled,
           Trying(d)
    PROVE  /\ Sound(d) /\ ~d.fin
           /\ d.state = c.state /\ d.accepted = c.accepted /\ d.got = c.got
           /\ d.queued = c.queued /\ d.lost = c.lost /\ d.unreleased = c.unreleased
<1>1. /\ d.state = c.state /\ d.unreleased = c.unreleased /\ d.half = c.half
      /\ d.timer = c.timer /\ d.queued = c.queued /\ d.fin = c.fin
      /\ d.posted = c.posted /\ d.accepted = c.accepted /\ d.got = c.got
      /\ d.lost = c.lost /\ d.why = c.why
  <2>1. \A f \in Fields \ Dials : d[f] = c[f]
    OBVIOUS
  <2>2. QED BY ONLY <2>1 DEF Fields, Dials
<1>2. Typed(c) /\ Asked(c) /\ Told(c) /\ Over(c) /\ Early(c)
  BY DEF Sound
<1>3. ~c.fin
  <2>1. c.tcp # "ok"
    OBVIOUS
  <2>2. QED BY ONLY <1>2, <2>1 DEF Early
<1>4. d.events \in Seq(CloseEvents \cup {"Connected"})
  <2>1. c.events \in Seq(CloseEvents \cup {"Connected"})
    BY ONLY <1>2 DEF Typed
  <2>2. Append(c.events, "Connected") \in Seq(CloseEvents \cup {"Connected"})
    BY ONLY <2>1
  <2>3. QED BY <2>1, <2>2
<1>5. Typed(d)
  BY <1>1, <1>2, <1>4 DEF Typed
<1>6. Asked(d)
  BY ONLY <1>1, <1>2 DEF Asked
<1>7. Told(d)
  <2>1. CASE d.events = c.events
    BY ONLY <1>1, <1>2, <2>1 DEF Told
  <2>2. CASE d.events = Append(c.events, "Connected") /\ c.state = "Open"
    <3>1. \A i \in 1..Len(c.events) : c.events[i] \notin CloseEvents
      BY ONLY <1>2, <2>2 DEF Told
    <3>2. c.events \in Seq(CloseEvents \cup {"Connected"})
      BY ONLY <1>2 DEF Typed
    <3>3. \A i \in 1..Len(d.events) : d.events[i] \notin CloseEvents
      BY ONLY <2>2, <3>1, <3>2 DEF CloseEvents
    <3>4. QED BY ONLY <3>3 DEF Told
  <2>3. QED BY <2>1, <2>2
<1>8. Over(d)
  <2>1. c.state = "Closed" => d.connectTimer = c.connectTimer /\ d.enabled = c.enabled
    OBVIOUS
  <2>2. QED BY ONLY <1>1, <1>2, <2>1 DEF Over, Released
<1>9. Early(d)
  <2>1. d.tcp \in {"pending", "ok", "failed"} /\ (d.tcp = "pending" => d.connecting)
    OBVIOUS
  <2>2. QED BY ONLY <1>1, <1>3, <2>1 DEF Early
<1>10. QED BY <1>1, <1>3, <1>5, <1>6, <1>7, <1>8, <1>9 DEF Sound

(* Only the client connects, and before it has the server does nothing.    *)
LEMMA ClientConnects ==
    ASSUME PairInv, NEW e \in Ends, conn[e].tcp # "ok"
    PROVE  /\ e = client /\ Peer(e) = server
           /\ Sound(conn[e]) /\ DOMAIN conn = Ends /\ DOMAIN conn[e] = Fields
           /\ conn[e].state # "Unborn"
<1>1. e = client
  BY DEF PairInv, Born, Ends
<1>2. Peer(e) = server
  BY <1>1, Peers
<1>3. Sound(conn[e]) /\ DOMAIN conn = Ends /\ Born
  BY DEF PairInv
<1>4. QED BY <1>1, <1>2, <1>3 DEF Sound, Typed, Born

LEMMA doConnectKeeps ==
    ASSUME PairInv, NEW e \in Ends, doConnect(e)
    PROVE  Kept
<1> DEFINE c == conn[e]
           d == conn'[e]
           s == conn'[Peer(e)]
<1>1. /\ c.tcp = "none" /\ c.state = "Open" /\ c.connecting /\ pipe' = pipe
      /\ \/ conn' = [conn EXCEPT
                ![e] = [conn[e] EXCEPT !.tcp = "pending", !.enabled = {"Write"},
                                       !.connectTimer = TRUE]]
         \/ conn' = [conn EXCEPT
                ![e] = [conn[e] EXCEPT !.tcp = "ok", !.connecting = FALSE, !.writeReady = TRUE,
                                 !.enabled = {"Read"}, !.events = Append(@, "Connected")],
                ![Peer(e)] = Fresh(TRUE)]
         \/ conn' = [conn EXCEPT
                ![e] = [conn[e] EXCEPT !.tcp = "failed", !.connecting = FALSE,
                                 !.failed = TRUE, !.active = {"Write"},
                                 !.connectTimer = TRUE]]
  BY DEF doConnect
<1>2. /\ e = client /\ Peer(e) = server /\ Sound(c) /\ DOMAIN conn = Ends
      /\ DOMAIN c = Fields /\ client \in Ends /\ server \in Ends /\ client # server
  BY <1>1, ClientConnects, PairAssumption DEF Ends
<1>3. /\ c.queued = 0 /\ c.enabled = {} /\ c.active = {} /\ ~c.disabled /\ ~c.fin
      /\ ~c.writeReady /\ ~c.failed
  BY ONLY <1>1, <1>2 DEF Sound, Early, Trying
<1>4. DOMAIN conn' = Ends
  BY ONLY <1>1, <1>2
<1>5. \/ /\ d = [c EXCEPT !.tcp = "pending", !.enabled = {"Write"}, !.connectTimer = TRUE]
         /\ s = conn[server]
      \/ /\ d = [c EXCEPT !.tcp = "ok", !.connecting = FALSE, !.writeReady = TRUE,
                          !.enabled = {"Read"}, !.events = Append(@, "Connected")]
         /\ s = Fresh(TRUE)
      \/ /\ d = [c EXCEPT !.tcp = "failed", !.connecting = FALSE, !.failed = TRUE,
                          !.active = {"Write"}, !.connectTimer = TRUE]
         /\ s = conn[server]
  BY ONLY <1>1, <1>2
<1>6. conn'[client] = d /\ conn'[server] = s /\ c = conn[client]
  BY ONLY <1>2
<1> HIDE DEF c, d, s
<1>7. /\ DOMAIN d = Fields /\ \A f \in Fields \ Dials : d[f] = c[f]
      /\ \/ /\ d.tcp = "pending" /\ d.enabled = {"Write"} /\ d.connecting = c.connecting
            /\ d.active = c.active /\ d.events = c.events /\ s = conn[server]
            /\ d.writeReady = c.writeReady /\ d.failed = c.failed
         \/ /\ d.tcp = "ok" /\ d.enabled = {"Read"} /\ d.connecting = FALSE
            /\ d.active = c.active /\ d.events = Append(c.events, "Connected")
            /\ s = Fresh(TRUE)
         \/ /\ d.tcp = "failed" /\ d.enabled = c.enabled /\ d.connecting = FALSE
            /\ d.active = {"Write"} /\ d.events = c.events /\ s = conn[server]
  <2>1. CASE /\ d = [c EXCEPT !.tcp = "pending", !.enabled = {"Write"},
                              !.connectTimer = TRUE]
             /\ s = conn[server]
    BY ONLY <1>2, <2>1 DEF Fields, Dials
  <2>2. CASE /\ d = [c EXCEPT !.tcp = "ok", !.connecting = FALSE, !.writeReady = TRUE,
                              !.enabled = {"Read"}, !.events = Append(@, "Connected")]
             /\ s = Fresh(TRUE)
    BY ONLY <1>2, <2>2 DEF Fields, Dials
  <2>3. CASE /\ d = [c EXCEPT !.tcp = "failed", !.connecting = FALSE, !.failed = TRUE,
                              !.active = {"Write"}, !.connectTimer = TRUE]
             /\ s = conn[server]
    BY ONLY <1>2, <2>3 DEF Fields, Dials
  <2>4. QED BY ONLY <1>5, <2>1, <2>2, <2>3
<1>8. d.disabled = c.disabled /\ d.state = c.state /\ d.queued = c.queued
  BY ONLY <1>7 DEF Fields, Dials
<1>9. Trying(d)
  BY ONLY <1>1, <1>3, <1>7, <1>8 DEF Trying
<1>10. /\ Sound(d) /\ ~d.fin
       /\ d.state = c.state /\ d.accepted = c.accepted /\ d.got = c.got
       /\ d.queued = c.queued /\ d.lost = c.lost /\ d.unreleased = c.unreleased
  <2>1. d.enabled \subseteq Bits /\ d.active \subseteq Bits
        /\ d.tcp \in {"pending", "ok", "failed"} /\ (d.tcp = "pending" => d.connecting)
        /\ c.tcp # "ok" /\ c.state # "Closed"
    BY ONLY <1>1, <1>3, <1>7 DEF Bits
  <2>2. d.events = c.events \/ (d.events = Append(c.events, "Connected") /\ c.state = "Open")
    BY ONLY <1>1, <1>7
  <2>3. QED BY ONLY <1>2, <1>7, <1>9, <2>1, <2>2, DialledSound
<1>11. Back(d) => Back(c)
  BY ONLY <1>1 DEF Back
<1>12. ~Ended(d)
  BY ONLY <1>1, <1>10 DEF Ended, Released
<1> DEFINE w == [c |-> d, out |-> 0, in |-> 0, gone |-> Released(s), eof |-> Ended(s)]
<1>13. w.c = d /\ w.in = 0 /\ w.eof = Ended(s)
  OBVIOUS
<1> HIDE DEF w
<1>14. Listens(w)
  <2>1. CASE d.tcp = "ok"
    <3>1. s = Fresh(TRUE)
      BY ONLY <1>7, <2>1
    <3>2. s.state = "Open" /\ s.fin = FALSE
      BY ONLY <3>1, FreshConnected DEF Newborn
    <3>3. ~Ended(s)
      BY ONLY <3>2 DEF Ended, Released
    <3>4. "Read" \notin Ready(w)
      BY ONLY <1>13, <2>1, <3>3 DEF Ready
    <3>5. "Read" \in d.enabled /\ d.queued = 0
      BY ONLY <1>3, <1>7, <1>8, <2>1
    <3>6. QED BY ONLY <1>13, <3>4, <3>5 DEF Listens, ListensBut, OutCond
  <2>2. CASE d.tcp # "ok"
    <3>1. d.queued = 0
      BY ONLY <1>3, <1>8
    <3>2. QED BY ONLY <1>13, <2>2, <3>1 DEF Listens, ListensBut, InCond, OutCond
  <2>3. QED BY <2>1, <2>2
<1>15. (d.tcp = "ok" => s = Fresh(TRUE) /\ ~Ended(d)) /\ (d.tcp # "ok" => s = conn[server])
  BY ONLY <1>7, <1>12
<1>16. conn[client].tcp # "ok" /\ d.state # "Unborn"
  BY ONLY <1>1, <1>6, <1>8
<1>17. QED
  BY <1>1, <1>4, <1>6, <1>10, <1>11, <1>14, <1>15, <1>16, ClientKeeps DEF w

LEMMA ConnectResolvesKeeps ==
    ASSUME PairInv, NEW e \in Ends, ConnectResolves(e)
    PROVE  Kept
<1> DEFINE c == conn[e]
           d == conn'[e]
           s == conn'[Peer(e)]
           h == "Write" \in conn[e].enabled
<1>1. /\ c.tcp = "pending" /\ pipe' = pipe
      /\ c.state \in {"Open", "Closing"} \/ c.unreleased
      /\ \/ conn' = [conn EXCEPT ![e].tcp = "ok", ![e].woken = h, ![Peer(e)] = Fresh(TRUE)]
         \/ conn' = [conn EXCEPT ![e].tcp = "failed", ![e].woken = h]
  BY DEF ConnectResolves, Resolving, Alive
<1>2. /\ e = client /\ Peer(e) = server /\ Sound(c) /\ DOMAIN conn = Ends
      /\ DOMAIN c = Fields /\ client \in Ends /\ server \in Ends /\ client # server
      /\ c.state # "Unborn"
  BY <1>1, ClientConnects, PairAssumption DEF Ends
<1>3. h = ("Write" \in c.enabled)
  OBVIOUS
<1>4. c = conn[client]
  BY ONLY <1>2
<1> HIDE DEF c, h
<1>5. DOMAIN conn' = Ends
  BY ONLY <1>1, <1>2
<1>6. \/ d = [c EXCEPT !.tcp = "ok", !.woken = h] /\ s = Fresh(TRUE)
      \/ d = [c EXCEPT !.tcp = "failed", !.woken = h] /\ s = conn[server]
  BY ONLY <1>1, <1>2 DEF c
<1>7. conn'[client] = d /\ conn'[server] = s
  BY ONLY <1>2
<1> HIDE DEF d, s
<1>8. /\ DOMAIN d = Fields /\ \A f \in Fields \ {"tcp", "woken"} : d[f] = c[f]
      /\ d.woken = h
      /\ \/ d.tcp = "ok" /\ s = Fresh(TRUE)
         \/ d.tcp = "failed" /\ s = conn[server]
  BY ONLY <1>2, <1>6 DEF Fields
<1>9. /\ d.disabled = c.disabled /\ d.state = c.state /\ d.queued = c.queued
      /\ d.connecting = c.connecting /\ d.enabled = c.enabled /\ d.active = c.active
      /\ d.writeReady = c.writeReady /\ d.failed = c.failed /\ d.events = c.events
      /\ d.connectTimer = c.connectTimer
  BY ONLY <1>8 DEF Fields
<1>10. Early(c) /\ Trying(c) /\ c.enabled \subseteq Bits /\ c.active \subseteq Bits
  BY ONLY <1>2 DEF Sound, Typed
<1>11. c.connecting /\ ~c.fin
  BY ONLY <1>1, <1>10 DEF Early
<1>12. Trying(d)
  BY ONLY <1>9, <1>10 DEF Trying
<1>13. /\ Sound(d) /\ ~d.fin
       /\ d.state = c.state /\ d.accepted = c.accepted /\ d.got = c.got
       /\ d.queued = c.queued /\ d.lost = c.lost /\ d.unreleased = c.unreleased
  <2>1. d.enabled \subseteq Bits /\ d.active \subseteq Bits
        /\ d.tcp \in {"pending", "ok", "failed"} /\ (d.tcp = "pending" => d.connecting)
        /\ c.tcp # "ok"
    BY ONLY <1>1, <1>8, <1>9, <1>10
  <2>2. \A f \in Fields \ Dials : d[f] = c[f]
    BY ONLY <1>8 DEF Dials
  <2>3. QED BY ONLY <1>2, <1>8, <1>9, <1>12, <2>1, <2>2, DialledSound
<1>14. Back(d) => Back(c)
  BY ONLY <1>9 DEF Back
<1>15. ~Ended(d)
  BY ONLY <1>1, <1>13 DEF Ended, Released
<1> DEFINE w == [c |-> d, out |-> 0, in |-> 0, gone |-> Released(s), eof |-> Ended(s)]
<1>16. w.c = d
  OBVIOUS
<1> HIDE DEF w
<1>17. Listens(w)
  <2>1. OutCond(d) => "Write" \in d.enabled /\ d.woken
    <3>1. OutCond(d) => c.queued > 0 /\ c.state # "Closed"
      BY ONLY <1>9 DEF OutCond
    <3>2. OutCond(d) => "Write" \in c.enabled
      BY ONLY <1>10, <1>11, <3>1 DEF Trying
    <3>3. QED BY ONLY <1>3, <1>8, <1>9, <3>2
  <2>2. ~InCond(d)
    BY ONLY <1>9, <1>11 DEF InCond
  <2>3. QED BY ONLY <1>16, <2>1, <2>2 DEF Listens, ListensBut
<1>18. (d.tcp = "ok" => s = Fresh(TRUE) /\ ~Ended(d)) /\ (d.tcp # "ok" => s = conn[server])
  BY ONLY <1>8, <1>15
<1>19. conn[client].tcp # "ok" /\ d.state # "Unborn"
  BY ONLY <1>1, <1>2, <1>4, <1>9
<1>20. QED
  BY <1>1, <1>4, <1>5, <1>7, <1>13, <1>14, <1>17, <1>18, <1>19, ClientKeeps DEF w

-----------------------------------------------------------------------------
(* The two ends in every state.                                            *)

LEMMA InitPair == ASSUME Init PROVE PairInv
<1>1. /\ client # server /\ Ends = {client, server} /\ Room \in Nat
      /\ Peer(client) = server /\ Peer(server) = client
  BY PairAssumption DEF Ends, Peer
<1> DEFINE c == conn[client]
           f == Fresh(TRUE)
           s == conn[server]
<1>2. /\ DOMAIN conn = Ends /\ DOMAIN pipe = Ends
      /\ \A e \in Ends : pipe[e] = 0
      /\ c = Fresh(FALSE) /\ s = [f EXCEPT !.state = "Unborn"]
  BY <1>1 DEF Init
<1>3. f = Fresh(TRUE)
  OBVIOUS
<1> HIDE DEF c, f, s
<1>4. Newborn(f) /\ f.tcp = "ok" /\ f.connecting = FALSE /\ f.enabled = {"Read"}
  BY ONLY <1>3, FreshConnected
<1>5. Newborn(c) /\ c.tcp = "none" /\ c.connecting = TRUE /\ c.enabled = {}
  BY ONLY <1>2, FreshUnconnected
<1>6. Sound(c) /\ Sound(f)
  BY ONLY <1>4, <1>5, NewbornSound
<1>7. /\ DOMAIN s = Fields /\ s.state = "Unborn"
      /\ \A g \in Fields \ {"state"} : s[g] = f[g]
  BY ONLY <1>2, <1>4 DEF Newborn, Fields
<1>8. /\ s.connecting = FALSE /\ s.tcp = "ok" /\ s.connectTimer = FALSE
      /\ s.unreleased = FALSE /\ s.timer = FALSE /\ s.disabled = FALSE /\ s.posted = <<>>
      /\ s.accepted = 0 /\ s.got = 0 /\ s.queued = 0 /\ s.lost = 0
      /\ s.events = <<>> /\ s.half = f.half /\ s.enabled = f.enabled /\ s.active = f.active
      /\ s.fin = f.fin /\ s.why = f.why
  <2>1. /\ s.connecting = f.connecting /\ s.tcp = f.tcp /\ s.connectTimer = f.connectTimer
        /\ s.unreleased = f.unreleased /\ s.timer = f.timer /\ s.disabled = f.disabled
        /\ s.posted = f.posted /\ s.accepted = f.accepted /\ s.got = f.got
        /\ s.queued = f.queued /\ s.lost = f.lost /\ s.events = f.events
        /\ s.half = f.half /\ s.enabled = f.enabled /\ s.active = f.active
        /\ s.fin = f.fin /\ s.why = f.why
    BY ONLY <1>7 DEF Fields
  <2>2. QED BY ONLY <1>4, <2>1 DEF Newborn
<1>9. Sound(s)
  <2>1. Typed(s)
    BY ONLY <1>4, <1>6, <1>7, <1>8 DEF Newborn, Sound, Typed
  <2>2. Asked(s)
    BY ONLY <1>7, <1>8 DEF Asked
  <2>3. Told(s)
    BY ONLY <1>8 DEF Told
  <2>4. Over(s)
    BY ONLY <1>7, <1>8 DEF Over, Released
  <2>5. Early(s) /\ Trying(s)
    BY ONLY <1>8 DEF Early, Trying
  <2>6. QED BY ONLY <2>1, <2>2, <2>3, <2>4, <2>5 DEF Sound
<1>10. \A e \in Ends : Sound(conn[e]) /\ pipe[e] \in 0..Room
  <2>1. Sound(conn[client]) /\ Sound(conn[server])
    BY ONLY <1>6, <1>9 DEF c, s
  <2>2. QED BY <1>1, <1>2, <2>1
<1>11. \A e \in Ends : Listens(View(e))
  <2>1. View(client).c = c /\ View(server).c = s
    BY DEF View, c, s
  <2>2. ~InCond(c) /\ ~InCond(s) /\ ~OutCond(c) /\ ~OutCond(s)
    BY ONLY <1>5, <1>7, <1>8 DEF InCond, OutCond, Newborn
  <2>3. Listens(View(client)) /\ Listens(View(server))
    BY ONLY <2>1, <2>2 DEF Listens, ListensBut
  <2>4. QED BY <1>1, <2>3
<1>12. \A e \in Ends : Counted(e)
  <2>1. Counted(client) /\ Counted(server)
    <3>1. /\ c.got = 0 /\ c.queued = 0 /\ c.lost = 0 /\ c.accepted = 0
      BY ONLY <1>5 DEF Newborn
    <3>2. pipe[client] = 0 /\ pipe[server] = 0
      BY <1>1, <1>2
    <3>3. c.got + 0 + s.queued + s.lost = s.accepted /\ s.got + 0 + c.queued + c.lost = c.accepted
      BY ONLY <1>8, <3>1
    <3>4. QED BY ONLY <1>1, <3>2, <3>3 DEF Counted, c, s
  <2>2. QED BY <1>1, <2>1
<1>13. Born
  <2>1. Before(s) /\ pipe[client] = 0 /\ pipe[server] = 0 /\ c.tcp = "none"
    BY <1>1, <1>2, <1>5, <1>7, <1>8 DEF Before
  <2>2. c.state = "Open"
    BY ONLY <1>5 DEF Newborn
  <2>3. QED BY <1>8, <2>1, <2>2 DEF Born, c, s
<1>14. QED BY <1>2, <1>10, <1>11, <1>12, <1>13 DEF PairInv

LEMMA NextKeeps ==
    ASSUME PairInv, [Next]_vars
    PROVE  Kept
<1>1. CASE UNCHANGED vars
  <2>1. PairInv'
    BY <1>1 DEF vars, PairInv, Sound, Listens, View, Counted, Born
  <2>2. \A d \in Ends : Hushed(conn[d], conn'[d])
    BY <1>1 DEF vars, Hushed
  <2>3. QED BY <2>1, <2>2 DEF Kept
<1>2. CASE Next
  <2>1. PICK e \in Ends :
            \/ FileEvent(e) \/ RunPosted(e)
            \/ onDelayedCloseTimeout(e) \/ onIdleReadTimeout(e)
            \/ doConnect(e) \/ ConnectResolves(e) \/ ConnectTimeout(e) \/ Destroy(e)
            \/ \E n \in 1..MaxBytes : Write(e, n)
            \/ \E type \in CloseTypes : Close(e, type)
            \/ ShutSending(e) \/ Resume(e)
    BY <1>2 DEF Next
  <2>2. CASE FileEvent(e)
    BY <2>2, FileEventKeeps
  <2>3. CASE RunPosted(e)
    BY <2>3, RunPostedKeeps
  <2>4. CASE onDelayedCloseTimeout(e)
    BY <2>4, onDelayedCloseTimeoutKeeps
  <2>5. CASE onIdleReadTimeout(e)
    BY <2>5, onIdleReadTimeoutKeeps
  <2>6. CASE doConnect(e)
    BY <2>6, doConnectKeeps
  <2>7. CASE ConnectResolves(e)
    BY <2>7, ConnectResolvesKeeps
  <2>8. CASE ConnectTimeout(e)
    BY <2>8, ConnectTimeoutKeeps
  <2>9. CASE Destroy(e)
    BY <2>9, DestroyKeeps
  <2>10. CASE \E n \in 1..MaxBytes : Write(e, n)
    <3>1. PICK n \in 1..MaxBytes : Write(e, n)
      BY <2>10
    <3>2. QED BY <3>1, WriteKeeps
  <2>11. CASE \E type \in CloseTypes : Close(e, type)
    <3>1. PICK type \in CloseTypes : Close(e, type)
      BY <2>11
    <3>2. QED BY <3>1, CloseKeeps
  <2>12. CASE ShutSending(e)
    BY <2>12, ShutSendingKeeps
  <2>13. CASE Resume(e)
    BY <2>13, ResumeKeeps
  <2>14. QED
    BY ONLY <2>1, <2>2, <2>3, <2>4, <2>5, <2>6, <2>7, <2>8, <2>9, <2>10, <2>11,
            <2>12, <2>13
<1>3. QED BY <1>1, <1>2

(* What holds in every state of the two ends, however their loops, timers, *)
(* kernel and applications take turns.                                     *)
THEOREM PairAlwaysInv == Spec => []PairInv
<1>1. PairInv /\ [Next]_vars => PairInv'
  BY NextKeeps DEF Kept
<1>2. QED BY InitPair, <1>1, PTL DEF Spec

LEMMA InvSound == ASSUME PairInv PROVE PairSound
<1>1. \A e \in Ends : Sound(conn[e]) /\ pipe[e] \in 0..Room /\ Counted(e)
  BY DEF PairInv
<1>2. PairTypeOK
  <2>1. ASSUME NEW e \in Ends
        PROVE  /\ conn[e].state \in {"Unborn", "Open", "Closing", "Closed"}
               /\ conn[e].enabled \cup conn[e].active \subseteq {"Read", "Write"}
               /\ pipe[e] \in 0..Room
               /\ conn[e].accepted <= MaxBytes
               /\ conn[e].unreleased => conn[e].state = "Closed" /\ ~conn[e].connectTimer
               /\ Released(conn[e]) =>
                     conn[e].queued = 0 /\ conn[e].enabled = {} /\ ~conn[e].timer
    <3>1. Typed(conn[e]) /\ Over(conn[e]) /\ pipe[e] \in 0..Room
      BY <1>1 DEF Sound
    <3>2. QED BY <3>1, PairAssumption DEF Typed, Over, Bits
  <2>2. ASSUME NEW e \in Ends, conn[Peer(e)].state = "Open"
        PROVE  conn[Peer(e)].got + pipe[e] + conn[e].queued + conn[e].lost
                 = conn[e].accepted
    BY <1>1, <2>2 DEF Counted, Back
  <2>3. QED BY ONLY <2>1, <2>2 DEF PairTypeOK
<1>3. ClosedOnce
  BY <1>1 DEF Sound, Told, ClosedOnce
<1>4. FlushNotCut
  BY <1>1 DEF Sound, Typed, Causes, FlushNotCut
<1>5. QED BY <1>2, <1>3, <1>4 DEF PairSound

(* No byte is in two places or in none while it may still be read; the     *)
(* callbacks of an end hear of its close once and of nothing after it,     *)
(* whichever of the posted close, the timers, a failed write and the       *)
(* application comes first; and no flush that was asked for is cut short   *)
(* by the code that was to finish it, or by the end of the peer's stream.  *)
THEOREM PairAlwaysSound == Spec => []PairSound
<1>1. PairInv => PairSound
  BY InvSound
<1>2. QED BY PairAlwaysInv, <1>1, PTL

LEMMA InvHeard == ASSUME PairInv PROVE NoWakeUpLost
<1>1. InputIsHeard
  <2> SUFFICES ASSUME NEW e \in Ends,
                      conn[e].state = "Open", conn[e].tcp = "ok", ~conn[e].connecting,
                      ~conn[e].disabled, ~conn[e].deferred, ~conn[e].failed,
                      conn[e].queued = 0, "Read" \in Ready(View(e))
               PROVE  \/ "Read" \in conn[e].active
                      \/ conn[e].woken /\ "Read" \in conn[e].enabled
    BY DEF InputIsHeard
  <2>1. Listens(View(e)) /\ View(e).c = conn[e]
    BY ViewGood
  <2>2. InCond(conn[e])
    BY DEF InCond
  <2>3. QED BY <2>1, <2>2 DEF Listens, ListensBut
<1>2. OutputIsHeard
  <2> SUFFICES ASSUME NEW e \in Ends,
                      Alive(e), conn[e].tcp = "ok", ~conn[e].deferred, ~conn[e].failed,
                      conn[e].queued > 0, "Write" \in Ready(View(e))
               PROVE  conn[e].woken /\ "Write" \in conn[e].enabled
    BY DEF OutputIsHeard
  <2>1. Listens(View(e)) /\ View(e).c = conn[e]
    BY ViewGood
  <2>2. OutCond(conn[e])
    BY DEF OutCond, Alive
  <2>3. QED BY <2>1, <2>2 DEF Listens, ListensBut
<1>3. QED BY <1>1, <1>2 DEF NoWakeUpLost

(* Edge triggering loses no wake-up: an end that may read what has come,   *)
(* or has output and room for it, is listening for that and will be run,   *)
(* whatever was switched on and off in the callbacks before.               *)
THEOREM WakeUpsAreKept == Spec => []NoWakeUpLost
<1>1. PairInv => NoWakeUpLost
  BY InvHeard
<1>2. QED BY PairAlwaysInv, <1>1, PTL

(* An end that was asked to close takes no more output from its            *)
(* application and hands its filters no more input, in any step.           *)
THEOREM ClosingStaysDeaf == Spec => ClosingIsDeaf
<1>1. PairInv /\ [Next]_vars =>
        [\A e \in Ends :
          /\ conn[e].half \/ conn[e].state = "Closed" => conn'[e].accepted = conn[e].accepted
          /\ conn[e].state \in {"Closing", "Closed"} /\ ~conn[e].connecting =>
                conn'[e].got = conn[e].got]_vars
  BY NextKeeps DEF Kept, Hushed
<1>2. QED BY PairAlwaysInv, <1>1, PTL DEF Spec, ClosingIsDeaf
=============================================================================
