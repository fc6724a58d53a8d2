------------------------ MODULE ServerSessionsProofs -------------------------
(***************************************************************************)
(* What TLAPS proves about ServerSessions and, at the end, about the       *)
(* questions of ServerQuestions that go on at the same time: for every set *)
(* of connections, resources and questions, and every bound.               *)
(***************************************************************************)
EXTENDS ServerQuestions, FiniteSetTheorems, TLAPS

-----------------------------------------------------------------------------
(* The session manager by itself: one lemma for each thing it does.        *)

Session == [conn : Conns \cup {NoConn}, stream : 0..MaxStreams,
            expired : BOOLEAN, subs : SUBSET Uris]

Fields == {"sessions", "byStream", "byConn", "created", "subscribers"}

Shape(s) ==
    /\ DOMAIN s = Fields
    /\ s.created \in Nat
    /\ DOMAIN s.sessions \subseteq 1..s.created
    /\ \A i \in DOMAIN s.sessions : s.sessions[i] \in Session
    /\ s.subscribers \in [Uris -> SUBSET Nat]

(* A session is found under its own key.                                   *)
ByKey(s, i) ==
    LET x == s.sessions[i] IN
    IF x.stream # NoStream
    THEN x.conn = NoConn /\ x.stream \in DOMAIN s.byStream /\ s.byStream[x.stream] = i
    ELSE x.conn \in DOMAIN s.byConn /\ s.byConn[x.conn] = i

(* SessionMapsAgree, with a session found under its own key.               *)
Keyed(s) ==
    /\ \A n \in DOMAIN s.byStream :
          /\ n \in 1..MaxStreams
          /\ s.byStream[n] \in DOMAIN s.sessions
          /\ s.sessions[s.byStream[n]].stream = n
    /\ \A c \in DOMAIN s.byConn :
          /\ c \in Conns
          /\ s.byConn[c] \in DOMAIN s.sessions
          /\ s.sessions[s.byConn[c]].conn = c
    /\ \A i \in DOMAIN s.sessions : ByKey(s, i)

Subscribed(s) ==
    \A u \in Uris :
        s.subscribers[u] = {i \in DOMAIN s.sessions : u \in s.sessions[i].subs}

MgrOK(s) ==
    /\ Shape(s) /\ Keyed(s) /\ Subscribed(s)
    /\ Cardinality(DOMAIN s.sessions) <= MaxSessions

(* What the session of a stream, or of a connection, is subscribed to.     *)
Held(s, n) == IF n \in DOMAIN s.byStream THEN s.sessions[s.byStream[n]].subs ELSE {}
HeldBy(s, c) == IF c \in DOMAIN s.byConn THEN s.sessions[s.byConn[c]].subs ELSE {}

(* A session is keyed on a stream or on a connection, not on both.         *)
LEMMA OneKey ==
    ASSUME NEW s, Shape(s), Keyed(s), NEW c \in DOMAIN s.byConn
    PROVE  s.sessions[s.byConn[c]].stream = NoStream
BY SessionsAssumption DEF Keyed, ByKey

LEMMA FinitelyMany ==
    ASSUME NEW s, Shape(s), NEW D, D \subseteq DOMAIN s.sessions
    PROVE  /\ IsFiniteSet(D) /\ Cardinality(D) \in Nat
           /\ Cardinality(DOMAIN s.sessions) \in Nat
           /\ Cardinality(D) <= Cardinality(DOMAIN s.sessions)
<1>1. IsFiniteSet(1..s.created)
  BY FS_Interval DEF Shape
<1>2. IsFiniteSet(DOMAIN s.sessions)
  BY <1>1, FS_Subset DEF Shape
<1>3. QED BY <1>2, FS_Subset, FS_CardinalityType

(* Sessions taken out, field by field.                                     *)
LessGone(s, r, gone) ==
    /\ DOMAIN r = Fields
    /\ r.created = s.created
    /\ DOMAIN r.sessions = DOMAIN s.sessions \ gone
    /\ \A i \in DOMAIN r.sessions : r.sessions[i] = s.sessions[i]
    /\ DOMAIN r.byStream = {n \in DOMAIN s.byStream : s.byStream[n] \notin gone}
    /\ \A n \in DOMAIN r.byStream : r.byStream[n] = s.byStream[n]
    /\ DOMAIN r.byConn = {c \in DOMAIN s.byConn : s.byConn[c] \notin gone}
    /\ \A c \in DOMAIN r.byConn : r.byConn[c] = s.byConn[c]
    /\ r.subscribers = [u \in Uris |-> s.subscribers[u] \ gone]

LEMMA RemovedFields ==
    ASSUME NEW s, MgrOK(s), NEW gone
    PROVE  LessGone(s, Removed(s, gone), gone)
BY DEF MgrOK, LessGone, Removed, releaseSession, Restrict, Shape, Fields

LEMMA RemovedOK ==
    ASSUME NEW s, MgrOK(s), NEW gone
    PROVE  MgrOK(Removed(s, gone))
<1> DEFINE r == Removed(s, gone)
<1> HIDE DEF r
<1>1. LessGone(s, r, gone)
  BY RemovedFields DEF r
<1>2. Shape(r)
  BY <1>1 DEF MgrOK, Shape, LessGone
<1>3. Keyed(r)
  <2>1. Keyed(s)
    BY DEF MgrOK
  <2>2. \A n \in DOMAIN r.byStream : /\ n \in 1..MaxStreams
                                    /\ r.byStream[n] \in DOMAIN r.sessions
                                    /\ r.sessions[r.byStream[n]].stream = n
    BY ONLY <1>1, <2>1 DEF Keyed, ByKey, LessGone
  <2>3. \A c \in DOMAIN r.byConn : /\ c \in Conns /\ r.byConn[c] \in DOMAIN r.sessions
                                  /\ r.sessions[r.byConn[c]].conn = c
    BY ONLY <1>1, <2>1 DEF Keyed, ByKey, LessGone
  <2>4. ASSUME NEW k \in DOMAIN r.sessions PROVE ByKey(r, k)
    <3>1. k \in DOMAIN s.sessions /\ k \notin gone /\ r.sessions[k] = s.sessions[k] /\ ByKey(s, k)
      BY ONLY <1>1, <2>1, <2>4 DEF Keyed, ByKey, LessGone
    <3>2. QED BY ONLY <3>1, <1>1 DEF ByKey, LessGone
  <2>5. QED BY ONLY <2>2, <2>3, <2>4 DEF Keyed, ByKey
<1>4. Subscribed(r)
  BY <1>1 DEF MgrOK, Subscribed, LessGone
<1>5. Cardinality(DOMAIN r.sessions) <= MaxSessions
  <2>1. DOMAIN r.sessions \subseteq DOMAIN s.sessions
    BY <1>1 DEF LessGone
  <2>2. /\ Cardinality(DOMAIN r.sessions) <= Cardinality(DOMAIN s.sessions)
        /\ Cardinality(DOMAIN r.sessions) \in Nat /\ Cardinality(DOMAIN s.sessions) \in Nat
    <3>1. Shape(s) /\ Shape(r)
      BY <1>2 DEF MgrOK
    <3>2. QED BY <2>1, <3>1, FinitelyMany
  <2>3. QED BY <2>2, SessionsAssumption DEF MgrOK
<1>6. QED BY <1>2, <1>3, <1>4, <1>5 DEF MgrOK, r

(* r is s with fewer sessions, and the streams that keep theirs.           *)
Trimmed(s, r, kept) ==
    /\ MgrOK(r)
    /\ r.created = s.created
    /\ DOMAIN r.byStream \subseteq DOMAIN s.byStream
    /\ DOMAIN r.byConn \subseteq DOMAIN s.byConn
    /\ \A n \in kept : Held(r, n) = Held(s, n)
    /\ \A c \in Conns : HeldBy(r, c) \subseteq HeldBy(s, c)

(* A stream's session is taken out only by naming it.                      *)
LEMMA RemovedTrims ==
    ASSUME NEW s, MgrOK(s), NEW gone, NEW kept,
           \A n \in kept : n \in DOMAIN s.byStream => s.byStream[n] \notin gone
    PROVE  Trimmed(s, Removed(s, gone), kept)
<1> DEFINE r == Removed(s, gone)
<1> HIDE DEF r
<1>1. LessGone(s, r, gone) /\ MgrOK(r)
  BY RemovedFields, RemovedOK DEF r
<1>2. \A n \in DOMAIN s.byStream : s.byStream[n] \in DOMAIN s.sessions
  BY DEF MgrOK, Keyed, ByKey
<1>3. \A c \in DOMAIN s.byConn : s.byConn[c] \in DOMAIN s.sessions
  BY DEF MgrOK, Keyed, ByKey
<1>4. \A n \in kept : Held(r, n) = Held(s, n)
  BY <1>1, <1>2 DEF Held, LessGone
<1>5. \A c \in Conns : HeldBy(r, c) \subseteq HeldBy(s, c)
  BY <1>1, <1>3 DEF HeldBy, LessGone
<1>6. QED BY <1>1, <1>4, <1>5 DEF Trimmed, LessGone, r

LEMMA StreamKeys ==
    ASSUME NEW s, MgrOK(s)
    PROVE  \A n \in DOMAIN s.byStream :
              n # 0 /\ s.byStream[n] \in DOMAIN s.sessions
                    /\ s.sessions[s.byStream[n]].stream = n
BY DEF MgrOK, Keyed, ByKey

LEMMA CleanupOK ==
    ASSUME NEW s, MgrOK(s)
    PROVE  /\ Trimmed(s, cleanupExpiredSessions(s), Nat)
           /\ DOMAIN cleanupExpiredSessions(s).byStream = DOMAIN s.byStream
<1> DEFINE gone == {i \in DOMAIN s.sessions :
                       s.sessions[i].stream = NoStream /\ s.sessions[i].expired}
<1>1. \A n \in DOMAIN s.byStream : s.byStream[n] \notin gone
  BY StreamKeys DEF NoStream
<1>2. cleanupExpiredSessions(s) = Removed(s, gone)
  BY DEF cleanupExpiredSessions
<1> HIDE DEF gone
<1>3. Trimmed(s, Removed(s, gone), Nat)
  BY <1>1, RemovedTrims
<1>4. LessGone(s, Removed(s, gone), gone)
  BY RemovedFields
<1>5. QED BY <1>1, <1>2, <1>3, <1>4 DEF LessGone

(* The sessions of streams that closed: nothing else is touched.           *)
LEMMA StreamsClosedOK ==
    ASSUME NEW s, MgrOK(s), NEW closed
    PROVE  Trimmed(s, removeSessionByTransportId(s, closed), Nat \ closed)
<1> DEFINE gone == {s.byStream[n] : n \in closed \cap DOMAIN s.byStream}
<1>1. \A n \in Nat \ closed : n \in DOMAIN s.byStream => s.byStream[n] \notin gone
  BY StreamKeys
<1>2. removeSessionByTransportId(s, closed) = Removed(s, gone)
  BY DEF removeSessionByTransportId
<1> HIDE DEF gone
<1>3. QED BY <1>1, <1>2, RemovedTrims

LEMMA ConnectionClosedOK ==
    ASSUME NEW s, MgrOK(s), NEW c
    PROVE  /\ Trimmed(s, removeSessionByConnection(s, c), Nat)
           /\ c \notin DOMAIN removeSessionByConnection(s, c).byConn
<1>1. CASE c \notin DOMAIN s.byConn
  BY <1>1 DEF removeSessionByConnection, Trimmed
<1>2. CASE c \in DOMAIN s.byConn
  <2> DEFINE gone == {s.byConn[c]}
  <2>1. s.sessions[s.byConn[c]].stream = 0
    BY <1>2, OneKey DEF MgrOK, NoStream
  <2>2. \A n \in DOMAIN s.byStream : s.byStream[n] \notin gone
    BY <2>1, StreamKeys
  <2>3. removeSessionByConnection(s, c) = Removed(s, gone)
    BY <1>2 DEF removeSessionByConnection
  <2>4. s.byConn[c] \in gone
    OBVIOUS
  <2> HIDE DEF gone
  <2>5. Trimmed(s, Removed(s, gone), Nat)
    BY <2>2, RemovedTrims
  <2>6. LessGone(s, Removed(s, gone), gone)
    BY RemovedFields
  <2>7. QED BY <2>3, <2>4, <2>5, <2>6 DEF LessGone
<1>3. QED BY <1>1, <1>2

(* One session more, under one key, field by field.                        *)
OneMore(w, q, c, n, i) ==
    /\ DOMAIN q = Fields
    /\ q.created = i
    /\ DOMAIN q.sessions = DOMAIN w.sessions \cup {i}
    /\ \A k \in DOMAIN w.sessions : q.sessions[k] = w.sessions[k]
    /\ q.sessions[i] = NewSession(c, n)
    /\ DOMAIN q.byStream = DOMAIN w.byStream \cup ({n} \ {NoStream})
    /\ \A k \in DOMAIN w.byStream : q.byStream[k] = w.byStream[k]
    /\ n # NoStream => q.byStream[n] = i
    /\ DOMAIN q.byConn = DOMAIN w.byConn \cup ({c} \ {NoConn})
    /\ \A k \in DOMAIN w.byConn : q.byConn[k] = w.byConn[k]
    /\ c # NoConn => q.byConn[c] = i
    /\ q.subscribers = w.subscribers

(* A key nobody has yet: a stream, or a connection.                        *)
NewKey(s, c, n) ==
    \/ c = NoConn /\ n \in 1..MaxStreams /\ n \notin DOMAIN s.byStream
    \/ c \in Conns /\ n = NoStream /\ c \notin DOMAIN s.byConn

LEMMA OneMoreOK ==
    ASSUME NEW w, MgrOK(w), NEW q, NEW c, NEW n, NEW i,
           NewKey(w, c, n), i = w.created + 1, OneMore(w, q, c, n, i),
           Cardinality(DOMAIN w.sessions) < MaxSessions
    PROVE  /\ MgrOK(q)
           /\ \A m \in Nat : Held(q, m) = Held(w, m)
           /\ \A d \in Conns : HeldBy(q, d) = HeldBy(w, d)
<1>1. i \in Nat /\ i \notin DOMAIN w.sessions /\ i # 0
  BY DEF MgrOK, Shape
<1>2. NoConn \notin Conns /\ MaxStreams \in Nat
  BY SessionsAssumption
<1>3. NewSession(c, n) \in Session
  BY <1>2 DEF NewSession, Session, NewKey, NoStream
<1>4. /\ NewSession(c, n).conn = c /\ NewSession(c, n).stream = n
      /\ NewSession(c, n).subs = {}
  BY DEF NewSession
<1>5. Shape(q)
  BY <1>1, <1>3 DEF MgrOK, Shape, OneMore
<1>6. Keyed(q)
  <2>1. Keyed(w)
    BY DEF MgrOK
  <2>0. \A m \in DOMAIN w.byStream : /\ w.byStream[m] \in DOMAIN w.sessions /\ w.byStream[m] # i
                                    /\ q.byStream[m] = w.byStream[m]
                                    /\ q.sessions[w.byStream[m]] = w.sessions[w.byStream[m]]
    BY <1>1, <2>1 DEF Keyed, ByKey, OneMore
  <2>10. \A d \in DOMAIN w.byConn : /\ w.byConn[d] \in DOMAIN w.sessions /\ w.byConn[d] # i
                                   /\ q.byConn[d] = w.byConn[d]
                                   /\ q.sessions[w.byConn[d]] = w.sessions[w.byConn[d]]
    BY <1>1, <2>1 DEF Keyed, ByKey, OneMore
  <2>2. CASE c = NoConn /\ n \in 1..MaxStreams /\ n \notin DOMAIN w.byStream
    <3>1. /\ DOMAIN q.byStream = DOMAIN w.byStream \cup {n} /\ q.byStream[n] = i
          /\ DOMAIN q.byConn = DOMAIN w.byConn
          /\ DOMAIN q.sessions = DOMAIN w.sessions \cup {i}
          /\ q.sessions[i].conn = NoConn /\ q.sessions[i].stream = n /\ n # NoStream
      BY <1>2, <1>4, <2>2 DEF OneMore, NoStream
    <3>2. \A m \in DOMAIN q.byStream : /\ m \in 1..MaxStreams
                                      /\ q.byStream[m] \in DOMAIN q.sessions
                                      /\ q.sessions[q.byStream[m]].stream = m
      BY <2>0, <2>1, <2>2, <3>1 DEF Keyed, ByKey
    <3>3. \A d \in DOMAIN q.byConn : /\ d \in Conns /\ q.byConn[d] \in DOMAIN q.sessions
                                    /\ q.sessions[q.byConn[d]].conn = d
      BY <2>10, <2>1, <3>1 DEF Keyed, ByKey
    <3>4. \A k \in DOMAIN w.sessions : q.sessions[k] = w.sessions[k]
      BY DEF OneMore
    <3>5. \A k \in DOMAIN q.sessions : ByKey(q, k)
      <4>1. ByKey(q, i)
        BY ONLY <3>1, <1>2 DEF ByKey, NoStream
      <4>2. ASSUME NEW k \in DOMAIN w.sessions PROVE ByKey(q, k)
        <5>1. ByKey(w, k) /\ q.sessions[k] = w.sessions[k]
          BY ONLY <2>1, <3>4, <4>2 DEF Keyed, ByKey
        <5>2. QED BY ONLY <5>1, <2>0, <2>10, <3>1 DEF ByKey
      <4>3. QED BY ONLY <3>1, <4>1, <4>2
    <3>6. QED BY ONLY <3>2, <3>3, <3>5 DEF Keyed, ByKey
  <2>3. CASE c \in Conns /\ n = NoStream /\ c \notin DOMAIN w.byConn
    <3>1. /\ DOMAIN q.byConn = DOMAIN w.byConn \cup {c} /\ q.byConn[c] = i
          /\ DOMAIN q.byStream = DOMAIN w.byStream
          /\ DOMAIN q.sessions = DOMAIN w.sessions \cup {i}
          /\ q.sessions[i].conn = c /\ q.sessions[i].stream = NoStream
      BY <1>2, <1>4, <2>3 DEF OneMore, NoStream
    <3>2. \A m \in DOMAIN q.byStream : /\ m \in 1..MaxStreams
                                      /\ q.byStream[m] \in DOMAIN q.sessions
                                      /\ q.sessions[q.byStream[m]].stream = m
      BY <2>0, <2>1, <3>1 DEF Keyed, ByKey
    <3>3. \A d \in DOMAIN q.byConn : /\ d \in Conns /\ q.byConn[d] \in DOMAIN q.sessions
                                    /\ q.sessions[q.byConn[d]].conn = d
      BY <2>10, <2>1, <2>3, <3>1 DEF Keyed, ByKey
    <3>4. \A k \in DOMAIN w.sessions : q.sessions[k] = w.sessions[k]
      BY DEF OneMore
    <3>5. \A k \in DOMAIN q.sessions : ByKey(q, k)
      <4>1. ByKey(q, i)
        BY ONLY <3>1, <1>2 DEF ByKey, NoStream
      <4>2. ASSUME NEW k \in DOMAIN w.sessions PROVE ByKey(q, k)
        <5>1. ByKey(w, k) /\ q.sessions[k] = w.sessions[k]
          BY ONLY <2>1, <3>4, <4>2 DEF Keyed, ByKey
        <5>2. QED BY ONLY <5>1, <2>0, <2>10, <3>1 DEF ByKey
      <4>3. QED BY ONLY <3>1, <4>1, <4>2
    <3>6. QED BY ONLY <3>2, <3>3, <3>5 DEF Keyed, ByKey
  <2>4. QED BY <2>2, <2>3 DEF NewKey
<1>7. Subscribed(q)
  BY <1>1, <1>4 DEF MgrOK, Subscribed, OneMore
<1>8. Cardinality(DOMAIN q.sessions) <= MaxSessions
  <2>1. IsFiniteSet(DOMAIN w.sessions) /\ Cardinality(DOMAIN w.sessions) \in Nat
    BY FinitelyMany DEF MgrOK
  <2>2. Cardinality(DOMAIN q.sessions) = Cardinality(DOMAIN w.sessions) + 1
    <3>1. Cardinality(DOMAIN w.sessions \cup {i}) = Cardinality(DOMAIN w.sessions) + 1
      BY ONLY <1>1, <2>1, FS_AddElement
    <3>2. QED BY ONLY <3>1, OneMore(w, q, c, n, i) DEF OneMore
  <2>3. QED BY <2>1, <2>2, SessionsAssumption
<1>9. \A m \in Nat : Held(q, m) = Held(w, m)
  <2>1. \A m \in DOMAIN w.byStream : w.byStream[m] \in DOMAIN w.sessions
    BY DEF MgrOK, Keyed, ByKey
  <2>2. QED BY <1>2, <1>4, <2>1 DEF Held, OneMore, NewKey, NoStream
<1>10. \A d \in Conns : HeldBy(q, d) = HeldBy(w, d)
  <2>1. \A d \in DOMAIN w.byConn : w.byConn[d] \in DOMAIN w.sessions
    BY DEF MgrOK, Keyed, ByKey
  <2>2. QED BY <1>2, <1>4, <2>1 DEF HeldBy, OneMore, NewKey, NoStream
<1>11. QED BY <1>5, <1>6, <1>7, <1>8, <1>9, <1>10 DEF MgrOK

(* What getOrCreateSessionFor promises: a sound manager, and the session   *)
(* of the key, unless there was no room.                                   *)
Found(s, r, c, n) ==
    /\ MgrOK(r.mgr)
    /\ r.id # 0 => r.id \in DOMAIN r.mgr.sessions
    /\ r.id # 0 /\ n # NoStream => n \in DOMAIN r.mgr.byStream /\ r.mgr.byStream[n] = r.id
    /\ r.id # 0 /\ n = NoStream => c \in DOMAIN r.mgr.byConn /\ r.mgr.byConn[c] = r.id
    /\ \A m \in Nat : Held(r.mgr, m) = Held(s, m)
    /\ \A d \in Conns : HeldBy(r.mgr, d) \subseteq HeldBy(s, d)
    /\ DOMAIN r.mgr.byStream \subseteq DOMAIN s.byStream \cup ({n} \ {NoStream})
    /\ DOMAIN r.mgr.byConn \subseteq DOMAIN s.byConn \cup ({c} \ {NoConn})
    /\ r.id = 0 => DOMAIN r.mgr.byConn \subseteq DOMAIN s.byConn

LEMMA CreatedOK ==
    ASSUME NEW s, MgrOK(s), NEW c, NEW n, NewKey(s, c, n)
    PROVE  Found(s, Created(s, c, n), c, n)
<1> DEFINE w == IF Full(s) THEN cleanupExpiredSessions(s) ELSE s
           i == s.created + 1
           q == [w EXCEPT !.created = i,
                          !.sessions = Having(@, i, NewSession(c, n)),
                          !.byStream = IF n = NoStream THEN @ ELSE Having(@, n, i),
                          !.byConn = IF c = NoConn THEN @ ELSE Having(@, c, i)]
<1>1. Trimmed(s, w, Nat) /\ DOMAIN w.byStream = DOMAIN s.byStream
  <2>1. Trimmed(s, s, Nat)
    BY DEF Trimmed
  <2>2. QED BY <2>1, CleanupOK
<1>2. Created(s, c, n) = IF Full(w) THEN [mgr |-> w, id |-> 0] ELSE [mgr |-> q, id |-> i]
  BY DEF Created
<1> HIDE DEF w
<1>3. CASE Full(w)
  BY <1>1, <1>2, <1>3 DEF Found, Trimmed
<1>4. CASE ~Full(w)
  <2>1. MgrOK(w) /\ i = w.created + 1 /\ w.created \in Nat
    BY <1>1 DEF Trimmed, MgrOK, Shape
  <2>2. i \in Nat /\ i # 0 /\ i \notin DOMAIN w.sessions
    BY <2>1 DEF MgrOK, Shape
  <2>3. NewKey(w, c, n)
    BY <1>1 DEF NewKey, Trimmed
  <2>4. OneMore(w, q, c, n, i)
    <3>1. DOMAIN w = Fields
      BY <2>1 DEF MgrOK, Shape
    <3> HIDE DEF i
    <3>2. /\ DOMAIN q = Fields
          /\ q.created = i
          /\ q.sessions = Having(w.sessions, i, NewSession(c, n))
          /\ q.byStream = IF n = NoStream THEN w.byStream ELSE Having(w.byStream, n, i)
          /\ q.byConn = IF c = NoConn THEN w.byConn ELSE Having(w.byConn, c, i)
          /\ q.subscribers = w.subscribers
      BY <3>1 DEF Fields
    <3> HIDE DEF q
    <3>3. n # NoStream => n \notin DOMAIN w.byStream
      BY <2>3, SessionsAssumption DEF NewKey, NoStream
    <3>4. c # NoConn => c \notin DOMAIN w.byConn
      BY <2>3, SessionsAssumption DEF NewKey, NoStream
    <3>5. /\ DOMAIN q.sessions = DOMAIN w.sessions \cup {i}
          /\ \A k \in DOMAIN w.sessions : q.sessions[k] = w.sessions[k]
          /\ q.sessions[i] = NewSession(c, n)
      BY <2>2, <3>2 DEF Having
    <3>6. /\ DOMAIN q.byStream = DOMAIN w.byStream \cup ({n} \ {NoStream})
          /\ \A k \in DOMAIN w.byStream : q.byStream[k] = w.byStream[k]
          /\ n # NoStream => q.byStream[n] = i
      BY <3>2, <3>3 DEF Having
    <3>7. /\ DOMAIN q.byConn = DOMAIN w.byConn \cup ({c} \ {NoConn})
          /\ \A k \in DOMAIN w.byConn : q.byConn[k] = w.byConn[k]
          /\ c # NoConn => q.byConn[c] = i
      BY <3>2, <3>4 DEF Having
    <3>8. QED BY <3>2, <3>5, <3>6, <3>7 DEF OneMore
  <2>5. Cardinality(DOMAIN w.sessions) < MaxSessions
    <3>1. Cardinality(DOMAIN w.sessions) \in Nat
      BY <2>1, FinitelyMany DEF MgrOK
    <3>2. QED BY <1>4, <3>1, SessionsAssumption DEF Full
  <2> HIDE DEF i, q
  <2>6. /\ MgrOK(q)
        /\ \A m \in Nat : Held(q, m) = Held(w, m)
        /\ \A d \in Conns : HeldBy(q, d) = HeldBy(w, d)
    BY <2>1, <2>3, <2>4, <2>5, OneMoreOK
  <2>7. Created(s, c, n) = [mgr |-> q, id |-> i]
    BY <1>2, <1>4
  <2>8. NoStream = 0 /\ (n = NoStream => c # NoConn)
    BY <2>3, SessionsAssumption DEF NewKey, NoStream
  <2>9. QED BY <1>1, <2>2, <2>4, <2>6, <2>7, <2>8 DEF Found, Trimmed, OneMore
<1>5. QED BY <1>3, <1>4

(* Only whether a session is idle has changed.                             *)
Idle(s, r) ==
    /\ DOMAIN r = Fields
    /\ r.created = s.created /\ r.byStream = s.byStream /\ r.byConn = s.byConn
    /\ r.subscribers = s.subscribers
    /\ DOMAIN r.sessions = DOMAIN s.sessions
    /\ \A i \in DOMAIN s.sessions :
          /\ r.sessions[i] \in Session
          /\ r.sessions[i].conn = s.sessions[i].conn
          /\ r.sessions[i].stream = s.sessions[i].stream
          /\ r.sessions[i].subs = s.sessions[i].subs

LEMMA IdleOK ==
    ASSUME NEW s, MgrOK(s), NEW r, Idle(s, r)
    PROVE  /\ MgrOK(r)
           /\ \A n \in Nat : Held(r, n) = Held(s, n)
           /\ \A c \in Conns : HeldBy(r, c) = HeldBy(s, c)
<1>1. Shape(r)
  BY DEF MgrOK, Shape, Idle
<1>2. Keyed(r)
  BY DEF MgrOK, Keyed, ByKey, Idle
<1>3. Subscribed(r)
  BY DEF MgrOK, Subscribed, Idle
<1>4. Cardinality(DOMAIN r.sessions) <= MaxSessions
  BY DEF MgrOK, Idle
<1>5. \A n \in Nat : Held(r, n) = Held(s, n)
  BY DEF MgrOK, Keyed, ByKey, Held, Idle
<1>6. \A c \in Conns : HeldBy(r, c) = HeldBy(s, c)
  BY DEF MgrOK, Keyed, ByKey, HeldBy, Idle
<1>7. QED BY <1>1, <1>2, <1>3, <1>4, <1>5, <1>6 DEF MgrOK

LEMMA ExpiryOnly ==
    ASSUME NEW s, MgrOK(s), NEW e, DOMAIN e = DOMAIN s.sessions,
           \A i \in DOMAIN e : \E b \in BOOLEAN : e[i] = [s.sessions[i] EXCEPT !.expired = b]
    PROVE  Idle(s, [s EXCEPT !.sessions = e])
<1>1. \A x \in Session, b \in BOOLEAN :
         LET y == [x EXCEPT !.expired = b] IN
         y \in Session /\ y.conn = x.conn /\ y.stream = x.stream /\ y.subs = x.subs
  BY DEF Session
<1>2. \A i \in DOMAIN e :
         /\ e[i] \in Session /\ e[i].conn = s.sessions[i].conn
         /\ e[i].stream = s.sessions[i].stream /\ e[i].subs = s.sessions[i].subs
  <2> SUFFICES ASSUME NEW i \in DOMAIN e
               PROVE  /\ e[i] \in Session /\ e[i].conn = s.sessions[i].conn
                      /\ e[i].stream = s.sessions[i].stream
                      /\ e[i].subs = s.sessions[i].subs
    OBVIOUS
  <2>1. PICK b \in BOOLEAN : e[i] = [s.sessions[i] EXCEPT !.expired = b]
    OBVIOUS
  <2>2. s.sessions[i] \in Session
    BY DEF MgrOK, Shape
  <2>3. QED BY <1>1, <2>1, <2>2
<1>3. QED BY <1>2 DEF MgrOK, Shape, Idle, Fields

LEMMA ActivityOK ==
    ASSUME NEW s, MgrOK(s), NEW i \in DOMAIN s.sessions, NEW b \in BOOLEAN
    PROVE  Idle(s, [s EXCEPT !.sessions[i].expired = b])
<1> DEFINE e == [s.sessions EXCEPT ![i].expired = b]
<1>1. \A k \in DOMAIN e : \E d \in BOOLEAN : e[k] = [s.sessions[k] EXCEPT !.expired = d]
  <2> SUFFICES ASSUME NEW k \in DOMAIN e
               PROVE  \E d \in BOOLEAN : e[k] = [s.sessions[k] EXCEPT !.expired = d]
    OBVIOUS
  <2>1. CASE k = i
    BY <2>1
  <2>2. CASE k # i
    <3>1. s.sessions[k] \in Session
      BY DEF MgrOK, Shape
    <3>2. s.sessions[k] = [s.sessions[k] EXCEPT !.expired = s.sessions[k].expired]
      BY <3>1 DEF Session
    <3>3. s.sessions[k].expired \in BOOLEAN
      BY <3>1 DEF Session
    <3>4. QED BY <2>2, <3>2, <3>3
  <2>3. QED BY <2>1, <2>2
<1>2. DOMAIN e = DOMAIN s.sessions
  OBVIOUS
<1>3. [s EXCEPT !.sessions[i].expired = b] = [s EXCEPT !.sessions = e]
  OBVIOUS
<1> HIDE DEF e
<1>4. QED BY <1>1, <1>2, <1>3, ExpiryOnly

(* What a method makes of what its session is subscribed to.               *)
After(method, subs, u) ==
    CASE method = "subscribe" -> subs \cup {u}
      [] method = "unsubscribe" -> subs \ {u}
      [] OTHER -> subs

(* One session's subscriptions have changed, and the subscribers with it.  *)
Resubscribed(s, r, i, method, u) ==
    /\ DOMAIN r = Fields
    /\ r.created = s.created /\ r.byStream = s.byStream /\ r.byConn = s.byConn
    /\ r.subscribers \in [Uris -> SUBSET Nat]
    /\ \A v \in Uris : r.subscribers[v] =
          IF v = u THEN After(method, s.subscribers[v], i) ELSE s.subscribers[v]
    /\ DOMAIN r.sessions = DOMAIN s.sessions
    /\ \A k \in DOMAIN s.sessions \ {i} : r.sessions[k] = s.sessions[k]
    /\ r.sessions[i] \in Session
    /\ r.sessions[i].conn = s.sessions[i].conn
    /\ r.sessions[i].stream = s.sessions[i].stream
    /\ r.sessions[i].subs = After(method, s.sessions[i].subs, u)

LEMMA HandledFields ==
    ASSUME NEW s, MgrOK(s), NEW i \in DOMAIN s.sessions, NEW method, NEW u \in Uris
    PROVE  Resubscribed(s, Handled(s, i, method, u), i, method, u)
<1>1. /\ DOMAIN s = Fields /\ s.sessions[i] \in Session /\ i \in Nat
      /\ s.subscribers \in [Uris -> SUBSET Nat]
  BY DEF MgrOK, Shape
<1>2. \A x \in Session, S \in SUBSET Uris :
         LET y == [x EXCEPT !.subs = S] IN
         y \in Session /\ y.conn = x.conn /\ y.stream = x.stream /\ y.subs = S
  BY DEF Session
<1>3. s.sessions[i].subs \subseteq Uris
  BY <1>1 DEF Session
<1>4. ASSUME NEW S \in SUBSET Uris, NEW N \in SUBSET Nat, NEW r,
             r = [s EXCEPT !.subscribers[u] = N, !.sessions[i].subs = S],
             N = After(method, s.subscribers[u], i), S = After(method, s.sessions[i].subs, u)
      PROVE  Resubscribed(s, r, i, method, u)
  <2>1. /\ DOMAIN r = Fields
        /\ r.created = s.created /\ r.byStream = s.byStream /\ r.byConn = s.byConn
        /\ r.subscribers = [s.subscribers EXCEPT ![u] = N]
        /\ r.sessions = [s.sessions EXCEPT ![i].subs = S]
    BY <1>1, <1>4 DEF Fields
  <2>2. r.sessions[i] = [s.sessions[i] EXCEPT !.subs = S]
    BY <2>1
  <2>3. /\ r.sessions[i] \in Session /\ r.sessions[i].conn = s.sessions[i].conn
        /\ r.sessions[i].stream = s.sessions[i].stream /\ r.sessions[i].subs = S
    BY <1>1, <1>2, <2>2
  <2>4. QED BY <1>1, <1>4, <2>1, <2>3 DEF Resubscribed
<1>5. CASE method = "subscribe"
  <2> DEFINE S == s.sessions[i].subs \cup {u}
             N == s.subscribers[u] \cup {i}
  <2>1. Handled(s, i, method, u) = [s EXCEPT !.subscribers[u] = N, !.sessions[i].subs = S]
    BY <1>5 DEF Handled, handleSubscribe
  <2>2. S \in SUBSET Uris /\ N \in SUBSET Nat
    BY <1>1, <1>3
  <2>3. N = After(method, s.subscribers[u], i) /\ S = After(method, s.sessions[i].subs, u)
    BY <1>5 DEF After
  <2> HIDE DEF S, N
  <2>4. QED BY <1>4, <2>1, <2>2, <2>3
<1>6. CASE method = "unsubscribe"
  <2> DEFINE S == s.sessions[i].subs \ {u}
             N == s.subscribers[u] \ {i}
  <2>1. Handled(s, i, method, u) = [s EXCEPT !.subscribers[u] = N, !.sessions[i].subs = S]
    BY <1>6 DEF Handled, handleUnsubscribe
  <2>2. S \in SUBSET Uris /\ N \in SUBSET Nat
    BY <1>1, <1>3
  <2>3. N = After(method, s.subscribers[u], i) /\ S = After(method, s.sessions[i].subs, u)
    BY <1>6 DEF After
  <2> HIDE DEF S, N
  <2>4. QED BY <1>4, <2>1, <2>2, <2>3
<1>7. CASE method \notin {"subscribe", "unsubscribe"}
  <2>1. Handled(s, i, method, u) = s
    BY <1>7 DEF Handled
  <2>2. QED BY <1>1, <1>7, <2>1 DEF Resubscribed, After
<1>8. QED BY <1>5, <1>6, <1>7

(* So what is held changes under that session's key, and nowhere else.     *)
Reheld(s, r, i, method, u) ==
    /\ \A n \in Nat : Held(r, n) =
          IF n \in DOMAIN s.byStream /\ s.byStream[n] = i
          THEN After(method, Held(s, n), u) ELSE Held(s, n)
    /\ \A c \in Conns : HeldBy(r, c) =
          IF c \in DOMAIN s.byConn /\ s.byConn[c] = i
          THEN After(method, HeldBy(s, c), u) ELSE HeldBy(s, c)

LEMMA ResubscribedOK ==
    ASSUME NEW s, MgrOK(s), NEW i \in DOMAIN s.sessions, NEW method, NEW u \in Uris,
           NEW r, Resubscribed(s, r, i, method, u)
    PROVE  MgrOK(r) /\ Reheld(s, r, i, method, u)
<1>1. Shape(r)
  BY DEF MgrOK, Shape, Resubscribed
<1>2. Keyed(r)
  <2>1. /\ Keyed(s) /\ r.byStream = s.byStream /\ r.byConn = s.byConn
        /\ DOMAIN r.sessions = DOMAIN s.sessions
        /\ \A k \in DOMAIN s.sessions : /\ r.sessions[k].conn = s.sessions[k].conn
                                       /\ r.sessions[k].stream = s.sessions[k].stream
    BY DEF MgrOK, Resubscribed
  <2>2. QED BY ONLY <2>1 DEF Keyed, ByKey
<1>3. Subscribed(r)
  <2> SUFFICES ASSUME NEW v \in Uris
               PROVE  r.subscribers[v] = {k \in DOMAIN r.sessions : v \in r.sessions[k].subs}
    BY DEF Subscribed
  <2>1. s.subscribers[v] = {k \in DOMAIN s.sessions : v \in s.sessions[k].subs}
    BY DEF MgrOK, Subscribed
  <2>2. \A k \in DOMAIN s.sessions \ {i} : r.sessions[k] = s.sessions[k]
    BY DEF Resubscribed
  <2>3. /\ DOMAIN r.sessions = DOMAIN s.sessions
        /\ r.sessions[i].subs = After(method, s.sessions[i].subs, u)
        /\ r.subscribers[v] =
             IF v = u THEN After(method, s.subscribers[v], i) ELSE s.subscribers[v]
    BY DEF Resubscribed
  <2>4. QED BY <2>1, <2>2, <2>3 DEF After
<1>4. Cardinality(DOMAIN r.sessions) <= MaxSessions
  BY DEF MgrOK, Resubscribed
<1>5. \A n \in DOMAIN s.byStream : s.byStream[n] \in DOMAIN s.sessions
  BY DEF MgrOK, Keyed, ByKey
<1>6. \A c \in DOMAIN s.byConn : s.byConn[c] \in DOMAIN s.sessions
  BY DEF MgrOK, Keyed, ByKey
<1>7. \A n \in Nat : Held(r, n) =
         IF n \in DOMAIN s.byStream /\ s.byStream[n] = i
         THEN After(method, Held(s, n), u) ELSE Held(s, n)
  BY <1>5 DEF Held, Resubscribed
<1>8. \A c \in Conns : HeldBy(r, c) =
         IF c \in DOMAIN s.byConn /\ s.byConn[c] = i
         THEN After(method, HeldBy(s, c), u) ELSE HeldBy(s, c)
  BY <1>6 DEF HeldBy, Resubscribed
<1>9. QED BY <1>1, <1>2, <1>3, <1>4, <1>7, <1>8 DEF MgrOK, Reheld

-----------------------------------------------------------------------------
(* The invariant.                                                          *)

(* A filter's callback is the stream its client is in the middle of        *)
(* posting to; a connection that carries a stream reads no more; a pipe    *)
(* has no mode.                                                            *)
ConnsOK ==
    /\ conn \in [Conns -> [state : {"unused", "open", "closed"}, mode : Modes,
                           callback : 0..MaxStreams]]
    /\ request \in [Conns -> [busy : BOOLEAN, to : 0..MaxStreams]]
    /\ \A c \in Conns :
          /\ conn[c].callback = request[c].to
          /\ conn[c].callback # NoStream <=> conn[c].mode = "CallbackProxy"
          /\ c \in Pipes \/ ~Open(c) => conn[c].mode = "Undetermined"
          /\ conn[c].mode = "SseStream" => ~request[c].busy
          /\ request[c].busy => Open(c)
          /\ request[c].to # NoStream =>
                /\ request[c].busy
                /\ request[c].to \in DOMAIN streams /\ streams[request[c].to] # NoConn

(* A connection carries one stream in its life, and that stream is in the  *)
(* registry for as long as the connection is open.                         *)
StreamsOK ==
    /\ streams \in Seq(HttpConns \cup {NoConn}) /\ Len(streams) <= MaxStreams
    /\ DOMAIN registry \subseteq DOMAIN streams
    /\ \A n \in DOMAIN registry :
          /\ registry[n] = streams[n] /\ registry[n] \in HttpConns
          /\ Open(registry[n]) /\ conn[registry[n]].mode = "SseStream"
    /\ \A n \in DOMAIN streams : streams[n] # NoConn =>
          /\ conn[streams[n]].state # "unused"
          /\ Open(streams[n]) => n \in DOMAIN registry
    /\ \A n, m \in DOMAIN streams : streams[n] = streams[m] /\ streams[n] # NoConn => n = m

(* A pipe's session came of a message on it, an HTTP connection's of its   *)
(* being accepted, and this one ends with it.                              *)
ConnsOf(s) ==
    \A d \in DOMAIN s.byConn :
        conn[d].state # "unused" /\ (d \in HttpConns => Open(d))

(* The manager is sound, and holds nothing of what has gone.               *)
ManagerOK ==
    /\ MgrOK(server)
    /\ DOMAIN server.byStream \subseteq DOMAIN streams
    /\ ConnsOf(server)

(* What a client knows of its subscriptions is what its session holds.     *)
WantsOK ==
    /\ wants \in [Conns -> SUBSET Uris]
    /\ \A n \in DOMAIN registry : wants[registry[n]] = Held(server, n)
    /\ \A c \in Pipes : Open(c) => HeldBy(server, c) \subseteq wants[c]
    /\ \A c \in HttpConns : wants[c] # {} => conn[c].mode = "SseStream"

SessionsInv ==
    ConnsOK /\ StreamsOK /\ ManagerOK /\ WantsOK /\ NothingAstray /\ UpdateHeard

USE DEF NoStream

(* Streams are numbered from one.                                          *)
LEMMA StreamNumbers ==
    ASSUME StreamsOK
    PROVE  DOMAIN streams = 1..Len(streams) /\ Len(streams) \in Nat
           /\ DOMAIN streams \subseteq 1..MaxStreams /\ DOMAIN streams \subseteq Nat
BY SessionsAssumption DEF StreamsOK

LEMMA InvIsEnough ==
    ASSUME SessionsInv
    PROVE  TablesAgree /\ NothingAstray /\ UpdatesReachSubscribers
<1>1. ServerTypeOK
  <2>1. \A c \in Conns :
          /\ conn[c].mode \in Modes /\ conn[c].callback \in 0..MaxStreams
          /\ conn[c].callback # NoStream <=> conn[c].mode = "CallbackProxy"
    BY DEF SessionsInv, ConnsOK
  <2>2. DOMAIN registry \subseteq 1..Len(streams)
    BY StreamNumbers DEF SessionsInv, StreamsOK
  <2>3. QED
    BY <2>1, <2>2 DEF SessionsInv, ManagerOK, WantsOK, NothingAstray, MgrOK, Shape, ServerTypeOK
<1>2. SessionMapsAgree
  BY SessionsAssumption DEF SessionsInv, ManagerOK, MgrOK, Keyed, ByKey, SessionMapsAgree
<1>3. SubscribersAgree
  BY DEF SessionsInv, ManagerOK, MgrOK, Subscribed, SubscribersAgree
<1>4. NothingOfClosedConnections
  BY DEF SessionsInv, StreamsOK, ManagerOK, ConnsOf, NothingOfClosedConnections
<1>5. ToldIsSubscribed
  <2> SUFFICES ASSUME NEW n \in DOMAIN registry, NEW u \in Uris, u \in wants[registry[n]]
               PROVE  n \in DOMAIN server.byStream /\ server.byStream[n] \in server.subscribers[u]
    BY DEF ToldIsSubscribed
  <2>1. u \in Held(server, n)
    BY DEF SessionsInv, WantsOK
  <2>2. n \in DOMAIN server.byStream /\ u \in server.sessions[server.byStream[n]].subs
    BY <2>1 DEF Held
  <2>3. QED BY <2>2 DEF SessionsInv, ManagerOK, MgrOK, Keyed, ByKey, Subscribed
<1>6. QED
  BY <1>1, <1>2, <1>3, <1>4, <1>5 DEF SessionsInv, TablesAgree, UpdatesReachSubscribers

LEMMA InitInv == ASSUME NEW n, NEW allowed, InitAt(n, allowed) PROVE SessionsInv
<1>1. ConnsOK
  BY SessionsAssumption DEF InitAt, ConnsOK, Modes, Open
<1>2. StreamsOK
  BY SessionsAssumption DEF InitAt, StreamsOK
<1>3. MgrOK(server)
  <2>1. Shape(server)
    BY DEF InitAt, Shape, Fields
  <2>2. Keyed(server) /\ Subscribed(server)
    BY DEF InitAt, Keyed, ByKey, Subscribed
  <2>3. DOMAIN server.sessions = {}
    BY DEF InitAt
  <2>4. Cardinality(DOMAIN server.sessions) <= MaxSessions
    BY <2>3, FS_EmptySet, SessionsAssumption
  <2>5. QED BY <2>1, <2>2, <2>4 DEF MgrOK
<1>4. ManagerOK
  BY <1>3 DEF InitAt, ManagerOK, ConnsOf
<1>5. WantsOK
  BY DEF InitAt, WantsOK, HeldBy, Conns
<1>6. NothingAstray /\ UpdateHeard
  BY DEF InitAt, NothingAstray, UpdateHeard, Quiet
<1>7. QED BY <1>1, <1>2, <1>4, <1>5, <1>6 DEF SessionsInv

-----------------------------------------------------------------------------
(* Dispatch: the session of a message, its handler, its answer.            *)

(* The stream a message names is the one its filter proxies for.           *)
LEMMA Named ==
    ASSUME SessionsInv, NEW c \in Conns, Open(c)
    PROVE  /\ isCallbackProxy(c) <=> request[c].to # NoStream
           /\ conn[c].callback = request[c].to /\ request[c].to \in 0..MaxStreams
           /\ request[c].to # NoStream =>
                 /\ request[c].to \in DOMAIN streams /\ request[c].to \in 1..MaxStreams
                 /\ streams[request[c].to] \in HttpConns
                 /\ streams[request[c].to] # c
<1>1. /\ conn[c].callback = request[c].to /\ request[c].to \in 0..MaxStreams
      /\ conn[c].callback # NoStream <=> conn[c].mode = "CallbackProxy"
      /\ request[c].to # NoStream =>
            request[c].to \in DOMAIN streams /\ streams[request[c].to] # NoConn
  BY DEF SessionsInv, ConnsOK
<1>2. isCallbackProxy(c) <=> request[c].to # NoStream
  BY <1>1 DEF isCallbackProxy
<1>3. ASSUME request[c].to # NoStream
      PROVE  /\ streams[request[c].to] \in HttpConns /\ streams[request[c].to] # c
             /\ request[c].to \in 1..MaxStreams
  <2> DEFINE n == request[c].to
  <2>1. n \in DOMAIN streams /\ streams[n] # NoConn /\ n \in 1..MaxStreams
    BY <1>1, <1>3, StreamNumbers DEF SessionsInv
  <2>2. streams[n] \in HttpConns
    BY <2>1 DEF SessionsInv, StreamsOK
  <2>3. Open(streams[n]) => conn[streams[n]].mode = "SseStream"
    BY <2>1 DEF SessionsInv, StreamsOK
  <2>4. conn[c].mode = "CallbackProxy"
    BY <1>1, <1>3
  <2>5. QED BY <2>1, <2>2, <2>3, <2>4
<1>4. QED BY <1>1, <1>2, <1>3

LEMMA SessionFound ==
    ASSUME SessionsInv, NEW c \in Conns, Open(c)
    PROVE  Found(server, getOrCreateSessionFor(c), c, request[c].to)
<1> DEFINE n == request[c].to
           r == getOrCreateSessionFor(c)
<1>1. MgrOK(server)
  BY DEF SessionsInv, ManagerOK
<1>2. r = CASE n # NoStream /\ n \in DOMAIN server.byStream ->
                 [mgr |-> server, id |-> server.byStream[n]]
            [] n # NoStream /\ n \notin DOMAIN server.byStream -> Created(server, NoConn, n)
            [] n = NoStream /\ c \in DOMAIN server.byConn ->
                 [mgr |-> server, id |-> server.byConn[c]]
            [] OTHER -> Created(server, c, NoStream)
  BY Named DEF getOrCreateSessionFor
<1>3. n \in 0..MaxStreams /\ (n # NoStream => n \in 1..MaxStreams)
  BY Named
<1>4. /\ \A m \in DOMAIN server.byStream : server.byStream[m] \in DOMAIN server.sessions
      /\ \A d \in DOMAIN server.byConn : server.byConn[d] \in DOMAIN server.sessions
  BY <1>1 DEF MgrOK, Keyed, ByKey
<1> HIDE DEF r, n
<1>5. CASE n # NoStream /\ n \in DOMAIN server.byStream
  <2>1. r = [mgr |-> server, id |-> server.byStream[n]]
    BY <1>2, <1>5
  <2>2. QED BY <1>1, <1>4, <1>5, <2>1 DEF Found, r, n
<1>6. CASE n # NoStream /\ n \notin DOMAIN server.byStream
  <2>1. r = Created(server, NoConn, n)
    BY <1>2, <1>6
  <2>2. NewKey(server, NoConn, n)
    BY <1>3, <1>6 DEF NewKey
  <2>3. Found(server, r, NoConn, n)
    BY <1>1, <2>1, <2>2, CreatedOK
  <2>4. QED BY <1>6, <2>3 DEF Found, r, n
<1>7. CASE n = NoStream /\ c \in DOMAIN server.byConn
  <2>1. r = [mgr |-> server, id |-> server.byConn[c]]
    BY <1>2, <1>7
  <2>2. QED BY <1>1, <1>4, <1>7, <2>1 DEF Found, r, n
<1>8. CASE n = NoStream /\ c \notin DOMAIN server.byConn
  <2>1. r = Created(server, c, n)
    BY <1>2, <1>8
  <2>2. NewKey(server, c, n)
    BY <1>8 DEF NewKey
  <2>3. QED BY <1>1, <2>1, <2>2, CreatedOK DEF r, n
<1>9. QED BY <1>5, <1>6, <1>7, <1>8

(* What a message may do to the manager and to what the clients know.      *)
MessageKeeps ==
    /\ MgrOK(server')
    /\ DOMAIN server'.byStream \subseteq DOMAIN streams
    /\ ConnsOf(server')
    /\ wants' \in [Conns -> SUBSET Uris]
    /\ \A n \in DOMAIN registry : wants'[registry[n]] = Held(server', n)
    /\ \A d \in Pipes : Open(d) => HeldBy(server', d) \subseteq wants'[d]
    /\ \A d \in HttpConns : wants'[d] # {} => conn[d].mode = "SseStream"
    /\ astray' = {}

(* A session that was found and perhaps touched is as good.                *)
LEMMA FoundKeeps ==
    ASSUME SessionsInv, NEW c \in Conns, Open(c), NEW r, NEW t,
           Found(server, r, c, request[c].to),
           t = IF r.id = 0 THEN r.mgr ELSE updateActivity(r.mgr, r.id)
    PROVE  /\ MgrOK(t)
           /\ DOMAIN t.byStream \subseteq DOMAIN streams
           /\ ConnsOf(t)
           /\ \A m \in Nat : Held(t, m) = Held(server, m)
           /\ \A d \in Conns : HeldBy(t, d) \subseteq HeldBy(server, d)
           /\ r.id # 0 => DOMAIN t.sessions = DOMAIN r.mgr.sessions
           /\ t.byStream = r.mgr.byStream /\ t.byConn = r.mgr.byConn
<1>1. /\ DOMAIN r.mgr.byStream \subseteq DOMAIN streams
      /\ ConnsOf(r.mgr)
  <2>1. request[c].to # NoStream => request[c].to \in DOMAIN streams
    BY Named
  <2>2. DOMAIN server.byStream \subseteq DOMAIN streams
        /\ ConnsOf(server)
    BY DEF SessionsInv, ManagerOK
  <2>3. QED BY <2>1, <2>2 DEF Found, ConnsOf, Open
<1>2. CASE r.id = 0
  BY <1>1, <1>2 DEF Found
<1>3. CASE r.id # 0
  <2>1. r.id \in DOMAIN r.mgr.sessions /\ MgrOK(r.mgr)
    BY <1>3 DEF Found
  <2>2. Idle(r.mgr, t)
    BY <1>3, <2>1, ActivityOK DEF updateActivity
  <2>3. /\ MgrOK(t)
        /\ \A m \in Nat : Held(t, m) = Held(r.mgr, m)
        /\ \A d \in Conns : HeldBy(t, d) = HeldBy(r.mgr, d)
    BY <2>1, <2>2, IdleOK
  <2>4. QED BY <1>1, <2>2, <2>3 DEF Found, Idle, ConnsOf
<1>4. QED BY <1>2, <1>3

LEMMA NotificationKeeps ==
    ASSUME SessionsInv, NEW c \in Conns, Open(c), onNotification(c)
    PROVE  MessageKeeps
<1> DEFINE r == getOrCreateSessionFor(c)
<1>1. Found(server, r, c, request[c].to)
  BY SessionFound
<1>2. /\ server' = (IF r.id = 0 THEN r.mgr ELSE updateActivity(r.mgr, r.id))
      /\ wants' = wants
  BY DEF onNotification
<1> HIDE DEF r
<1>3. /\ MgrOK(server')
      /\ DOMAIN server'.byStream \subseteq DOMAIN streams
      /\ ConnsOf(server')
      /\ \A m \in Nat : Held(server', m) = Held(server, m)
      /\ \A d \in Conns : HeldBy(server', d) \subseteq HeldBy(server, d)
  BY <1>1, <1>2, FoundKeeps
<1>4. astray' = {}
  <2>1. ~(conn[c].mode # "CallbackProxy" /\ onWrite(c, FALSE) # c)
    BY DEF onWrite, isCallbackProxy, SessionsInv, ConnsOK
  <2>2. astray = {}
    BY DEF SessionsInv, NothingAstray
  <2>3. QED BY <2>1, <2>2 DEF onNotification
<1>5. DOMAIN registry \subseteq Nat
  BY StreamNumbers DEF SessionsInv, StreamsOK
<1>6. QED
  BY <1>2, <1>3, <1>4, <1>5 DEF MessageKeeps, SessionsInv, WantsOK, Conns

(* An answer goes where its client is.                                     *)
LEMMA AnswerPlaced ==
    ASSUME SessionsInv, NEW c \in Conns, Open(c)
    PROVE  ~Misplaced(c, onWrite(c, FALSE))
<1> DEFINE n == request[c].to
<1>1. CASE n = NoStream
  BY <1>1, Named DEF Misplaced, Sender, onWrite
<1>2. CASE n # NoStream
  <2>1. /\ isCallbackProxy(c) /\ conn[c].callback = n /\ n \in DOMAIN streams
        /\ streams[n] \in HttpConns /\ streams[n] # c
    BY <1>2, Named
  <2>2. onWrite(c, FALSE) = RegistrySend(n, c) /\ Sender(c) = streams[n]
    BY <1>2, <2>1 DEF onWrite, Sender
  <2>3. Open(streams[n]) => n \in DOMAIN registry
    BY <2>1, SessionsAssumption DEF SessionsInv, StreamsOK, Conns
  <2>4. n \in DOMAIN registry => registry[n] = streams[n] /\ Open(registry[n])
    BY DEF SessionsInv, StreamsOK
  <2>5. RegistrySend(n, c) = IF Open(streams[n]) THEN streams[n] ELSE NoConn
    BY <2>1, <2>3, <2>4 DEF RegistrySend
  <2>6. QED BY <2>2, <2>5 DEF Misplaced
<1>3. QED BY <1>1, <1>2

(* What the client is told is what is done with its session.               *)
Told(L, c, who, method, u) ==
    /\ L \in [Conns -> SUBSET Uris]
    /\ \A d \in Conns : d # who => L[d] = wants[d]
    /\ L[who] = IF ~Open(who) \/ (c = who /\ c \in HttpConns) THEN wants[who]
                ELSE After(method, wants[who], u)

LEMMA LearntIsAfter ==
    ASSUME SessionsInv, NEW c \in Conns, NEW method, NEW u \in Uris, Sender(c) \in Conns
    PROVE  Told(Learnt(c, method, u, TRUE), c, Sender(c), method, u)
<1>1. wants \in [Conns -> SUBSET Uris]
  BY DEF SessionsInv, WantsOK
<1> DEFINE who == Sender(c)
<1> HIDE DEF who, Told
<1>2. Learnt(c, method, u, TRUE) =
         IF ~Open(who) \/ (c = who /\ c \in HttpConns) THEN wants
         ELSE CASE method = "subscribe" -> [wants EXCEPT ![who] = @ \cup {u}]
                [] method = "unsubscribe" -> [wants EXCEPT ![who] = @ \ {u}]
                [] OTHER -> wants
  BY DEF Learnt, who
<1>3. CASE ~Open(who) \/ (c = who /\ c \in HttpConns)
  BY <1>1, <1>2, <1>3 DEF who, Told
<1>4. CASE ~(~Open(who) \/ (c = who /\ c \in HttpConns)) /\ method = "subscribe"
  BY <1>1, <1>2, <1>4 DEF After, who, Told
<1>5. CASE ~(~Open(who) \/ (c = who /\ c \in HttpConns)) /\ method = "unsubscribe"
  BY <1>1, <1>2, <1>5 DEF After, who, Told
<1>6. CASE /\ ~(~Open(who) \/ (c = who /\ c \in HttpConns))
           /\ method \notin {"subscribe", "unsubscribe"}
  BY <1>1, <1>2, <1>6 DEF After, who, Told
<1>7. QED BY <1>3, <1>4, <1>5, <1>6

(* A request to a session that was found.                                  *)
LEMMA HandlerKeeps ==
    ASSUME SessionsInv, NEW c \in Conns, Open(c), NEW method, NEW u \in Uris,
           NEW t, MgrOK(t), NEW i \in DOMAIN t.sessions,
           DOMAIN t.byStream \subseteq DOMAIN streams,
           ConnsOf(t),
           \A m \in Nat : Held(t, m) = Held(server, m),
           \A d \in Conns : HeldBy(t, d) \subseteq HeldBy(server, d),
           request[c].to # NoStream =>
              request[c].to \in DOMAIN t.byStream /\ t.byStream[request[c].to] = i,
           request[c].to = NoStream => c \in DOMAIN t.byConn /\ t.byConn[c] = i,
           server' = Handled(t, i, method, u),
           wants' = Learnt(c, method, u, TRUE),
           astray' = {}
    PROVE  MessageKeeps
<1> DEFINE n == request[c].to
           who == Sender(c)
<1>1. /\ MgrOK(server')
      /\ \A m \in Nat : Held(server', m) =
            IF m \in DOMAIN t.byStream /\ t.byStream[m] = i
            THEN After(method, Held(t, m), u) ELSE Held(t, m)
      /\ \A d \in Conns : HeldBy(server', d) =
            IF d \in DOMAIN t.byConn /\ t.byConn[d] = i
            THEN After(method, HeldBy(t, d), u) ELSE HeldBy(t, d)
      /\ server'.byStream = t.byStream /\ server'.byConn = t.byConn
  <2>1. Resubscribed(t, server', i, method, u)
    BY HandledFields
  <2>2. MgrOK(server') /\ Reheld(t, server', i, method, u)
    BY <2>1, ResubscribedOK
  <2>3. QED BY <2>1, <2>2 DEF Resubscribed, Reheld
<1>2. who \in Conns
  BY Named DEF Sender, Conns
<1>3. /\ wants' \in [Conns -> SUBSET Uris]
      /\ \A d \in Conns : d # who => wants'[d] = wants[d]
      /\ wants'[who] = IF ~Open(who) \/ (c = who /\ c \in HttpConns) THEN wants[who]
                       ELSE After(method, wants[who], u)
  <2>1. Told(wants', c, Sender(c), method, u)
    BY <1>2, LearntIsAfter
  <2>2. QED BY <2>1 DEF Told
<1>4. /\ \A m \in DOMAIN registry : wants[registry[m]] = Held(server, m)
      /\ \A d \in Pipes : Open(d) => HeldBy(server, d) \subseteq wants[d]
      /\ \A d \in HttpConns : wants[d] # {} => conn[d].mode = "SseStream"
  BY DEF SessionsInv, WantsOK
<1>5. /\ DOMAIN registry \subseteq DOMAIN streams
      /\ \A m \in DOMAIN registry :
            /\ registry[m] = streams[m] /\ registry[m] \in HttpConns /\ registry[m] \in Conns
            /\ conn[registry[m]].mode = "SseStream"
            /\ m \in Nat /\ m # 0
  BY StreamNumbers DEF SessionsInv, StreamsOK, Conns
<1>6. /\ \A m \in DOMAIN t.byStream : t.sessions[t.byStream[m]].stream = m /\ m # 0
      /\ \A d \in DOMAIN t.byConn : t.sessions[t.byConn[d]].conn = d
      /\ \A d \in DOMAIN t.byConn : t.sessions[t.byConn[d]].stream = 0
  BY StreamKeys, OneKey DEF MgrOK, Keyed, ByKey
<1>7. HttpConns \cap Pipes = {} /\ Conns = HttpConns \cup Pipes
  BY SessionsAssumption DEF Conns
<1>8. CASE n # NoStream
  <2>1. /\ n \in DOMAIN streams /\ streams[n] \in HttpConns /\ streams[n] # c
        /\ who = streams[n]
    BY <1>8, Named DEF Sender
  <2>2. n \in DOMAIN t.byStream /\ t.byStream[n] = i /\ t.sessions[i].stream = n
    BY <1>6, <1>8
  <2>3. \A m \in DOMAIN t.byStream : t.byStream[m] = i => m = n
    BY <1>6, <2>2
  <2>4. \A d \in DOMAIN t.byConn : t.byConn[d] # i
    BY <1>6, <1>8, <2>2
  <2>5. \A m \in DOMAIN registry : registry[m] = who <=> m = n
    BY <1>5, <2>1, SessionsAssumption DEF SessionsInv, StreamsOK, Conns
  <2>6. Open(who) => n \in DOMAIN registry
    BY <2>1, SessionsAssumption DEF SessionsInv, StreamsOK, Conns
  <2>7. n \in DOMAIN registry => Open(who)
    BY <2>5 DEF SessionsInv, StreamsOK
  <2> HIDE DEF n, who
  <2>8. ASSUME NEW m \in DOMAIN registry PROVE wants'[registry[m]] = Held(server', m)
    <3>1. CASE m = n
      <4>1. Held(server', m) = After(method, Held(server, m), u)
        BY <1>1, <1>5, <2>2, <3>1
      <4>2. registry[m] = who /\ Open(who) /\ c # who
        BY <2>1, <2>5, <2>7, <3>1
      <4>3. wants'[who] = After(method, wants[who], u)
        BY <1>3, <4>2
      <4>4. QED BY <1>4, <4>1, <4>2, <4>3
    <3>2. CASE m # n
      <4>1. Held(server', m) = Held(server, m)
        BY <1>1, <1>5, <2>3, <3>2
      <4>2. wants'[registry[m]] = wants[registry[m]]
        BY <1>3, <1>5, <2>5, <3>2
      <4>3. QED BY <1>4, <4>1, <4>2
    <3>3. QED BY <3>1, <3>2
  <2>9. ASSUME NEW d \in Pipes, Open(d) PROVE HeldBy(server', d) \subseteq wants'[d]
    <3>1. HeldBy(server', d) \subseteq HeldBy(server, d)
      BY <1>1, <1>7, <2>4
    <3>2. wants'[d] = wants[d]
      BY <1>3, <1>7, <2>1
    <3>3. QED BY <1>4, <2>9, <3>1, <3>2
  <2>10. ASSUME NEW d \in HttpConns, wants'[d] # {} PROVE conn[d].mode = "SseStream"
    <3>1. CASE d = who /\ Open(who)
      BY <1>5, <2>5, <2>6, <3>1
    <3>2. CASE ~(d = who /\ Open(who))
      BY <1>3, <1>4, <1>7, <2>10, <3>2
    <3>3. QED BY <3>1, <3>2
  <2>11. QED BY <1>1, <1>3, <2>8, <2>9, <2>10 DEF MessageKeeps, ConnsOf
<1>9. CASE n = NoStream
  <2>1. who = c
    BY <1>9 DEF Sender
  <2>2. c \in DOMAIN t.byConn /\ t.byConn[c] = i /\ t.sessions[i].stream = 0 /\ t.sessions[i].conn = c
    BY <1>6, <1>9
  <2>3. \A m \in DOMAIN t.byStream : t.byStream[m] # i
    BY <1>6, <2>2
  <2>4. \A d \in DOMAIN t.byConn : t.byConn[d] = i => d = c
    BY <1>6, <2>2
  <2> HIDE DEF n, who
  <2>5. ASSUME NEW m \in DOMAIN registry PROVE wants'[registry[m]] = Held(server', m)
    <3>1. Held(server', m) = Held(server, m)
      BY <1>1, <1>5, <2>3
    <3>2. wants'[registry[m]] = wants[registry[m]]
      BY <1>3, <1>5, <2>1
    <3>3. QED BY <1>4, <3>1, <3>2
  <2>6. ASSUME NEW d \in Pipes, Open(d) PROVE HeldBy(server', d) \subseteq wants'[d]
    <3>1. HeldBy(t, d) \subseteq wants[d]
      BY <1>4, <1>7, <2>6
    <3>2. CASE d = c
      <4>1. HeldBy(server', d) = After(method, HeldBy(t, d), u)
        BY <1>1, <1>7, <2>2, <3>2
      <4>2. wants'[d] = After(method, wants[d], u)
        BY <1>3, <1>7, <2>1, <2>6, <3>2
      <4>3. QED BY <3>1, <4>1, <4>2 DEF After
    <3>3. CASE d # c
      BY <1>1, <1>3, <1>7, <2>1, <2>4, <3>1, <3>3
    <3>4. QED BY <3>2, <3>3
  <2>7. ASSUME NEW d \in HttpConns, wants'[d] # {} PROVE conn[d].mode = "SseStream"
    BY <1>3, <1>4, <1>7, <2>1, <2>7
  <2>8. QED BY <1>1, <1>3, <2>5, <2>6, <2>7 DEF MessageKeeps, ConnsOf
<1>10. QED BY <1>8, <1>9

LEMMA DispatchKeeps ==
    ASSUME SessionsInv, NEW c \in Conns, Open(c), NEW method, NEW u \in Uris,
           Dispatch(c, method, u)
    PROVE  MessageKeeps
<1>1. CASE method = "notification"
  BY <1>1, NotificationKeeps DEF Dispatch
<1>2. CASE method # "notification"
  <2> DEFINE r == getOrCreateSessionFor(c)
             t == IF r.id = 0 THEN r.mgr ELSE updateActivity(r.mgr, r.id)
  <2>1. Found(server, r, c, request[c].to)
    BY SessionFound
  <2>2. /\ server' = IF r.id = 0 THEN r.mgr
                     ELSE Handled(updateActivity(r.mgr, r.id), r.id, method, u)
        /\ wants' = Learnt(c, method, u, r.id # 0)
        /\ astray' = IF Misplaced(c, onWrite(c, FALSE)) THEN astray \cup {"answer"} ELSE astray
    BY <1>2 DEF Dispatch, dispatchRequest
  <2>3. astray' = {}
    BY <2>2, AnswerPlaced DEF SessionsInv, NothingAstray
  <2> HIDE DEF r
  <2>4. /\ MgrOK(t)
        /\ DOMAIN t.byStream \subseteq DOMAIN streams
        /\ ConnsOf(t)
        /\ \A m \in Nat : Held(t, m) = Held(server, m)
        /\ \A d \in Conns : HeldBy(t, d) \subseteq HeldBy(server, d)
        /\ r.id # 0 => DOMAIN t.sessions = DOMAIN r.mgr.sessions
        /\ t.byStream = r.mgr.byStream /\ t.byConn = r.mgr.byConn
    BY <2>1, FoundKeeps
  <2>5. CASE r.id = 0
    <3>1. server' = t /\ wants' = wants
      <4>1. Learnt(c, method, u, FALSE) = wants
        BY DEF Learnt
      <4>2. QED BY <2>2, <2>5, <4>1
    <3>2. DOMAIN registry \subseteq Nat
      BY StreamNumbers DEF SessionsInv, StreamsOK
    <3> HIDE DEF t
    <3>3. QED
      BY <2>3, <2>4, <3>1, <3>2 DEF MessageKeeps, SessionsInv, WantsOK, Conns
  <2>6. CASE r.id # 0
    <3>1. t = updateActivity(r.mgr, r.id)
      BY <2>6
    <3>2. server' = Handled(t, r.id, method, u) /\ wants' = Learnt(c, method, u, TRUE)
      BY <2>2, <2>6, <3>1
    <3> HIDE DEF t
    <3>3. r.id \in DOMAIN t.sessions
      BY <2>1, <2>4, <2>6 DEF Found
    <3>4. /\ request[c].to # NoStream =>
                request[c].to \in DOMAIN t.byStream /\ t.byStream[request[c].to] = r.id
          /\ request[c].to = NoStream => c \in DOMAIN t.byConn /\ t.byConn[c] = r.id
      BY <2>1, <2>4, <2>6 DEF Found
    <3>5. QED BY <2>3, <2>4, <3>2, <3>3, <3>4, HandlerKeeps
  <2>7. QED BY <2>5, <2>6
<1>3. QED BY <1>1, <1>2

-----------------------------------------------------------------------------
(* One lemma for each action.                                              *)

(* Once an update has been sent, nothing holds its recipients any more.    *)
LEMMA QuietHeard == ASSUME told' = Quiet PROVE UpdateHeard'
BY DEF Quiet, UpdateHeard

(* A connection that nobody has used is in no table.                       *)
LEMMA UnusedUnknown ==
    ASSUME SessionsInv, NEW c \in Conns, conn[c].state = "unused"
    PROVE  /\ \A n \in DOMAIN streams :
                 streams[n] # NoConn => streams[n] # c /\ streams[n] \in Conns
           /\ \A d \in DOMAIN server.byConn : d \in Conns /\ d # c
           /\ ~Open(c) /\ conn[c].mode = "Undetermined"
<1>1. ~Open(c) /\ conn[c].mode = "Undetermined"
  BY DEF SessionsInv, ConnsOK, Open
<1>2. \A n \in DOMAIN streams : streams[n] # NoConn => streams[n] # c /\ streams[n] \in Conns
  BY DEF SessionsInv, StreamsOK, Conns
<1>3. \A d \in DOMAIN server.byConn : d \in Conns /\ d # c
  BY DEF SessionsInv, ManagerOK, MgrOK, Keyed, ByKey, ConnsOf
<1>4. QED BY <1>1, <1>2, <1>3

(* A connection's first step, and what no step of that kind disturbs.      *)
Begins(c, state) ==
    /\ conn' = [conn EXCEPT ![c].state = state] /\ state \in {"open", "closed"}
    /\ UNCHANGED <<request, registry, streams, wants, astray>>

LEMMA BeginsKeeps ==
    ASSUME SessionsInv, NEW c \in Conns, conn[c].state = "unused", NEW state, Begins(c, state)
    PROVE  /\ ConnsOK' /\ StreamsOK'
           /\ \A d \in Conns : /\ d # c => conn'[d] = conn[d]
                               /\ conn'[d].mode = conn[d].mode
           /\ conn'[c].state = state
<1>1. \A d \in Conns : conn'[d] = IF d = c THEN [conn[c] EXCEPT !.state = state] ELSE conn[d]
  BY DEF Begins, SessionsInv, ConnsOK
<1>2. conn[c] \in [state : {"unused", "open", "closed"}, mode : Modes, callback : 0..MaxStreams]
  BY DEF SessionsInv, ConnsOK
<1>3. /\ conn'[c].state = state /\ conn'[c].mode = conn[c].mode
      /\ conn'[c].callback = conn[c].callback
      /\ conn'[c] \in [state : {"unused", "open", "closed"}, mode : Modes, callback : 0..MaxStreams]
  BY <1>1, <1>2 DEF Begins
<1>4. \A d \in Conns : /\ Open(d) => Open(d)'
                       /\ d # c => (Open(d)' <=> Open(d))
                       /\ conn'[d].mode = conn[d].mode /\ conn'[d].callback = conn[d].callback
  BY <1>1, <1>3, UnusedUnknown DEF Open
<1>5. ConnsOK'
  <2>1. conn' \in [Conns -> [state : {"unused", "open", "closed"}, mode : Modes,
                             callback : 0..MaxStreams]]
    BY <1>3 DEF Begins, SessionsInv, ConnsOK
  <2>2. UNCHANGED <<request, streams>>
    BY DEF Begins
  <2>3. conn[c].mode = "Undetermined"
    BY UnusedUnknown
  <2>4. QED BY <1>4, <2>1, <2>2, <2>3 DEF SessionsInv, ConnsOK
<1>6. StreamsOK'
  <2>1. \A n \in DOMAIN streams : streams[n] # NoConn => streams[n] # c /\ streams[n] \in Conns
    BY UnusedUnknown
  <2>2. UNCHANGED <<registry, streams>>
    BY DEF Begins
  <2>3. QED BY <1>1, <1>4, <2>1, <2>2 DEF SessionsInv, StreamsOK, Conns
<1>7. QED BY <1>1, <1>3, <1>4, <1>5, <1>6

LEMMA PipeOpensInv ==
    ASSUME SessionsInv, NEW c \in Conns, PipeOpens(c)
    PROVE  SessionsInv'
<1>1. conn[c].state = "unused" /\ Begins(c, "open") /\ server' = server /\ told' = Quiet
  BY DEF PipeOpens, Begins
<1>2. /\ ConnsOK' /\ StreamsOK'
      /\ \A d \in Conns : /\ d # c => conn'[d] = conn[d]
                          /\ conn'[d].mode = conn[d].mode
  BY <1>1, BeginsKeeps
<1>3. \A d \in DOMAIN server.byConn : d \in Conns /\ d # c
  BY <1>1, UnusedUnknown
<1>4. ManagerOK'
  BY <1>1, <1>2, <1>3 DEF Begins, SessionsInv, ManagerOK, ConnsOf, Open
<1>5. WantsOK'
  <2>1. HeldBy(server, c) = {}
    BY <1>3 DEF HeldBy
  <2>2. QED BY <1>1, <1>2, <2>1 DEF Begins, SessionsInv, WantsOK, Conns, Open
<1>6. QED BY <1>1, <1>2, <1>4, <1>5, QuietHeard DEF Begins, SessionsInv, NothingAstray

(* What is made for a connection as it is accepted.                        *)
LEMMA Accepted ==
    ASSUME SessionsInv, NEW c \in Conns, onNewConnection(c)
    PROVE  /\ NewKey(server, c, NoStream)
           /\ \E r : /\ r = Created(server, c, NoStream) /\ Found(server, r, c, NoStream)
                     /\ server' = r.mgr
                     /\ Begins(c, IF r.id = 0 THEN "closed" ELSE "open")
<1>1. c \notin DOMAIN server.byConn
  BY UnusedUnknown DEF onNewConnection
<1>2. NewKey(server, c, NoStream)
  BY <1>1 DEF NewKey
<1>3. Found(server, Created(server, c, NoStream), c, NoStream)
  BY <1>2, CreatedOK DEF SessionsInv, ManagerOK
<1>4. QED BY <1>2, <1>3 DEF onNewConnection, Begins

LEMMA onNewConnectionInv ==
    ASSUME SessionsInv, NEW c \in Conns, onNewConnection(c)
    PROVE  SessionsInv'
<1>1. PICK r : /\ Found(server, r, c, NoStream) /\ server' = r.mgr
               /\ Begins(c, IF r.id = 0 THEN "closed" ELSE "open")
  BY Accepted
<1>2. c \in HttpConns /\ conn[c].state = "unused" /\ told' = Quiet
  BY DEF onNewConnection
<1>3. /\ ConnsOK' /\ StreamsOK'
      /\ \A d \in Conns : /\ d # c => conn'[d] = conn[d]
                          /\ conn'[d].mode = conn[d].mode
      /\ conn'[c].state = IF r.id = 0 THEN "closed" ELSE "open"
  BY <1>1, <1>2, BeginsKeeps
<1>4. ManagerOK'
  <2>1. MgrOK(server') /\ DOMAIN server'.byStream \subseteq DOMAIN streams'
    BY <1>1 DEF Found, Begins, SessionsInv, ManagerOK
  <2>2. ASSUME NEW d \in DOMAIN server'.byConn
        PROVE  conn'[d].state # "unused" /\ (d \in HttpConns => conn'[d].state = "open")
    <3>1. CASE d \in DOMAIN server.byConn
      <4>1. d \in Conns /\ d # c
        BY <1>2, <3>1, UnusedUnknown
      <4>2. QED BY <1>3, <3>1, <4>1 DEF SessionsInv, ManagerOK, ConnsOf, Open
    <3>2. CASE d \notin DOMAIN server.byConn
      <4>1. d = c /\ r.id # 0
        BY <1>1, <2>2, <3>2 DEF Found
      <4>2. QED BY <1>3, <4>1
    <3>3. QED BY <3>1, <3>2
  <2>3. QED BY <2>1, <2>2 DEF ManagerOK, ConnsOf, Open
<1>5. WantsOK'
  <2>1. /\ \A m \in Nat : Held(server', m) = Held(server, m)
        /\ \A d \in Conns : HeldBy(server', d) \subseteq HeldBy(server, d)
        /\ UNCHANGED <<wants, registry>>
    BY <1>1 DEF Found, Begins
  <2>2. DOMAIN registry \subseteq Nat
    BY StreamNumbers DEF SessionsInv, StreamsOK
  <2>3. \A d \in Pipes : d \in Conns /\ d # c
    BY <1>2, SessionsAssumption DEF Conns
  <2>4. \A d \in Pipes : Open(d)' => HeldBy(server', d) \subseteq wants'[d]
    BY <1>3, <2>1, <2>3 DEF SessionsInv, WantsOK, Open
  <2>5. \A d \in HttpConns : wants'[d] # {} => conn'[d].mode = "SseStream"
    BY <1>3, <2>1 DEF SessionsInv, WantsOK, Conns
  <2>6. QED BY <2>1, <2>2, <2>4, <2>5 DEF SessionsInv, WantsOK
<1>6. QED BY <1>1, <1>2, <1>3, <1>4, <1>5, QuietHeard DEF Begins, SessionsInv, NothingAstray

(* The connections' modes and requests move on, but not what is a stream.  *)
SameStreams ==
    \A d \in Conns : /\ conn'[d].state = conn[d].state
                     /\ conn'[d].mode = "SseStream" <=> conn[d].mode = "SseStream"

LEMMA KeptInv ==
    ASSUME SessionsInv, MessageKeeps, ConnsOK', SameStreams, UNCHANGED <<registry, streams>>,
           told' = Quiet
    PROVE  SessionsInv'
<1>1. \A d \in Conns : Open(d)' <=> Open(d)
  BY DEF SameStreams, Open
<1>2. HttpConns \subseteq Conns /\ Pipes \subseteq Conns
  BY DEF Conns
<1>3. StreamsOK'
  <2>1. \A n \in DOMAIN streams : streams[n] # NoConn => streams[n] \in Conns
    BY <1>2 DEF SessionsInv, StreamsOK
  <2>2. QED BY <1>1, <1>2, <2>1 DEF SessionsInv, StreamsOK, SameStreams
<1>4. ManagerOK'
  <2>1. \A d \in DOMAIN server'.byConn : d \in Conns
    BY DEF MessageKeeps, MgrOK, Keyed, ByKey
  <2>2. QED BY <1>1, <1>2, <2>1 DEF MessageKeeps, ManagerOK, ConnsOf, SameStreams
<1>5. WantsOK'
  BY <1>1, <1>2 DEF MessageKeeps, WantsOK, SameStreams
<1>6. NothingAstray' /\ UpdateHeard'
  BY QuietHeard DEF MessageKeeps, NothingAstray
<1>7. QED BY <1>3, <1>4, <1>5, <1>6 DEF SessionsInv

(* Nothing that a message could change has changed.                        *)
LEMMA NothingDone ==
    ASSUME SessionsInv, UNCHANGED <<server, wants, registry>>, astray' = {}
    PROVE  MessageKeeps
BY DEF SessionsInv, ManagerOK, WantsOK, MessageKeeps

(* A filter that takes on a mode and the callback that goes with it.       *)
LEMMA TakesOn ==
    ASSUME NEW f, NEW s, NEW m, NEW k,
           f = [state |-> s, mode |-> "Undetermined", callback |-> NoStream]
    PROVE  [f EXCEPT !.mode = m, !.callback = k] = [state |-> s, mode |-> m, callback |-> k]
<1> DEFINE h == [f EXCEPT !.mode = m, !.callback = k]
           g == [state |-> s, mode |-> m, callback |-> k]
<1>1. /\ DOMAIN h = {"state", "mode", "callback"}
      /\ h.state = s /\ h.mode = m /\ h.callback = k
  OBVIOUS
<1>2. /\ DOMAIN g = {"state", "mode", "callback"}
      /\ g.state = s /\ g.mode = m /\ g.callback = k
  OBVIOUS
<1>3. g = [x \in DOMAIN g |-> g[x]] /\ h = [x \in DOMAIN h |-> h[x]]
  OBVIOUS
<1> HIDE DEF g, h
<1>4. \A x \in DOMAIN g : g[x] = h[x]
  BY <1>1, <1>2
<1>5. g = h
  BY <1>1, <1>2, <1>3, <1>4
<1>6. QED BY <1>5 DEF g, h

LEMMA PostHeadersInv ==
    ASSUME SessionsInv, NEW c \in Conns, NEW n \in 0..MaxStreams, PostHeaders(c, n)
    PROVE  SessionsInv'
<1> DEFINE g == [state |-> conn[c].state, callback |-> n,
                 mode |-> IF n # NoStream THEN "CallbackProxy" ELSE "PlainHttp"]
           f == resetForNextRequest(conn[c])
<1>1. conn[c] \in [state : {"unused", "open", "closed"}, mode : Modes, callback : 0..MaxStreams]
  BY DEF SessionsInv, ConnsOK
<1>2. /\ c \in HttpConns /\ Open(c) /\ ~request[c].busy /\ conn[c].mode # "SseStream"
      /\ n # NoStream => n \in DOMAIN streams /\ streams[n] # NoConn
      /\ request' = [request EXCEPT ![c] = [busy |-> TRUE, to |-> n]]
      /\ UNCHANGED <<registry, streams, server, wants>> /\ told' = Quiet
  BY DEF PostHeaders
<1>3. f = [state |-> conn[c].state, mode |-> "Undetermined", callback |-> NoStream]
  BY <1>1, <1>2 DEF resetForNextRequest
<1>4. /\ g.state = conn[c].state /\ g.callback = n /\ g.mode # "SseStream"
      /\ n # NoStream <=> g.mode = "CallbackProxy"
  OBVIOUS
<1>5. conn' = [conn EXCEPT ![c] = g]
  <2>1. CASE n # NoStream
    <3>1. [f EXCEPT !.mode = "CallbackProxy", !.callback = n] = g
      <4>1. g = [state |-> conn[c].state, mode |-> "CallbackProxy", callback |-> n]
        BY <2>1
      <4> HIDE DEF f, g
      <4>2. QED BY <1>3, <4>1, TakesOn
    <3>2. handleEvent(f.mode, "CallbackPostDetected") = "CallbackProxy"
      BY <1>3 DEF handleEvent
    <3>3. conn' = [conn EXCEPT ![c] = [f EXCEPT
                      !.mode = handleEvent(f.mode, "CallbackPostDetected"), !.callback = n]]
      BY <2>1 DEF PostHeaders
    <3> HIDE DEF f, g
    <3>4. QED BY <3>1, <3>2, <3>3
  <2>2. CASE n = NoStream
    <3>1. [f EXCEPT !.mode = "PlainHttp"] = g
      BY <1>3, <2>2
    <3>2. handleEvent(f.mode, "PlainHttpDetected") = "PlainHttp"
      BY <1>3 DEF handleEvent
    <3>3. conn' = [conn EXCEPT ![c] = [f EXCEPT !.mode = handleEvent(f.mode, "PlainHttpDetected")]]
      BY <2>2 DEF PostHeaders
    <3> HIDE DEF f, g
    <3>4. QED BY <3>1, <3>2, <3>3
  <2>3. QED BY <2>1, <2>2
<1> HIDE DEF f
<1>6. \A d \in Conns : /\ conn'[d] = IF d = c THEN g ELSE conn[d]
                       /\ request'[d] = IF d = c THEN [busy |-> TRUE, to |-> n] ELSE request[d]
  <2> HIDE DEF g
  <2>1. QED BY <1>2, <1>5 DEF SessionsInv, ConnsOK
<1>7. SameStreams
  BY <1>2, <1>4, <1>6 DEF SameStreams
<1>8. ConnsOK'
  <2>1. g \in [state : {"unused", "open", "closed"}, mode : Modes, callback : 0..MaxStreams]
    BY <1>1 DEF Modes
  <2>2. c \notin Pipes
    BY <1>2, SessionsAssumption
  <2>3. /\ conn' \in [Conns -> [state : {"unused", "open", "closed"}, mode : Modes,
                               callback : 0..MaxStreams]]
        /\ request' \in [Conns -> [busy : BOOLEAN, to : 0..MaxStreams]]
    BY <1>2, <1>5, <2>1 DEF SessionsInv, ConnsOK
  <2> HIDE DEF g
  <2>4. QED BY <1>2, <1>4, <1>6, <2>2, <2>3 DEF SessionsInv, ConnsOK, Open
<1>9. astray' = {}
  <2>1. onWrite(c, TRUE) = c
    BY DEF onWrite
  <2>2. QED BY <2>1 DEF PostHeaders, SessionsInv, NothingAstray
<1>10. QED BY <1>2, <1>7, <1>8, <1>9, NothingDone, KeptInv

(* The request is complete, and the connection for something else.         *)
LEMMA CompleteOK ==
    ASSUME SessionsInv, NEW c \in HttpConns, RequestComplete(c), request[c].busy,
           UNCHANGED streams
    PROVE  ConnsOK' /\ SameStreams
<1> DEFINE g == resetForNextRequest(conn[c])
<1>1. c \in Conns /\ c \notin Pipes
  BY SessionsAssumption DEF Conns
<1>2. /\ conn[c] \in [state : {"unused", "open", "closed"}, mode : Modes, callback : 0..MaxStreams]
      /\ conn[c].mode # "SseStream"
  BY <1>1 DEF SessionsInv, ConnsOK
<1>3. g = [state |-> conn[c].state, mode |-> "Undetermined", callback |-> NoStream]
  BY <1>2 DEF resetForNextRequest
<1>4. conn' = [conn EXCEPT ![c] = g]
  BY DEF RequestComplete
<1> HIDE DEF g
<1>5. \A d \in Conns : /\ conn'[d] = IF d = c THEN g ELSE conn[d]
                       /\ request'[d] = IF d = c THEN [busy |-> FALSE, to |-> NoStream] ELSE request[d]
  BY <1>4 DEF SessionsInv, ConnsOK, RequestComplete
<1>6. SameStreams
  BY <1>2, <1>3, <1>5 DEF SameStreams
<1>7. /\ conn' \in [Conns -> [state : {"unused", "open", "closed"}, mode : Modes,
                              callback : 0..MaxStreams]]
      /\ request' \in [Conns -> [busy : BOOLEAN, to : 0..MaxStreams]]
  <2>1. g \in [state : {"unused", "open", "closed"}, mode : Modes, callback : 0..MaxStreams]
    BY <1>2, <1>3, SessionsAssumption DEF Modes
  <2>2. 0 \in 0..MaxStreams
    BY SessionsAssumption
  <2>3. [busy |-> FALSE, to |-> NoStream] \in [busy : BOOLEAN, to : 0..MaxStreams]
    BY <2>2
  <2>4. conn \in [Conns -> [state : {"unused", "open", "closed"}, mode : Modes,
                            callback : 0..MaxStreams]]
        /\ request \in [Conns -> [busy : BOOLEAN, to : 0..MaxStreams]]
    BY DEF SessionsInv, ConnsOK
  <2>5. request' = [request EXCEPT ![c] = [busy |-> FALSE, to |-> NoStream]]
    BY DEF RequestComplete
  <2>6. QED BY <1>1, <1>4, <2>1, <2>3, <2>4, <2>5
<1>8. ConnsOK'
  BY <1>1, <1>3, <1>5, <1>7 DEF SessionsInv, ConnsOK, Open
<1>9. QED BY <1>6, <1>8

LEMMA PostBodyInv ==
    ASSUME SessionsInv, NEW c \in Conns, NEW method, NEW u \in Uris, PostBody(c, method, u)
    PROVE  SessionsInv'
<1>1. MessageKeeps
  BY DispatchKeeps DEF PostBody
<1>2. ConnsOK' /\ SameStreams
  BY CompleteOK DEF PostBody
<1>3. QED BY <1>1, <1>2, KeptInv DEF PostBody

LEMMA PipeMessageInv ==
    ASSUME SessionsInv, NEW c \in Conns, NEW method, NEW u \in Uris, PipeMessage(c, method, u)
    PROVE  SessionsInv'
<1>1. MessageKeeps
  BY DispatchKeeps DEF PipeMessage
<1>2. ConnsOK' /\ SameStreams
  BY DEF PipeMessage, SessionsInv, ConnsOK, SameStreams, Open
<1>3. QED BY <1>1, <1>2, KeptInv DEF PipeMessage

(* The manager alone has changed, and no stream's session in it.           *)
LEMMA TrimmedInv ==
    ASSUME SessionsInv, Trimmed(server, server', Nat), UpdateHeard',
           UNCHANGED <<conn, request, registry, streams, wants, astray>>
    PROVE  SessionsInv'
<1>1. \A c \in Conns : Open(c)' <=> Open(c)
  BY DEF Open
<1>2. HttpConns \subseteq Conns /\ Pipes \subseteq Conns
  BY DEF Conns
<1>3. ConnsOK'
  BY <1>1 DEF SessionsInv, ConnsOK
<1>4. StreamsOK'
  <2>1. \A n \in DOMAIN streams : streams[n] # NoConn => streams[n] \in Conns
    BY <1>2 DEF SessionsInv, StreamsOK
  <2>2. QED BY <1>1, <1>2, <2>1 DEF SessionsInv, StreamsOK
<1>5. ManagerOK'
  BY <1>1, <1>2 DEF SessionsInv, ManagerOK, ConnsOf, Trimmed
<1>6. WantsOK'
  <2>1. DOMAIN registry \subseteq Nat
    BY StreamNumbers DEF SessionsInv, StreamsOK
  <2>2. QED BY <1>1, <1>2, <2>1 DEF SessionsInv, WantsOK, Trimmed
<1>7. QED BY <1>3, <1>4, <1>5, <1>6 DEF SessionsInv, NothingAstray

LEMMA IdleTrims ==
    ASSUME NEW s, MgrOK(s), NEW r, Idle(s, r)
    PROVE  Trimmed(s, r, Nat)
BY IdleOK DEF Trimmed, Idle

LEMMA GoesQuietInv ==
    ASSUME SessionsInv, NEW i, GoesQuiet(i)
    PROVE  SessionsInv'
<1>1. MgrOK(server)
  BY DEF SessionsInv, ManagerOK
<1>2. Idle(server, server')
  BY <1>1, ActivityOK DEF GoesQuiet
<1>3. QED BY <1>1, <1>2, IdleTrims, TrimmedInv, QuietHeard DEF GoesQuiet

LEMMA CleanupTimerInv == ASSUME SessionsInv, CleanupTimer PROVE SessionsInv'
<1>1. Trimmed(server, server', Nat)
  BY CleanupOK DEF SessionsInv, ManagerOK, CleanupTimer
<1>2. QED BY <1>1, TrimmedInv, QuietHeard DEF CleanupTimer

(* Whoever holds a subscription can be reached, and was told that he does. *)
LEMMA UpdateGoesRight ==
    ASSUME SessionsInv, NEW u \in Uris, notifyResourceUpdate(u)
    PROVE  UpdateHeard'
<1> DEFINE subscribed == server.subscribers[u] \cap DOMAIN server.sessions
           S == server.sessions
<1>1. /\ told'.uri = u
      /\ told'.to = {sendToSession(S[i]) : i \in subscribed} \ {NoConn}
      /\ wants' = wants /\ registry' = registry
  BY DEF notifyResourceUpdate
<1>2. \A i \in subscribed : i \in DOMAIN S /\ u \in S[i].subs
  BY DEF SessionsInv, ManagerOK, MgrOK, Subscribed
<1>3. MgrOK(server) /\ Keyed(server)
  BY DEF SessionsInv, ManagerOK, MgrOK
<1>4. \A n \in DOMAIN registry :
         /\ wants[registry[n]] = Held(server, n)
         /\ registry[n] \in HttpConns /\ Open(registry[n]) /\ n # 0
  BY StreamNumbers DEF SessionsInv, WantsOK, StreamsOK
<1>5. NoConn \notin HttpConns
  BY SessionsAssumption DEF Conns
<1> HIDE DEF subscribed
<1>6. ASSUME NEW c \in told'.to PROVE u \in wants[c]
  <2>1. PICK i \in subscribed : c = sendToSession(S[i]) /\ c # NoConn
    BY <1>1
  <2>2. i \in DOMAIN S /\ u \in S[i].subs
    BY <1>2
  <2>3. CASE S[i].stream # NoStream
    <3>1. S[i].stream \in DOMAIN registry /\ c = registry[S[i].stream]
      BY <2>1, <2>3 DEF sendToSession, RegistrySend
    <3>2. S[i].stream \in DOMAIN server.byStream /\ server.byStream[S[i].stream] = i
      BY <1>3, <2>2, <2>3 DEF Keyed, ByKey
    <3>3. QED BY <1>4, <2>2, <3>1, <3>2 DEF Held
  <2>4. CASE S[i].stream = NoStream
    <3>1. S[i].conn \in Pipes /\ Open(S[i].conn) /\ c = S[i].conn
      BY <2>1, <2>4 DEF sendToSession
    <3>2. c \in DOMAIN server.byConn /\ server.byConn[c] = i
      BY <1>3, <2>2, <2>4, <3>1 DEF Keyed, ByKey
    <3>3. HeldBy(server, c) \subseteq wants[c]
      BY <3>1 DEF SessionsInv, WantsOK
    <3>4. QED BY <2>2, <3>2, <3>3 DEF HeldBy
  <2>5. QED BY <2>3, <2>4
<1>7. ASSUME NEW n \in DOMAIN registry, u \in wants[registry[n]]
      PROVE  registry[n] \in told'.to
  <2> DEFINE i == server.byStream[n]
  <2>1. n \in DOMAIN server.byStream /\ u \in S[i].subs
    BY <1>4, <1>7 DEF Held
  <2>2. i \in DOMAIN S /\ S[i].stream = n
    BY <1>3, <2>1 DEF Keyed, ByKey
  <2>3. i \in subscribed
    BY <2>1, <2>2 DEF SessionsInv, ManagerOK, MgrOK, Subscribed, subscribed
  <2>4. sendToSession(S[i]) = registry[n]
    BY <1>4, <1>5, <2>2 DEF sendToSession, RegistrySend
  <2> HIDE DEF i
  <2>5. QED BY <1>1, <1>4, <1>5, <2>3, <2>4
<1>8. QED BY <1>1, <1>6, <1>7 DEF UpdateHeard

LEMMA notifyResourceUpdateInv ==
    ASSUME SessionsInv, NEW u \in Uris, notifyResourceUpdate(u)
    PROVE  SessionsInv'
<1> DEFINE subscribed == server.subscribers[u] \cap DOMAIN server.sessions
           e == [i \in DOMAIN server.sessions |->
                   [server.sessions[i] EXCEPT !.expired = @ /\ i \notin subscribed]]
<1>1. MgrOK(server)
  BY DEF SessionsInv, ManagerOK
<1>2. server' = [server EXCEPT !.sessions = e]
  BY DEF notifyResourceUpdate
<1>3. \A i \in DOMAIN e : \E b \in BOOLEAN : e[i] = [server.sessions[i] EXCEPT !.expired = b]
  <2>1. \A i \in DOMAIN e : (server.sessions[i].expired /\ i \notin subscribed) \in BOOLEAN
    OBVIOUS
  <2>2. \A i \in DOMAIN e : e[i] = [server.sessions[i] EXCEPT
                              !.expired = server.sessions[i].expired /\ i \notin subscribed]
    OBVIOUS
  <2>3. QED BY <2>1, <2>2
<1>4. DOMAIN e = DOMAIN server.sessions
  OBVIOUS
<1> HIDE DEF e
<1>5. Idle(server, server')
  BY <1>1, <1>2, <1>3, <1>4, ExpiryOnly
<1>6. QED BY <1>1, <1>5, IdleTrims, TrimmedInv, UpdateGoesRight DEF notifyResourceUpdate

(* The stream is new, and so is its connection to streams: neither has a   *)
(* session, and nobody on it was told of a subscription.                   *)
LEMMA OpenStreamInv ==
    ASSUME SessionsInv, NEW c \in Conns, OpenStream(c)
    PROVE  SessionsInv'
<1> DEFINE n == Len(streams) + 1
           g == [state |-> conn[c].state, mode |-> "SseStream", callback |-> NoStream]
<1>1. /\ c \in HttpConns /\ c \notin Pipes /\ c # NoConn
      /\ Open(c) /\ ~request[c].busy /\ conn[c].mode # "SseStream"
      /\ UNCHANGED <<request, server, wants, astray>> /\ told' = Quiet
  BY SessionsAssumption DEF OpenStream, Conns
<1>2. PICK started \in BOOLEAN :
         /\ registry' = IF started THEN Having(registry, n, c) ELSE registry
         /\ streams' = Append(streams, IF started THEN c ELSE NoConn)
  BY DEF OpenStream
<1>3. /\ conn[c] \in [state : {"unused", "open", "closed"}, mode : Modes, callback : 0..MaxStreams]
      /\ request[c].to = NoStream
  BY <1>1 DEF SessionsInv, ConnsOK
<1>4. conn' = [conn EXCEPT ![c] = g]
  <2> DEFINE f == resetForNextRequest(conn[c])
             h == [conn[c] EXCEPT !.mode = "SseStream", !.callback = NoStream]
  <2>1. f.mode = "Undetermined"
    BY <1>1, <1>3 DEF resetForNextRequest
  <2>2. handleEvent(f.mode, "SseGetDetected") = "SseStream"
    BY <2>1 DEF handleEvent
  <2>3. conn' = [conn EXCEPT ![c].mode = handleEvent(f.mode, "SseGetDetected"),
                            ![c].callback = NoStream]
    BY DEF OpenStream
  <2> HIDE DEF f
  <2>4. conn' = [conn EXCEPT ![c] = h]
    BY <2>2, <2>3 DEF SessionsInv, ConnsOK
  <2>5. h = g
    <3>1. /\ DOMAIN h = {"state", "mode", "callback"}
          /\ h.state = conn[c].state /\ h.mode = "SseStream" /\ h.callback = NoStream
      BY <1>3
    <3>2. /\ DOMAIN g = {"state", "mode", "callback"}
          /\ g.state = conn[c].state /\ g.mode = "SseStream" /\ g.callback = NoStream
      OBVIOUS
    <3>3. g = [x \in DOMAIN g |-> g[x]] /\ h = [x \in DOMAIN h |-> h[x]]
      BY <1>3
    <3> HIDE DEF g, h
    <3>4. \A x \in DOMAIN g : g[x] = h[x]
      BY <3>1, <3>2
    <3>5. QED BY <3>1, <3>2, <3>3, <3>4
  <2> HIDE DEF g, h
  <2>6. QED BY <2>4, <2>5
<1>5. /\ g.state = conn[c].state /\ g.mode = "SseStream" /\ g.callback = NoStream
      /\ g \in [state : {"unused", "open", "closed"}, mode : Modes, callback : 0..MaxStreams]
  BY <1>3, SessionsAssumption DEF Modes
<1> HIDE DEF g
<1>6. \A d \in Conns : conn'[d] = IF d = c THEN g ELSE conn[d]
  BY <1>4 DEF SessionsInv, ConnsOK
<1>7. \A d \in Conns : /\ Open(d)' <=> Open(d)
                       /\ conn'[d].state = conn[d].state
                       /\ conn[d].mode = "SseStream" => conn'[d].mode = "SseStream"
  BY <1>5, <1>6 DEF Open
<1>8. /\ Len(streams) \in Nat /\ DOMAIN streams = 1..Len(streams) /\ n <= MaxStreams
      /\ DOMAIN streams' = 1..n /\ streams' \in Seq(HttpConns \cup {NoConn}) /\ Len(streams') = n
      /\ \A k \in DOMAIN streams : k \in DOMAIN streams' /\ streams'[k] = streams[k] /\ k # n
      /\ streams'[n] = IF started THEN c ELSE NoConn
  BY <1>1, <1>2, SessionsAssumption DEF OpenStream, SessionsInv, StreamsOK
<1>9. \A k \in DOMAIN streams : streams[k] # c
  <2>1. \A k \in DOMAIN streams : streams[k] = c => conn[c].mode = "SseStream"
    BY <1>1 DEF SessionsInv, StreamsOK
  <2>2. QED BY <1>1, <2>1
<1>10. HttpConns \subseteq Conns /\ Pipes \subseteq Conns
  BY DEF Conns
<1>11. /\ DOMAIN registry' = DOMAIN registry \cup (IF started THEN {n} ELSE {})
       /\ \A k \in DOMAIN registry : registry'[k] = registry[k] /\ k \in DOMAIN streams
       /\ started => registry'[n] = c
  BY <1>2, <1>8 DEF Having, SessionsInv, StreamsOK
<1> HIDE DEF n
<1>12. ConnsOK'
  <2>1. conn' \in [Conns -> [state : {"unused", "open", "closed"}, mode : Modes,
                             callback : 0..MaxStreams]]
    BY <1>4, <1>5 DEF SessionsInv, ConnsOK
  <2>2. \A d \in Conns : request[d].to # NoStream =>
            /\ request[d].busy
            /\ request[d].to \in DOMAIN streams' /\ streams'[request[d].to] # NoConn
    BY <1>8 DEF SessionsInv, ConnsOK
  <2>3. \A d \in Conns :
            /\ conn'[d].callback = request[d].to
            /\ conn'[d].callback # NoStream <=> conn'[d].mode = "CallbackProxy"
            /\ d \in Pipes \/ ~Open(d) => conn'[d].mode = "Undetermined"
            /\ conn'[d].mode = "SseStream" => ~request[d].busy
            /\ request[d].busy => Open(d)
    BY <1>1, <1>3, <1>5, <1>6 DEF SessionsInv, ConnsOK
  <2>4. request' = request /\ \A d \in Conns : Open(d)' <=> Open(d)
    BY <1>1, <1>7
  <2>5. QED BY <2>1, <2>2, <2>3, <2>4 DEF SessionsInv, ConnsOK
<1>13. StreamsOK'
  <2>1. streams' \in Seq(HttpConns \cup {NoConn}) /\ Len(streams') <= MaxStreams
        /\ DOMAIN registry' \subseteq DOMAIN streams'
    BY <1>8, <1>11
  <2>2. ASSUME NEW k \in DOMAIN registry'
        PROVE  /\ registry'[k] = streams'[k] /\ registry'[k] \in HttpConns
               /\ Open(registry[k])' /\ conn'[registry'[k]].mode = "SseStream"
    <3>1. CASE k \in DOMAIN registry
      <4>1. /\ registry[k] = streams[k] /\ registry[k] \in HttpConns
            /\ Open(registry[k]) /\ conn[registry[k]].mode = "SseStream"
        BY <3>1 DEF SessionsInv, StreamsOK
      <4>2. registry'[k] = registry[k] /\ streams'[k] = streams[k]
        BY <1>8, <1>11, <3>1
      <4>3. QED BY <1>7, <1>10, <4>1, <4>2 DEF Open
    <3>2. CASE k \notin DOMAIN registry
      <4>1. started /\ k = n /\ registry'[k] = c /\ streams'[k] = c
        BY <1>8, <1>11, <3>2
      <4>2. QED BY <1>1, <1>5, <1>6, <4>1 DEF Open
    <3>3. QED BY <3>1, <3>2
  <2>3. ASSUME NEW k \in DOMAIN streams', streams'[k] # NoConn
        PROVE  /\ conn'[streams'[k]].state # "unused"
               /\ conn'[streams'[k]].state = "open" => k \in DOMAIN registry'
    <3>1. CASE k \in DOMAIN streams
      <4>1. streams'[k] = streams[k] /\ streams[k] \in Conns
        BY <1>8, <1>10, <2>3, <3>1 DEF SessionsInv, StreamsOK
      <4>2. QED BY <1>7, <1>11, <2>3, <3>1, <4>1 DEF SessionsInv, StreamsOK, Open
    <3>2. CASE k \notin DOMAIN streams
      <4>1. k = n /\ started /\ streams'[k] = c
        BY <1>8, <2>3, <3>2 DEF n
      <4>2. QED BY <1>1, <1>5, <1>6, <1>11, <4>1 DEF Open
    <3>3. QED BY <3>1, <3>2
  <2>4. \A k, m \in DOMAIN streams' :
            streams'[k] = streams'[m] /\ streams'[k] # NoConn => k = m
    <3>1. \A k \in DOMAIN streams' : k # n => k \in DOMAIN streams
      BY <1>8 DEF n
    <3>2. QED BY <1>8, <1>9, <3>1 DEF SessionsInv, StreamsOK
  <2>5. QED BY <2>1, <2>2, <2>3, <2>4 DEF StreamsOK, Open
<1>14. ManagerOK'
  <2>1. \A d \in DOMAIN server.byConn : d \in Conns
    BY DEF SessionsInv, ManagerOK, MgrOK, Keyed, ByKey
  <2>2. QED BY <1>1, <1>7, <1>8, <2>1 DEF SessionsInv, ManagerOK, ConnsOf
<1>15. WantsOK'
  <2>1. started => wants[c] = {} /\ Held(server, n) = {}
    <3>1. n \notin DOMAIN server.byStream
      BY <1>8 DEF SessionsInv, ManagerOK, n
    <3>2. QED BY <1>1, <3>1 DEF SessionsInv, WantsOK, Held
  <2>2. \A k \in DOMAIN registry' : wants'[registry'[k]] = Held(server', k)
    BY <1>1, <1>11, <2>1 DEF SessionsInv, WantsOK
  <2>3. QED BY <1>1, <1>5, <1>6, <1>7, <1>10, <2>2 DEF SessionsInv, WantsOK
<1>16. QED
  BY <1>1, <1>12, <1>13, <1>14, <1>15, QuietHeard DEF SessionsInv, NothingAstray

(* Nothing of the connection is left but a pipe's session; the streams of  *)
(* others, and their sessions, are as they were.                           *)
LEMMA CloseInv ==
    ASSUME SessionsInv, NEW c \in Conns, Close(c)
    PROVE  SessionsInv'
<1> DEFINE g == [state |-> "closed", mode |-> "Undetermined", callback |-> NoStream]
<1>1. /\ Open(c) /\ conn' = [conn EXCEPT ![c] = g]
      /\ request' = [request EXCEPT ![c] = [busy |-> FALSE, to |-> NoStream]]
      /\ wants' = [wants EXCEPT ![c] = {}]
      /\ UNCHANGED <<streams, astray>> /\ told' = Quiet
  BY DEF Close
<1>2. \A d \in Conns :
         /\ conn'[d] = IF d = c THEN g ELSE conn[d]
         /\ request'[d] = IF d = c THEN [busy |-> FALSE, to |-> NoStream] ELSE request[d]
         /\ wants'[d] = IF d = c THEN {} ELSE wants[d]
         /\ Open(d)' <=> Open(d) /\ d # c
  BY <1>1 DEF SessionsInv, ConnsOK, WantsOK, Open
<1>3. /\ HttpConns \subseteq Conns /\ Pipes \subseteq Conns /\ HttpConns \cap Pipes = {}
      /\ NoConn \notin Conns
  BY SessionsAssumption DEF Conns
<1>4. /\ DOMAIN registry' = {n \in DOMAIN registry : registry[n] # c}
      /\ \A n \in DOMAIN registry' : registry'[n] = registry[n]
  <2>1. CASE c \in HttpConns
    BY <2>1 DEF Close, onConnectionLifecycleEvent, removeConnection, Restrict
  <2>2. CASE c \in Pipes
    <3>1. registry' = registry
      BY <1>3, <2>2 DEF Close
    <3>2. \A n \in DOMAIN registry : registry[n] # c
      BY <1>3, <2>2 DEF SessionsInv, StreamsOK
    <3>3. QED BY <3>1, <3>2
  <2>3. QED BY <2>1, <2>2 DEF Conns
<1>5. /\ MgrOK(server')
      /\ DOMAIN server'.byStream \subseteq DOMAIN server.byStream
      /\ DOMAIN server'.byConn \subseteq DOMAIN server.byConn
      /\ \A n \in DOMAIN registry' : Held(server', n) = Held(server, n)
      /\ \A d \in Conns : HeldBy(server', d) \subseteq HeldBy(server, d)
      /\ c \in HttpConns => c \notin DOMAIN server'.byConn
  <2>1. MgrOK(server)
    BY DEF SessionsInv, ManagerOK
  <2>2. CASE c \in HttpConns
    <3> DEFINE closed == DOMAIN registry \ DOMAIN registry'
               mid == removeSessionByTransportId(server, closed)
    <3>1. server' = removeSessionByConnection(mid, c)
      BY <2>2 DEF Close, onConnectionLifecycleEvent
    <3>2. DOMAIN registry' \subseteq Nat \ closed
      BY <1>4, StreamNumbers DEF SessionsInv, StreamsOK
    <3> HIDE DEF closed
    <3>3. Trimmed(server, mid, Nat \ closed)
      BY <2>1, StreamsClosedOK
    <3> HIDE DEF mid
    <3>4. MgrOK(mid)
      BY <3>3 DEF Trimmed
    <3>5. Trimmed(mid, server', Nat) /\ c \notin DOMAIN server'.byConn
      BY <3>1, <3>4, ConnectionClosedOK
    <3>6. \A n \in DOMAIN registry' : n \in Nat /\ n \in Nat \ closed
      BY <3>2
    <3>7. QED BY <3>3, <3>5, <3>6 DEF Trimmed
  <2>3. CASE c \in Pipes
    <3>1. server' = server /\ c \notin HttpConns
      BY <1>3, <2>3 DEF Close
    <3>2. QED BY <2>1, <3>1
  <2>4. QED BY <2>2, <2>3 DEF Conns
<1>6. ConnsOK'
  <2>1. 0 \in 0..MaxStreams
    BY SessionsAssumption
  <2>2. /\ conn' \in [Conns -> [state : {"unused", "open", "closed"}, mode : Modes,
                               callback : 0..MaxStreams]]
        /\ request' \in [Conns -> [busy : BOOLEAN, to : 0..MaxStreams]]
    BY <1>1, <2>1 DEF SessionsInv, ConnsOK, Modes
  <2>3. QED BY <1>1, <1>2, <2>2 DEF SessionsInv, ConnsOK
<1>7. StreamsOK'
  <2>1. \A n \in DOMAIN streams : streams[n] # NoConn => streams[n] \in Conns
    BY <1>3 DEF SessionsInv, StreamsOK
  <2>2. DOMAIN registry' \subseteq DOMAIN streams'
    BY <1>1, <1>4 DEF SessionsInv, StreamsOK
  <2>3. ASSUME NEW n \in DOMAIN registry'
        PROVE  /\ registry'[n] = streams'[n] /\ registry'[n] \in HttpConns
               /\ Open(registry[n])' /\ conn'[registry'[n]].mode = "SseStream"
    <3>1. /\ registry[n] = streams[n] /\ registry[n] \in HttpConns
          /\ Open(registry[n]) /\ conn[registry[n]].mode = "SseStream"
          /\ registry[n] # c /\ registry'[n] = registry[n]
      BY <1>4 DEF SessionsInv, StreamsOK
    <3>2. QED BY <1>1, <1>2, <1>3, <3>1 DEF Open
  <2>4. ASSUME NEW n \in DOMAIN streams', streams'[n] # NoConn
        PROVE  /\ conn'[streams'[n]].state # "unused"
               /\ conn'[streams'[n]].state = "open" => n \in DOMAIN registry'
    <3>1. streams'[n] = streams[n] /\ streams[n] \in Conns /\ conn[streams[n]].state # "unused"
      BY <1>1, <2>1, <2>4 DEF SessionsInv, StreamsOK
    <3>2. CASE streams[n] = c
      BY <1>2, <3>1, <3>2
    <3>3. CASE streams[n] # c
      <4>1. conn'[streams'[n]] = conn[streams[n]]
        BY <1>2, <3>1, <3>3
      <4>2. Open(streams[n]) => n \in DOMAIN registry /\ registry[n] # c
        BY <1>1, <2>4, <3>3 DEF SessionsInv, StreamsOK
      <4>3. QED BY <1>4, <3>1, <4>1, <4>2 DEF Open
    <3>4. QED BY <3>2, <3>3
  <2>5. QED BY <1>1, <2>2, <2>3, <2>4 DEF SessionsInv, StreamsOK, Open
<1>8. ManagerOK'
  <2>1. \A d \in DOMAIN server.byConn : d \in Conns
    BY DEF SessionsInv, ManagerOK, MgrOK, Keyed, ByKey
  <2>2. QED BY <1>1, <1>2, <1>5, <2>1 DEF SessionsInv, ManagerOK, ConnsOf
<1>9. WantsOK'
  <2>1. wants' \in [Conns -> SUBSET Uris]
    BY <1>1 DEF SessionsInv, WantsOK
  <2>2. \A n \in DOMAIN registry' : wants'[registry'[n]] = Held(server', n)
    <3>1. \A n \in DOMAIN registry' : /\ registry'[n] = registry[n] /\ registry[n] # c
                                      /\ registry[n] \in Conns /\ n \in DOMAIN registry
      BY <1>3, <1>4 DEF SessionsInv, StreamsOK
    <3>2. QED BY <1>2, <1>5, <3>1 DEF SessionsInv, WantsOK
  <2>3. \A d \in Pipes : Open(d)' => HeldBy(server', d) \subseteq wants'[d]
    BY <1>2, <1>3, <1>5 DEF SessionsInv, WantsOK
  <2>4. \A d \in HttpConns : wants'[d] # {} => conn'[d].mode = "SseStream"
    BY <1>2, <1>3 DEF SessionsInv, WantsOK
  <2>5. QED BY <2>1, <2>2, <2>3, <2>4 DEF WantsOK
<1>10. QED
  BY <1>1, <1>6, <1>7, <1>8, <1>9, QuietHeard DEF SessionsInv, NothingAstray

LEMMA NextInv == ASSUME SessionsInv, Next PROVE SessionsInv'
<1>1. ASSUME NEW c \in Conns, onNewConnection(c) \/ PipeOpens(c) \/ OpenStream(c) \/ Close(c)
      PROVE  SessionsInv'
  BY <1>1, onNewConnectionInv, PipeOpensInv, OpenStreamInv, CloseInv
<1>2. ASSUME NEW c \in Conns, NEW n \in 0..MaxStreams, PostHeaders(c, n) PROVE SessionsInv'
  BY <1>2, PostHeadersInv
<1>3. ASSUME NEW c \in Conns, NEW method \in Methods, NEW u \in Uris,
             PostBody(c, method, u) \/ PipeMessage(c, method, u)
      PROVE  SessionsInv'
  BY <1>3, PostBodyInv, PipeMessageInv
<1>4. ASSUME NEW u \in Uris, notifyResourceUpdate(u) PROVE SessionsInv'
  BY <1>4, notifyResourceUpdateInv
<1>5. ASSUME NEW i \in 1..server.created, GoesQuiet(i) PROVE SessionsInv'
  BY <1>5, GoesQuietInv
<1>6. CASE CleanupTimer
  BY <1>6, CleanupTimerInv
<1>7. QED BY <1>1, <1>2, <1>3, <1>4, <1>5, <1>6 DEF Next

-----------------------------------------------------------------------------
(* The questions: they touch a session's activity, and a request's end.    *)

LEMMA SendTrims ==
    ASSUME SessionsInv, NEW q, NEW C, sendRequest(q, C)
    PROVE  Trimmed(server, server', Nat)
<1>1. MgrOK(server)
  BY DEF SessionsInv, ManagerOK
<1>2. CASE server' = server
  BY <1>1, <1>2 DEF Trimmed
<1>3. CASE server' # server
  <2> DEFINE i == C[q].session
  <2>1. i \in DOMAIN server.sessions /\ server' = updateActivity(server, i)
    BY <1>3 DEF sendRequest
  <2> HIDE DEF i
  <2>2. Idle(server, server')
    BY <1>1, <2>1, ActivityOK DEF updateActivity
  <2>3. QED BY <1>1, <2>2, IdleTrims
<1>4. QED BY <1>2, <1>3

LEMMA AskInv == ASSUME SessionsInv, NEW q, Ask(q) PROVE SessionsInv'
<1>1. (\E C : sendRequest(q, C)) \/ server' = server
  BY DEF Ask
<1>2. Trimmed(server, server', Nat)
  BY <1>1, SendTrims DEF SessionsInv, ManagerOK, Trimmed
<1>3. QED BY <1>2, TrimmedInv, QuietHeard DEF Ask

LEMMA RunTaskInv == ASSUME SessionsInv, RunTask PROVE SessionsInv'
<1>1. (\E q : sendRequest(q, calls)) \/ server' = server
  BY DEF RunTask, Begin, Erase
<1>2. Trimmed(server, server', Nat)
  BY <1>1, SendTrims DEF SessionsInv, ManagerOK, Trimmed
<1>3. QED BY <1>2, TrimmedInv, QuietHeard DEF RunTask

LEMMA onResponseInv ==
    ASSUME SessionsInv, NEW c \in Conns, NEW q, onResponse(c, q)
    PROVE  SessionsInv'
<1>1. UNCHANGED <<registry, streams, server, wants, astray>> /\ told' = Quiet
  BY DEF onResponse
<1>2. MessageKeeps
  BY <1>1, NothingDone DEF SessionsInv, NothingAstray
<1>3. CASE c \in HttpConns /\ request[c].busy /\ RequestComplete(c)
  BY <1>1, <1>2, <1>3, CompleteOK, KeptInv
<1>4. CASE UNCHANGED <<conn, request>>
  <2>1. ConnsOK' /\ SameStreams
    BY <1>1, <1>4 DEF SessionsInv, ConnsOK, SameStreams, Open
  <2>2. QED BY <1>1, <1>2, <2>1, KeptInv
<1>5. QED BY <1>3, <1>4 DEF onResponse

LEMMA SessionsUnchanged == ASSUME SessionsInv, UNCHANGED vars PROVE SessionsInv'
<1>1. Trimmed(server, server', Nat)
  BY DEF SessionsInv, ManagerOK, Trimmed, vars
<1>2. UpdateHeard'
  BY DEF SessionsInv, UpdateHeard, vars
<1>3. QED BY <1>1, <1>2, TrimmedInv DEF vars

LEMMA StepInv == ASSUME SessionsInv, [QNext]_allvars PROVE SessionsInv'
<1>1. CASE alive /\ Next /\ UNCHANGED qvars
  BY <1>1, NextInv
<1>2. CASE RunTask
  BY <1>2, RunTaskInv
<1>3. ASSUME NEW q \in Calls, Ask(q) \/ TimerFires(q) \/ TimeIsUp(q) \/ HandedOver(q)
      PROVE  SessionsInv'
  <2>1. CASE Ask(q)
    BY <2>1, AskInv
  <2>2. CASE TimerFires(q) \/ TimeIsUp(q) \/ HandedOver(q)
    <3>1. UNCHANGED vars
      BY <2>2 DEF TimerFires, TimeIsUp, HandedOver
    <3>2. QED BY <3>1, SessionsUnchanged
  <2>3. QED BY <1>3, <2>1, <2>2
<1>4. ASSUME NEW q \in Calls, NEW c \in Conns, onResponse(c, q) PROVE SessionsInv'
  BY <1>4, onResponseInv
<1>5. CASE Destroy
  BY <1>5, SessionsUnchanged DEF Destroy
<1>6. CASE UNCHANGED allvars
  BY <1>6, SessionsUnchanged DEF allvars
<1>7. QED BY <1>1, <1>2, <1>3, <1>4, <1>5, <1>6 DEF QNext

-----------------------------------------------------------------------------
(* The theorems.                                                           *)

LEMMA InvHolds == QSpec => []SessionsInv
<1>1. QInit => SessionsInv
  BY InitInv DEF QInit
<1>2. SessionsInv /\ [QNext]_allvars => SessionsInv'
  BY StepInv
<1>3. QED BY <1>1, <1>2, PTL DEF QSpec

(* The session maps, the subscribers and the stream registry tell one      *)
(* story for every set of connections and every limit on the sessions: no  *)
(* way a session can end (removeSessionByTransportId,                      *)
(* removeSessionByConnection, cleanupExpiredSessions) leaves an entry of   *)
(* it behind, and none takes more than the session; and every accepted     *)
(* HTTP connection takes one of them (onNewConnection).                    *)
THEOREM TablesCorrect == QSpec => []TablesAgree
<1>1. SessionsInv => TablesAgree
  BY InvIsEnough
<1>2. QED BY <1>1, InvHolds, PTL

(* No answer goes anywhere but to the client that asked, whatever its      *)
(* connection was for before and whichever stream closed in between        *)
(* (onWrite's rerouting, SseSessionRegistry).                              *)
THEOREM NothingAstrayCorrect == QSpec => []NothingAstray
<1>1. SessionsInv => NothingAstray
  BY InvIsEnough
<1>2. QED BY <1>1, InvHolds, PTL

(* An update reaches every client on a stream that was told that it is     *)
(* subscribed, and no other (notifyResourceUpdate, sendToSession), however *)
(* many connections are accepted, each with a session that counts against  *)
(* max_sessions and may set off the sweep (onNewConnection).               *)
THEOREM UpdatesCorrect == QSpec => []UpdatesReachSubscribers
<1>1. SessionsInv => UpdatesReachSubscribers
  BY InvIsEnough
<1>2. QED BY <1>1, InvHolds, PTL

-----------------------------------------------------------------------------
(* A session's number names it for good: its numbers are not given again,  *)
(* and what it is keyed on does not change.                                *)
Older(s, t) ==
    /\ s.created <= t.created
    /\ \A i \in DOMAIN t.sessions : i <= s.created =>
          /\ i \in DOMAIN s.sessions
          /\ t.sessions[i].conn = s.sessions[i].conn
          /\ t.sessions[i].stream = s.sessions[i].stream

LEMMA SessionNumbers ==
    ASSUME NEW s, MgrOK(s)
    PROVE  s.created \in Nat /\ \A i \in DOMAIN s.sessions : i \in Nat /\ i <= s.created
BY DEF MgrOK, Shape

LEMMA OlderStays == ASSUME NEW s, MgrOK(s) PROVE Older(s, s)
BY SessionNumbers DEF Older

LEMMA OlderStill ==
    ASSUME NEW s, MgrOK(s), NEW t, MgrOK(t), NEW r, MgrOK(r), Older(s, t), Older(t, r)
    PROVE  Older(s, r)
<1>1. s.created \in Nat /\ t.created \in Nat /\ r.created \in Nat
  BY SessionNumbers
<1>2. \A i \in DOMAIN r.sessions : i \in Nat
  BY SessionNumbers
<1>3. s.created <= r.created
  BY <1>1 DEF Older
<1>4. ASSUME NEW i \in DOMAIN r.sessions, i <= s.created
      PROVE  /\ i \in DOMAIN s.sessions
             /\ r.sessions[i].conn = s.sessions[i].conn
             /\ r.sessions[i].stream = s.sessions[i].stream
  <2>1. i <= t.created
    BY <1>1, <1>2, <1>4 DEF Older
  <2>2. QED BY <1>4, <2>1 DEF Older
<1>5. QED BY <1>3, <1>4 DEF Older

LEMMA RemovedOlder ==
    ASSUME NEW s, MgrOK(s), NEW gone
    PROVE  MgrOK(Removed(s, gone)) /\ Older(s, Removed(s, gone))
<1> DEFINE r == Removed(s, gone)
<1> HIDE DEF r
<1>1. LessGone(s, r, gone) /\ MgrOK(r)
  BY RemovedFields, RemovedOK DEF r
<1>2. s.created \in Nat
  BY SessionNumbers
<1>3. QED BY <1>1, <1>2 DEF LessGone, Older, r

LEMMA IdleOlder ==
    ASSUME NEW s, MgrOK(s), NEW r, Idle(s, r)
    PROVE  MgrOK(r) /\ Older(s, r)
<1>1. MgrOK(r) /\ s.created \in Nat
  BY IdleOK, SessionNumbers
<1>2. QED BY <1>1 DEF Idle, Older

LEMMA ActivityOlder ==
    ASSUME NEW s, MgrOK(s), NEW i \in DOMAIN s.sessions
    PROVE  MgrOK(updateActivity(s, i)) /\ Older(s, updateActivity(s, i))
<1>1. Idle(s, updateActivity(s, i))
  BY ActivityOK DEF updateActivity
<1>2. QED BY <1>1, IdleOlder

LEMMA HandledOlder ==
    ASSUME NEW s, MgrOK(s), NEW i \in DOMAIN s.sessions, NEW method, NEW u \in Uris
    PROVE  MgrOK(Handled(s, i, method, u)) /\ Older(s, Handled(s, i, method, u))
<1> DEFINE r == Handled(s, i, method, u)
<1> HIDE DEF r
<1>1. Resubscribed(s, r, i, method, u)
  BY HandledFields DEF r
<1>2. MgrOK(r) /\ s.created \in Nat
  BY <1>1, ResubscribedOK, SessionNumbers
<1>3. QED BY <1>1, <1>2 DEF Resubscribed, Older, r

LEMMA CreatedOlder ==
    ASSUME NEW s, MgrOK(s), NEW c, NEW n, NewKey(s, c, n)
    PROVE  MgrOK(Created(s, c, n).mgr) /\ Older(s, Created(s, c, n).mgr)
<1> DEFINE w == IF Full(s) THEN cleanupExpiredSessions(s) ELSE s
           i == s.created + 1
           q == [w EXCEPT !.created = i,
                          !.sessions = Having(@, i, NewSession(c, n)),
                          !.byStream = IF n = NoStream THEN @ ELSE Having(@, n, i),
                          !.byConn = IF c = NoConn THEN @ ELSE Having(@, c, i)]
<1>1. MgrOK(w) /\ Older(s, w)
  BY OlderStays, RemovedOlder DEF cleanupExpiredSessions
<1>2. Created(s, c, n) = IF Full(w) THEN [mgr |-> w, id |-> 0] ELSE [mgr |-> q, id |-> i]
  BY DEF Created
<1> HIDE DEF w
<1>3. MgrOK(Created(s, c, n).mgr)
  BY CreatedOK DEF Found
<1>4. CASE Full(w)
  BY <1>1, <1>2, <1>3, <1>4
<1>5. CASE ~Full(w)
  <2>1. DOMAIN w = Fields
    BY <1>1 DEF MgrOK, Shape
  <2>2. q.created = i /\ q.sessions = Having(w.sessions, i, NewSession(c, n))
    BY <2>1 DEF Fields
  <2>3. s.created \in Nat /\ \A k \in DOMAIN w.sessions : k \in Nat
    BY <1>1, SessionNumbers
  <2>4. Created(s, c, n).mgr = q
    BY <1>2, <1>5
  <2> HIDE DEF q
  <2>5. /\ DOMAIN q.sessions = DOMAIN w.sessions \cup {i}
        /\ \A k \in DOMAIN w.sessions : k # i => q.sessions[k] = w.sessions[k]
    BY <2>2 DEF Having
  <2>6. s.created <= i /\ ~(i <= s.created)
    BY <2>3
  <2> HIDE DEF i
  <2>7. Older(s, q)
    BY <1>1, <2>2, <2>5, <2>6 DEF Older
  <2>8. QED BY <1>3, <2>4, <2>7
<1>6. QED BY <1>4, <1>5
(* A message finds its session, or makes it, and may change what it holds. *)
LEMMA DispatchOlder ==
    ASSUME SessionsInv, NEW c \in Conns, Open(c), NEW method, NEW u \in Uris,
           Dispatch(c, method, u)
    PROVE  Older(server, server')
<1> DEFINE r == getOrCreateSessionFor(c)
           t == IF r.id = 0 THEN r.mgr ELSE updateActivity(r.mgr, r.id)
           n == request[c].to
<1>1. MgrOK(server)
  BY DEF SessionsInv, ManagerOK
<1>2. Found(server, r, c, n)
  BY SessionFound
<1>3. r = CASE n # NoStream /\ n \in DOMAIN server.byStream ->
                 [mgr |-> server, id |-> server.byStream[n]]
            [] n # NoStream /\ n \notin DOMAIN server.byStream -> Created(server, NoConn, n)
            [] n = NoStream /\ c \in DOMAIN server.byConn ->
                 [mgr |-> server, id |-> server.byConn[c]]
            [] OTHER -> Created(server, c, NoStream)
  BY Named DEF getOrCreateSessionFor
<1>4. n # NoStream => n \in 1..MaxStreams
  BY Named
<1>5. server' = t \/ (r.id # 0 /\ server' = Handled(t, r.id, method, u))
  BY DEF Dispatch, dispatchRequest, onNotification
<1> HIDE DEF r, n
<1>6. Older(server, r.mgr)
  <2>1. CASE n # NoStream /\ n \in DOMAIN server.byStream
    BY <1>1, <1>3, <2>1, OlderStays
  <2>2. CASE n # NoStream /\ n \notin DOMAIN server.byStream
    <3>1. NewKey(server, NoConn, n) /\ r = Created(server, NoConn, n)
      BY <1>3, <1>4, <2>2 DEF NewKey
    <3>2. QED BY <1>1, <3>1, CreatedOlder
  <2>3. CASE n = NoStream /\ c \in DOMAIN server.byConn
    BY <1>1, <1>3, <2>3, OlderStays
  <2>4. CASE n = NoStream /\ c \notin DOMAIN server.byConn
    <3>1. NewKey(server, c, NoStream) /\ r = Created(server, c, NoStream)
      BY <1>3, <2>4 DEF NewKey
    <3>2. QED BY <1>1, <3>1, CreatedOlder
  <2>5. QED BY <2>1, <2>2, <2>3, <2>4
<1>7. MgrOK(r.mgr) /\ (r.id # 0 => r.id \in DOMAIN r.mgr.sessions)
  BY <1>2 DEF Found
<1>8. MgrOK(t) /\ Older(r.mgr, t) /\ (r.id # 0 => r.id \in DOMAIN t.sessions)
  <2>1. CASE r.id = 0
    BY <1>7, <2>1, OlderStays
  <2>2. CASE r.id # 0
    <3>1. Idle(r.mgr, t)
      BY <1>7, <2>2, ActivityOK DEF updateActivity
    <3> HIDE DEF t
    <3>2. QED BY <1>7, <3>1, IdleOlder DEF Idle
  <2>3. QED BY <2>1, <2>2
<1> HIDE DEF t
<1>9. MgrOK(server') /\ Older(t, server')
  BY <1>5, <1>8, OlderStays, HandledOlder
<1>10. QED BY <1>1, <1>6, <1>7, <1>8, <1>9, OlderStill

LEMMA CloseOlder ==
    ASSUME SessionsInv, NEW c, Close(c)
    PROVE  Older(server, server')
<1> DEFINE mid == removeSessionByTransportId(server, DOMAIN registry \ DOMAIN registry')
<1>1. MgrOK(server)
  BY DEF SessionsInv, ManagerOK
<1>2. CASE server' = server
  BY <1>1, <1>2, OlderStays
<1>3. CASE server' = removeSessionByConnection(mid, c)
  <2>1. MgrOK(mid) /\ Older(server, mid)
    BY <1>1, RemovedOlder DEF removeSessionByTransportId
  <2> HIDE DEF mid
  <2>2. MgrOK(server') /\ Older(mid, server')
    BY <1>3, <2>1, RemovedOlder, OlderStays DEF removeSessionByConnection
  <2>3. QED BY <1>1, <2>1, <2>2, OlderStill
<1>4. QED BY <1>2, <1>3 DEF Close, onConnectionLifecycleEvent

LEMMA NextOlder ==
    ASSUME SessionsInv, Next
    PROVE  Older(server, server')
<1>1. MgrOK(server)
  BY DEF SessionsInv, ManagerOK
<1>2. ASSUME NEW c \in Conns, onNewConnection(c) \/ PipeOpens(c) \/ OpenStream(c)
      PROVE  Older(server, server')
  <2>1. CASE onNewConnection(c)
    BY <1>1, <2>1, Accepted, CreatedOlder
  <2>2. QED BY <1>1, <1>2, <2>1, OlderStays DEF PipeOpens, OpenStream
<1>3. ASSUME NEW c \in Conns, Close(c) PROVE Older(server, server')
  BY <1>3, CloseOlder
<1>4. ASSUME NEW c \in Conns, NEW n \in 0..MaxStreams, PostHeaders(c, n)
      PROVE  Older(server, server')
  BY <1>1, <1>4, OlderStays DEF PostHeaders
<1>5. ASSUME NEW c \in Conns, NEW method \in Methods, NEW u \in Uris,
             PostBody(c, method, u) \/ PipeMessage(c, method, u)
      PROVE  Older(server, server')
  <2>1. Open(c) /\ Dispatch(c, method, u)
    BY <1>5 DEF PostBody, PipeMessage
  <2>2. QED BY <2>1, DispatchOlder
<1>6. ASSUME NEW u \in Uris, notifyResourceUpdate(u) PROVE Older(server, server')
  <2> DEFINE subscribed == server.subscribers[u] \cap DOMAIN server.sessions
             e == [i \in DOMAIN server.sessions |->
                     [server.sessions[i] EXCEPT !.expired = @ /\ i \notin subscribed]]
  <2>1. server' = [server EXCEPT !.sessions = e]
    BY <1>6 DEF notifyResourceUpdate
  <2>2. DOMAIN server = Fields /\ \A i \in DOMAIN server.sessions : server.sessions[i] \in Session
    BY <1>1 DEF MgrOK, Shape
  <2>3. /\ DOMAIN e = DOMAIN server.sessions
        /\ \A i \in DOMAIN server.sessions : /\ e[i].conn = server.sessions[i].conn
                                             /\ e[i].stream = server.sessions[i].stream
    BY <2>2 DEF Session
  <2> HIDE DEF e
  <2>4. server'.created = server.created /\ server'.sessions = e
    BY <2>1, <2>2 DEF Fields
  <2>5. server.created \in Nat
    BY <1>1, SessionNumbers
  <2>6. QED BY <2>3, <2>4, <2>5 DEF Older
<1>7. ASSUME NEW i, GoesQuiet(i) PROVE Older(server, server')
  <2>1. Idle(server, server')
    BY <1>1, <1>7, ActivityOK DEF GoesQuiet
  <2>2. QED BY <1>1, <2>1, IdleOlder
<1>8. CASE CleanupTimer
  BY <1>1, <1>8, RemovedOlder DEF CleanupTimer, cleanupExpiredSessions
<1>9. QED BY <1>2, <1>3, <1>4, <1>5, <1>6, <1>7, <1>8, Next DEF Next

(* So whoever a session's number stands for stays the same for as long as  *)
(* the session does: streams, too, are numbered once.                      *)
SameClients ==
    /\ server.created <= server'.created
    /\ \A i \in DOMAIN server'.sessions : i <= server.created =>
          i \in DOMAIN server.sessions /\ ClientOf(i)' = ClientOf(i)

LEMMA ClientStays ==
    ASSUME SessionsInv, Older(server, server'),
           \A n \in DOMAIN streams : streams'[n] = streams[n]
    PROVE  SameClients
<1>1. server.created <= server'.created
  BY DEF Older
<1>2. ASSUME NEW i \in DOMAIN server'.sessions, i <= server.created
      PROVE  i \in DOMAIN server.sessions /\ ClientOf(i)' = ClientOf(i)
  <2>1. /\ i \in DOMAIN server.sessions
        /\ server'.sessions[i].conn = server.sessions[i].conn
        /\ server'.sessions[i].stream = server.sessions[i].stream
    BY <1>2 DEF Older
  <2>2. server.sessions[i].stream # NoStream => server.sessions[i].stream \in DOMAIN streams
    BY <2>1 DEF SessionsInv, ManagerOK, MgrOK, Keyed, ByKey
  <2>3. QED BY <1>2, <2>1, <2>2 DEF ClientOf
<1>3. QED BY <1>1, <1>2 DEF SameClients

LEMMA SendOlder ==
    ASSUME SessionsInv, NEW q, NEW C, sendRequest(q, C)
    PROVE  Older(server, server')
BY OlderStays, ActivityOlder DEF sendRequest, SessionsInv, ManagerOK

LEMMA StreamsStay ==
    ASSUME SessionsInv, [QNext]_allvars
    PROVE  \A n \in DOMAIN streams : streams'[n] = streams[n]
<1>1. streams \in Seq(HttpConns \cup {NoConn})
  BY DEF SessionsInv, StreamsOK
<1>2. ASSUME NEW c, OpenStream(c) PROVE \A n \in DOMAIN streams : streams'[n] = streams[n]
  <2>1. PICK started \in BOOLEAN : streams' = Append(streams, IF started THEN c ELSE NoConn)
    BY <1>2 DEF OpenStream
  <2>2. QED BY <1>1, <2>1
<1>3. CASE streams' = streams
  BY <1>3
<1>4. Next => streams' = streams \/ \E c : OpenStream(c)
  BY DEF Next, onNewConnection, PipeOpens, Close, PostHeaders, PostBody, PipeMessage, notifyResourceUpdate,
         GoesQuiet, CleanupTimer
<1>5. [QNext]_allvars => Next \/ streams' = streams
  BY DEF QNext, RunTask, Ask, TimerFires, TimeIsUp, HandedOver, onResponse, Destroy, allvars, vars
<1>6. QED BY <1>2, <1>3, <1>4, <1>5

LEMMA StepOlder ==
    ASSUME SessionsInv, [QNext]_allvars
    PROVE  SameClients
<1>1. Older(server, server')
  <2>1. CASE Next
    BY <2>1, NextOlder
  <2>2. CASE server' = server
    BY <2>2, OlderStays DEF SessionsInv, ManagerOK
  <2>3. CASE \E q, C : sendRequest(q, C)
    BY <2>3, SendOlder
  <2>4. QED
    BY <2>1, <2>2, <2>3 DEF QNext, RunTask, Begin, Erase, Ask, TimerFires, TimeIsUp,
                           HandedOver, onResponse, Destroy, allvars, vars
<1>2. QED BY <1>1, StreamsStay, ClientStays
-----------------------------------------------------------------------------
(* The questions' own invariant.                                           *)

CallFields == {"session", "asked", "hands", "by", "fired", "inner", "future"}

Shaped(x) == DOMAIN x = CallFields /\ x.inner \in Futures /\ x.future \in Futures

Task == [task : {"begin", "erase"}, call : Calls]

(* A question is posted once.                                              *)
Once(P) == \A j, k \in DOMAIN P : P[j] = P[k] /\ P[j].task = "begin" => j = k

PartsOK ==
    /\ posted \in Seq(Task) /\ Once(posted)
    /\ DOMAIN calls = Calls /\ \A q \in Calls : Shaped(calls[q])
    /\ DOMAIN waiters \subseteq Calls /\ DOMAIN deadlines \subseteq Calls
    /\ \A id \in DOMAIN waiters : waiters[id] = id
    /\ \A id \in DOMAIN deadlines : deadlines[id] = id

Posted(q) == BeginTask(q) \in Range(posted)
Erasing(q) == EraseTask(q) \in Range(posted)

(* What becomes of a question: unasked, posted, waiting, then settled; with *)
(* a waiter exactly while it waits, and a timer until that is erased.       *)
Lived(q) ==
    LET x == calls[q] IN
    /\ x.inner = "pending" <=> q \in DOMAIN waiters
    /\ x.inner = "pending" => q \in DOMAIN deadlines
    /\ q \in DOMAIN deadlines => x.inner = "pending" \/ Erasing(q)
    /\ Erasing(q) => x.inner \in Settled
    /\ Posted(q) => q \notin OnDispatcher /\ x.inner = "none" /\ x.future # "unasked"
    /\ x.future = "unasked" => x.inner = "none" /\ x.hands = NoConn
    /\ q \in OnDispatcher /\ x.inner = "pending" => x.future = "pending"
    /\ x.inner = "broken" => ~alive

(* Who is sent a question is who was asked.                                *)
Placed(q) ==
    LET x == calls[q] IN
    /\ x.inner \in {"pending", "answered", "timeout"} => x.hands # NoConn
    /\ x.hands # NoConn => x.hands = x.asked

(* A question that is still to be sent is for the client its session had   *)
(* when it was asked, if the session is still there.                       *)
Remembered(q) ==
    LET i == calls[q].session IN
    /\ i \in 1..server.created
    /\ i \in DOMAIN server.sessions => calls[q].asked = ClientOf(i)

QuestionsInv ==
    /\ PartsOK
    /\ \A q \in Calls : Lived(q) /\ Placed(q) /\ (Posted(q) => Remembered(q))

LEMMA QuestionsInvIsEnough == ASSUME QuestionsInv PROVE QuestionsSound
<1>1. QuestionsTypeOK
  BY DEF QuestionsInv, PartsOK, Shaped, Placed, QuestionsTypeOK, Range
<1>2. NothingLeftBehind
  BY <1>1 DEF QuestionsInv, PartsOK, Lived, Erasing, NothingLeftBehind
<1>3. AskedOfThatClient
  BY DEF QuestionsInv, Lived, Placed, AskedOfThatClient
<1>4. QED BY <1>2, <1>3 DEF QuestionsSound

(* Tasks are run from one end and posted at the other.                     *)
LEMMA TaskAdded ==
    ASSUME NEW P \in Seq(Task), NEW t \in Task
    PROVE  /\ Append(P, t) \in Seq(Task)
           /\ Range(Append(P, t)) = Range(P) \cup {t}
           /\ Once(P) /\ (t.task = "begin" => t \notin Range(P)) => Once(Append(P, t))
<1> DEFINE A == Append(P, t)
<1>1. /\ A \in Seq(Task) /\ Len(P) \in Nat /\ DOMAIN P = 1..Len(P)
      /\ DOMAIN A = 1..(Len(P) + 1) /\ A[Len(P) + 1] = t
      /\ \A k \in DOMAIN P : A[k] = P[k]
  OBVIOUS
<1> HIDE DEF A
<1>2. DOMAIN A = DOMAIN P \cup {Len(P) + 1} /\ Len(P) + 1 \notin DOMAIN P
  BY <1>1
<1>3. Range(A) = Range(P) \cup {t}
  BY <1>1, <1>2 DEF Range
<1>4. ASSUME Once(P), t.task = "begin" => t \notin Range(P) PROVE Once(A)
  BY <1>1, <1>2, <1>4 DEF Once, Range
<1>5. QED BY <1>1, <1>3, <1>4 DEF A

LEMMA TaskTaken ==
    ASSUME NEW P \in Seq(Task), P # <<>>
    PROVE  /\ Tail(P) \in Seq(Task) /\ Head(P) \in Task
           /\ Range(P) = Range(Tail(P)) \cup {Head(P)}
           /\ Once(P) => Once(Tail(P)) /\ (Head(P).task = "begin" => Head(P) \notin Range(Tail(P)))
<1> DEFINE T == Tail(P)
           h == Head(P)
<1>1. /\ T \in Seq(Task) /\ h \in Task /\ h = P[1] /\ Len(P) \in Nat /\ Len(P) >= 1
      /\ DOMAIN P = 1..Len(P) /\ DOMAIN T = 1..(Len(P) - 1)
      /\ \A k \in 1..(Len(P) - 1) : T[k] = P[k + 1]
  OBVIOUS
<1> HIDE DEF T, h
<1>2. \A n \in Nat : n >= 1 =>
        /\ 1 \in 1..n
        /\ \A i \in 1..(n - 1) : i + 1 \in 1..n /\ i + 1 # 1
        /\ \A k \in 1..n : k # 1 => k - 1 \in 1..(n - 1) /\ (k - 1) + 1 = k
  OBVIOUS
<1>3. /\ 1 \in DOMAIN P
      /\ \A k \in DOMAIN T : k + 1 \in DOMAIN P /\ k + 1 # 1 /\ T[k] = P[k + 1]
      /\ \A k \in DOMAIN P : k # 1 => k - 1 \in DOMAIN T /\ T[k - 1] = P[k]
  BY <1>1, <1>2
<1>4. Range(P) = Range(T) \cup {h}
  <2>1. \A x : x \in Range(P) <=> x \in Range(T) \cup {h}
    BY <1>1, <1>3 DEF Range
  <2>2. QED BY <2>1
<1>5. ASSUME Once(P) PROVE Once(T)
  <2>1. \A j, k \in DOMAIN T : j + 1 = k + 1 => j = k
    BY <1>1
  <2>2. QED BY <1>3, <1>5, <2>1 DEF Once
<1>6. ASSUME Once(P), h.task = "begin" PROVE h \notin Range(T)
  <2>1. h = P[1]
    BY <1>1
  <2>2. P[1].task = "begin" /\ 1 \in DOMAIN P
    BY ONLY <1>3, <1>6, <2>1
  <2>3. ASSUME NEW k \in DOMAIN T PROVE T[k] # h
    <3>1. k + 1 \in DOMAIN P /\ k + 1 # 1 /\ T[k] = P[k + 1]
      BY <1>3
    <3>2. QED BY ONLY <1>6, <2>1, <2>2, <3>1 DEF Once
  <2>4. QED BY <2>3 DEF Range
<1>7. QED BY <1>1, <1>4, <1>5, <1>6 DEF T, h

LEMMA Tasks ==
    ASSUME NEW q \in Calls, NEW r \in Calls
    PROVE  /\ BeginTask(q) \in Task /\ EraseTask(q) \in Task
           /\ BeginTask(q) # EraseTask(r)
           /\ BeginTask(q) = BeginTask(r) <=> q = r
           /\ EraseTask(q) = EraseTask(r) <=> q = r
           /\ BeginTask(q).task = "begin" /\ EraseTask(q).task = "erase"
BY DEF BeginTask, EraseTask, Task
-----------------------------------------------------------------------------
(* How a step reaches the questions: one of them changes, and the others   *)
(* are as they were.                                                       *)
Untouched(q) ==
    /\ calls'[q] = calls[q]
    /\ q \in DOMAIN waiters' <=> q \in DOMAIN waiters
    /\ q \in DOMAIN deadlines' <=> q \in DOMAIN deadlines
    /\ Posted(q)' => Posted(q)
    /\ Erasing(q)' <=> Erasing(q)
    /\ alive' => alive

(* SettledOnce, of one question.                                           *)
StaysSettled(q) ==
    /\ calls[q].inner \in Settled => calls'[q].inner = calls[q].inner
    /\ calls[q].future \in Settled => calls'[q].future = calls[q].future

Sound(q) == Lived(q) /\ Placed(q) /\ (Posted(q) => Remembered(q))

LEMMA RememberedStays ==
    ASSUME SessionsInv, SessionsInv', SameClients, NEW q, Remembered(q),
           calls'[q].session = calls[q].session, calls'[q].asked = calls[q].asked
    PROVE  Remembered(q)'
<1>1. server.created \in Nat /\ server'.created \in Nat
  BY DEF SessionsInv, ManagerOK, MgrOK, Shape
<1>2. ASSUME NEW i, i = calls[q].session
      PROVE  /\ i \in 1..server'.created
             /\ i \in DOMAIN server'.sessions => calls[q].asked = ClientOf(i)'
  <2>1. i \in 1..server.created /\ (i \in DOMAIN server.sessions => calls[q].asked = ClientOf(i))
    BY <1>2 DEF Remembered
  <2>2. i <= server.created /\ i \in 1..server'.created
    BY <1>1, <2>1 DEF SameClients
  <2>3. QED BY <2>1, <2>2 DEF SameClients
<1>3. QED BY <1>2 DEF Remembered

LEMMA UntouchedSound ==
    ASSUME SessionsInv, SessionsInv', SameClients, NEW q, Sound(q), Untouched(q)
    PROVE  Sound(q)' /\ StaysSettled(q)
<1>1. Lived(q)' /\ Placed(q)' /\ StaysSettled(q)
  BY DEF Sound, Lived, Placed, Untouched, StaysSettled
<1>2. Posted(q)' => Remembered(q)'
  BY RememberedStays DEF Sound, Untouched
<1>3. QED BY <1>1, <1>2 DEF Sound

LEMMA OneQuestion ==
    ASSUME SessionsInv, SessionsInv', SameClients, QuestionsInv, PartsOK',
           NEW q, Sound(q)' /\ StaysSettled(q),
           \A r \in Calls \ {q} : Untouched(r)
    PROVE  QuestionsInv' /\ \A r \in Calls : StaysSettled(r)
<1>1. ASSUME NEW r \in Calls PROVE Sound(r)' /\ StaysSettled(r)
  <2>1. Sound(r)
    BY DEF QuestionsInv, Sound
  <2>2. QED BY <2>1, UntouchedSound
<1>2. QED BY <1>1 DEF QuestionsInv, Sound

LEMMA RangeOfIds ==
    ASSUME NEW W, \A id \in DOMAIN W : W[id] = id
    PROVE  Range(W) = DOMAIN W
BY DEF Range

(* Nothing that waits is lost to a step that leaves its waiter.            *)
LEMMA NothingDropped ==
    ASSUME NEW C, DOMAIN C = Calls, NEW W, \A id \in DOMAIN W : W[id] = id,
           \A q \in Calls : C[q].inner = "pending" => q \in DOMAIN W, NEW D
    PROVE  /\ DOMAIN Dropped(C, W, D) = Calls
           /\ \A q \in Calls : Dropped(C, W, D)[q] = C[q]
<1>1. Range(W) = DOMAIN W
  BY RangeOfIds
<1>2. QED BY <1>1 DEF Dropped

LEMMA WithoutFields ==
    ASSUME NEW f, NEW id
    PROVE  /\ DOMAIN Without(f, id) = DOMAIN f \ {id}
           /\ \A k \in DOMAIN f \ {id} : Without(f, id)[k] = f[k]
BY DEF Without, Restrict

LEMMA HavingIds ==
    ASSUME NEW f, \A id \in DOMAIN f : f[id] = id, NEW k
    PROVE  /\ DOMAIN Having(f, k, k) = DOMAIN f \cup {k}
           /\ \A id \in DOMAIN Having(f, k, k) : Having(f, k, k)[id] = id
BY DEF Having

(* The question x as y, settled.                                           *)
SettledAs(x, y, how, both) ==
    /\ DOMAIN y = CallFields
    /\ y.session = x.session /\ y.asked = x.asked /\ y.hands = x.hands /\ y.by = x.by
    /\ y.inner = how /\ y.future = IF both THEN how ELSE x.future

LEMMA SettleFields ==
    ASSUME NEW C, DOMAIN C = Calls, NEW q \in Calls, DOMAIN C[q] = CallFields, NEW how
    PROVE  /\ DOMAIN Settle(C, q, how) = Calls
           /\ \A r \in Calls \ {q} : Settle(C, q, how)[r] = C[r]
           /\ SettledAs(C[q], Settle(C, q, how)[q], how, q \in OnDispatcher)
BY DEF Settle, SettledAs, CallFields
-----------------------------------------------------------------------------
(* The dispatcher's half of sendRequest.                                   *)

(* What a session can be sent, its client gets.                            *)
LEMMA PlaceIsClient ==
    ASSUME SessionsInv, NEW i \in DOMAIN server.sessions,
           sendToSession(server.sessions[i]) # NoConn
    PROVE  sendToSession(server.sessions[i]) = ClientOf(i)
<1>1. \A n \in DOMAIN registry : registry[n] = streams[n]
  BY DEF SessionsInv, StreamsOK
<1>2. CASE server.sessions[i].stream # NoStream
  BY <1>1, <1>2 DEF sendToSession, RegistrySend, ClientOf
<1>3. CASE server.sessions[i].stream = NoStream
  BY <1>3 DEF sendToSession, ClientOf
<1>4. QED BY <1>2, <1>3

(* A question as it is when it could not be sent, and when it was.         *)
NotSentAs(q, x) ==
    /\ SettledAs(x, calls'[q], "error", q \in OnDispatcher)
    /\ DOMAIN waiters' = DOMAIN waiters /\ DOMAIN deadlines' = DOMAIN deadlines

SentAs(q, x) ==
    /\ DOMAIN calls'[q] = CallFields
    /\ calls'[q].session = x.session /\ calls'[q].asked = x.asked
    /\ calls'[q].inner = "pending" /\ calls'[q].future = x.future
    /\ x.session \in DOMAIN server.sessions
    /\ calls'[q].hands # NoConn /\ calls'[q].hands = ClientOf(x.session)
    /\ DOMAIN waiters' = DOMAIN waiters \cup {q}
    /\ DOMAIN deadlines' = DOMAIN deadlines \cup {q}

Ids ==
    /\ \A id \in DOMAIN waiters : waiters[id] = id
    /\ \A id \in DOMAIN deadlines : deadlines[id] = id

LEMMA SendOutcome ==
    ASSUME SessionsInv, QuestionsInv, NEW q \in Calls, calls[q].inner = "none",
           NEW C, DOMAIN C = Calls, \A r \in Calls \ {q} : C[r] = calls[r],
           Shaped(C[q]), C[q].inner = "none", sendRequest(q, C)
    PROVE  /\ DOMAIN calls' = Calls /\ Ids'
           /\ \A r \in Calls \ {q} : calls'[r] = calls[r]
           /\ NotSentAs(q, C[q]) \/ SentAs(q, C[q])
<1> DEFINE i == C[q].session
           S == Settle(C, q, "error")
           place == sendToSession(server.sessions[i])
           P == [C EXCEPT ![q].inner = "pending", ![q].hands = place]
<1>1. /\ Ids /\ q \notin DOMAIN waiters
      /\ \A r \in Calls : calls[r].inner = "pending" => r \in DOMAIN waiters
  BY DEF QuestionsInv, PartsOK, Lived, Ids
<1>2. /\ DOMAIN S = Calls
      /\ \A r \in Calls \ {q} : S[r] = C[r]
      /\ SettledAs(C[q], S[q], "error", q \in OnDispatcher)
  BY SettleFields DEF Shaped
<1>3. /\ DOMAIN P = Calls
      /\ \A r \in Calls \ {q} : P[r] = C[r]
      /\ DOMAIN P[q] = CallFields /\ P[q].inner = "pending" /\ P[q].hands = place
      /\ P[q].future = C[q].future /\ P[q].session = C[q].session /\ P[q].asked = C[q].asked
  BY DEF Shaped, CallFields
<1>4. \/ /\ i \notin DOMAIN server.sessions
         /\ calls' = S /\ UNCHANGED <<waiters, deadlines>>
      \/ NotSent(q, C)
      \/ /\ i \in DOMAIN server.sessions /\ place # NoConn
         /\ waiters' = Having(waiters, q, q) /\ deadlines' = Having(deadlines, q, q)
         /\ calls' = Dropped(P, waiters', deadlines')
  BY DEF sendRequest
<1>5. i \in DOMAIN server.sessions /\ place # NoConn => place = ClientOf(i)
  BY PlaceIsClient
<1> HIDE DEF S, P, place, i
<1>6. CASE i \notin DOMAIN server.sessions /\ calls' = S /\ UNCHANGED <<waiters, deadlines>>
  BY <1>1, <1>2, <1>6 DEF NotSentAs, Ids
<1>7. CASE NotSent(q, C)
  <2>1. waiters' = Without(waiters, q) /\ calls' = Dropped(S, waiters', deadlines)
        /\ deadlines' = deadlines
    BY <1>7 DEF NotSent, forget, S
  <2>2. DOMAIN waiters' = DOMAIN waiters /\ \A id \in DOMAIN waiters' : waiters'[id] = id
    <3>1. /\ DOMAIN Without(waiters, q) = DOMAIN waiters \ {q}
          /\ \A k \in DOMAIN waiters \ {q} : Without(waiters, q)[k] = waiters[k]
      BY ONLY WithoutFields
    <3>2. QED BY ONLY <1>1, <2>1, <3>1 DEF Ids
  <2>3. \A r \in Calls : S[r].inner = "pending" => r \in DOMAIN waiters'
    BY <1>1, <1>2, <2>2 DEF SettledAs
  <2>4. DOMAIN calls' = Calls /\ \A r \in Calls : calls'[r] = S[r]
    BY ONLY <1>2, <2>1, <2>2, <2>3, NothingDropped
  <2>5. QED BY <1>1, <1>2, <2>1, <2>2, <2>4 DEF NotSentAs, Ids
<1>8. CASE /\ i \in DOMAIN server.sessions /\ place # NoConn
           /\ waiters' = Having(waiters, q, q) /\ deadlines' = Having(deadlines, q, q)
           /\ calls' = Dropped(P, waiters', deadlines')
  <2>1. /\ DOMAIN waiters' = DOMAIN waiters \cup {q}
        /\ DOMAIN deadlines' = DOMAIN deadlines \cup {q}
        /\ \A id \in DOMAIN waiters' : waiters'[id] = id
        /\ \A id \in DOMAIN deadlines' : deadlines'[id] = id
    <3>1. waiters' = Having(waiters, q, q) /\ deadlines' = Having(deadlines, q, q)
      BY <1>8
    <3>2. Ids
      BY <1>1
    <3>3. QED BY ONLY <3>1, <3>2, HavingIds DEF Ids
  <2>2. \A r \in Calls : P[r].inner = "pending" => r \in DOMAIN waiters'
    BY <1>1, <1>3, <2>1
  <2>3. DOMAIN calls' = Calls /\ \A r \in Calls : calls'[r] = P[r]
    BY ONLY <1>3, <1>8, <2>1, <2>2, NothingDropped
  <2>4. SentAs(q, C[q])
    BY <1>3, <1>5, <1>8, <2>1, <2>3 DEF SentAs, i
  <2>5. QED BY <1>3, <2>1, <2>3, <2>4 DEF Ids
<1>9. QED BY <1>4, <1>6, <1>7, <1>8
(* The tasks of the other questions are as they were, and q has none.      *)
NoTaskOf(q) ==
    /\ posted' \in Seq(Task) /\ Once(posted')
    /\ ~Posted(q)' /\ ~Erasing(q)'
    /\ \A r \in Calls \ {q} : Posted(r)' = Posted(r) /\ Erasing(r)' = Erasing(r)

LEMMA SendSound ==
    ASSUME SessionsInv, SessionsInv', SameClients, QuestionsInv,
           NEW q \in Calls, calls[q].inner = "none", calls[q].future \notin Settled,
           NEW C, DOMAIN C = Calls, \A r \in Calls \ {q} : C[r] = calls[r],
           Shaped(C[q]), C[q].inner = "none", C[q].future = "pending",
           C[q].hands # NoConn => C[q].hands = C[q].asked,
           C[q].session \in DOMAIN server.sessions => C[q].asked = ClientOf(C[q].session),
           sendRequest(q, C), NoTaskOf(q), alive' = alive
    PROVE  QuestionsInv' /\ \A r \in Calls : StaysSettled(r)
<1>1. /\ DOMAIN calls' = Calls /\ Ids'
      /\ \A r \in Calls \ {q} : calls'[r] = calls[r]
      /\ NotSentAs(q, C[q]) \/ SentAs(q, C[q])
  BY SendOutcome
<1>2. /\ PartsOK /\ Lived(q)
      /\ q \notin DOMAIN waiters /\ q \notin DOMAIN deadlines
  BY DEF QuestionsInv, Lived, NoTaskOf, Settled
<1>3. /\ DOMAIN waiters' \subseteq DOMAIN waiters \cup {q}
      /\ DOMAIN deadlines' \subseteq DOMAIN deadlines \cup {q}
      /\ \A r \in Calls \ {q} : /\ r \in DOMAIN waiters' <=> r \in DOMAIN waiters
                                /\ r \in DOMAIN deadlines' <=> r \in DOMAIN deadlines
  BY <1>1 DEF NotSentAs, SentAs
<1>4. Shaped(calls'[q])
  BY <1>1 DEF NotSentAs, SentAs, SettledAs, Shaped, Futures
<1>5. PartsOK'
  <2>1. \A r \in Calls : Shaped(calls'[r])
    BY <1>1, <1>2, <1>4 DEF PartsOK
  <2>2. QED BY <1>1, <1>2, <1>3, <2>1 DEF PartsOK, Ids, NoTaskOf
<1>6. \A r \in Calls \ {q} : Untouched(r)
  BY <1>1, <1>3 DEF Untouched, NoTaskOf
<1>7. Sound(q)' /\ StaysSettled(q)
  <2>1. CASE NotSentAs(q, C[q])
    BY <1>2, <2>1 DEF NotSentAs, SettledAs, Sound, Lived, Placed, StaysSettled, NoTaskOf, Settled,
                      Futures
  <2>2. CASE SentAs(q, C[q])
    BY <1>2, <2>2 DEF SentAs, Sound, Lived, Placed, StaysSettled, NoTaskOf, Settled
  <2>3. QED BY <1>1, <2>1, <2>2
<1>8. QED BY <1>5, <1>6, <1>7, OneQuestion

LEMMA AskSound ==
    ASSUME SessionsInv, SessionsInv', SameClients, QuestionsInv, NEW q \in Calls, Ask(q)
    PROVE  QuestionsInv' /\ \A r \in Calls : StaysSettled(r)
<1>1. PICK i \in 1..server.created :
         LET C == [calls EXCEPT ![q].session = i, ![q].future = "pending",
                                ![q].asked = ClientOf(i)]
         IN IF q \in OnDispatcher
            THEN sendRequest(q, C) /\ UNCHANGED posted
            ELSE /\ calls' = C
                 /\ posted' = Append(posted, BeginTask(q))
                 /\ UNCHANGED <<server, waiters, deadlines>>
  BY DEF Ask
<1> DEFINE C == [calls EXCEPT ![q].session = i, ![q].future = "pending",
                              ![q].asked = ClientOf(i)]
<1>2. /\ PartsOK /\ Shaped(calls[q]) /\ Sound(q) /\ calls[q].future = "unasked" /\ alive' = alive
  BY DEF QuestionsInv, Sound, PartsOK, Ask
<1>3. /\ calls[q].inner = "none" /\ calls[q].hands = NoConn
      /\ q \notin DOMAIN waiters /\ q \notin DOMAIN deadlines /\ ~Posted(q) /\ ~Erasing(q)
  BY <1>2 DEF Sound, Lived, Settled
<1>4. /\ DOMAIN C = Calls /\ \A r \in Calls \ {q} : C[r] = calls[r]
      /\ DOMAIN C[q] = CallFields /\ C[q].session = i /\ C[q].asked = ClientOf(i)
      /\ C[q].future = "pending" /\ C[q].inner = "none" /\ C[q].hands = NoConn
  BY <1>2, <1>3 DEF PartsOK, Shaped, CallFields
<1>5. Shaped(C[q])
  BY <1>4 DEF Shaped, Futures
<1>6. CASE q \in OnDispatcher
  <2>1. sendRequest(q, C) /\ posted' = posted
    BY <1>1, <1>6
  <2> HIDE DEF C
  <2>2. NoTaskOf(q)
    BY <1>2, <1>3, <2>1 DEF NoTaskOf, PartsOK, Posted, Erasing
  <2>3. calls[q].future \notin Settled
    BY <1>2 DEF Settled
  <2>4. QED BY <1>2, <1>3, <1>4, <1>5, <2>1, <2>2, <2>3, SendSound
<1>7. CASE q \notin OnDispatcher
  <2>1. calls' = C /\ posted' = Append(posted, BeginTask(q)) /\ UNCHANGED <<server, waiters, deadlines>>
    BY <1>1, <1>7
  <2> HIDE DEF C
  <2>2. /\ posted' \in Seq(Task) /\ Once(posted')
        /\ Range(posted') = Range(posted) \cup {BeginTask(q)}
    <3>1. BeginTask(q) \in Task
      BY Tasks
    <3>2. QED BY <1>2, <1>3, <2>1, <3>1, TaskAdded DEF PartsOK, Posted
  <2>3. \A r \in Calls \ {q} : (Posted(r)' <=> Posted(r)) /\ (Erasing(r)' <=> Erasing(r))
    BY <2>2, Tasks DEF Posted, Erasing
  <2>4. ~Erasing(q)'
    BY <1>3, <2>2, Tasks DEF Erasing
  <2>5. PartsOK'
    <3>1. \A r \in Calls : Shaped(calls'[r])
      BY <1>2, <1>4, <1>5, <2>1 DEF PartsOK
    <3>2. QED BY <1>2, <1>4, <2>1, <2>2, <3>1 DEF PartsOK
  <2>6. \A r \in Calls \ {q} : Untouched(r)
    BY <1>2, <1>4, <2>1, <2>3 DEF Untouched
  <2>7. Remembered(q)'
    <3>1. /\ calls'[q].session = i /\ calls'[q].asked = ClientOf(i)
          /\ server' = server /\ streams' = streams
      BY <1>4, <2>1 DEF Ask
    <3>2. ClientOf(i)' = ClientOf(i)
      BY <3>1 DEF ClientOf
    <3>3. \A k : k = i => ClientOf(k)' = ClientOf(i)
      BY <3>2
    <3>4. QED BY <3>1, <3>3 DEF Remembered
  <2>8. Lived(q)' /\ Placed(q)' /\ StaysSettled(q)
    BY <1>2, <1>3, <1>4, <1>7, <2>1, <2>4 DEF Lived, Placed, StaysSettled, Settled
  <2>9. QED BY <2>5, <2>6, <2>7, <2>8, OneQuestion DEF Sound
<1>8. QED BY <1>6, <1>7
-----------------------------------------------------------------------------
(* One lemma for each of the other steps.                                  *)

(* A step that leaves every question alone.                                *)
LEMMA NobodySound ==
    ASSUME SessionsInv, SessionsInv', SameClients, QuestionsInv, PartsOK',
           \A r \in Calls : Untouched(r)
    PROVE  QuestionsInv' /\ \A r \in Calls : StaysSettled(r)
<1>1. ASSUME NEW r \in Calls PROVE Sound(r)' /\ StaysSettled(r)
  <2>1. Sound(r)
    BY DEF QuestionsInv, Sound
  <2>2. QED BY <2>1, UntouchedSound
<1>2. QED BY <1>1 DEF QuestionsInv, Sound

LEMMA BeginSound ==
    ASSUME SessionsInv, SessionsInv', SameClients, QuestionsInv, RunTask,
           NEW q \in Calls, Head(posted) = BeginTask(q)
    PROVE  QuestionsInv' /\ \A r \in Calls : StaysSettled(r)
<1>1. /\ PartsOK /\ Shaped(calls[q]) /\ Sound(q) /\ alive' = alive
      /\ posted # <<>> /\ posted' = Tail(posted)
  BY DEF QuestionsInv, Sound, PartsOK, RunTask
<1>2. Head(posted).task = "begin" /\ Head(posted).call = q
  BY DEF BeginTask
<1>3. Begin(q)
  BY <1>2 DEF RunTask
<1>4. /\ posted' \in Seq(Task) /\ Once(posted') /\ BeginTask(q) \notin Range(posted')
      /\ Range(posted) = Range(posted') \cup {BeginTask(q)}
  BY <1>1, <1>2, TaskTaken DEF PartsOK
<1>5. Posted(q)
  BY <1>4 DEF Posted
<1>6. /\ calls[q].inner = "none" /\ q \notin OnDispatcher /\ calls[q].future # "unasked"
      /\ Remembered(q) /\ ~Erasing(q)
      /\ calls[q].hands # NoConn => calls[q].hands = calls[q].asked
  BY <1>1, <1>5 DEF Sound, Lived, Placed, Settled
<1>7. \A r \in Calls \ {q} : (Posted(r)' <=> Posted(r)) /\ (Erasing(r)' <=> Erasing(r))
  BY <1>4, Tasks DEF Posted, Erasing
<1>8. ~Posted(q)' /\ ~Erasing(q)'
  BY <1>4, <1>6 DEF Posted, Erasing
<1>9. CASE calls[q].future = "pending"
  <2>1. sendRequest(q, calls)
    BY <1>3, <1>9 DEF Begin
  <2>2. NoTaskOf(q)
    BY <1>4, <1>7, <1>8 DEF NoTaskOf, Posted, Erasing
  <2>3. calls[q].future \notin Settled
    BY <1>9 DEF Settled
  <2>4. DOMAIN calls = Calls
    BY <1>1 DEF PartsOK
  <2>5. calls[q].session \in DOMAIN server.sessions => calls[q].asked = ClientOf(calls[q].session)
    BY <1>6 DEF Remembered
  <2>6. QED BY <1>1, <1>6, <1>9, <2>1, <2>2, <2>3, <2>4, <2>5, SendSound
<1>10. CASE calls[q].future # "pending"
  <2>1. UNCHANGED <<calls, waiters, deadlines>>
    BY <1>3, <1>10 DEF Begin
  <2>2. PartsOK'
    BY <1>1, <1>4, <2>1 DEF PartsOK
  <2>3. \A r \in Calls : Untouched(r)
    BY <1>1, <1>6, <1>7, <1>8, <2>1 DEF Untouched
  <2>4. QED BY <2>2, <2>3, NobodySound
<1>11. QED BY <1>9, <1>10

LEMMA EraseSound ==
    ASSUME SessionsInv, SessionsInv', SameClients, QuestionsInv, RunTask,
           NEW q \in Calls, Head(posted) = EraseTask(q)
    PROVE  QuestionsInv' /\ \A r \in Calls : StaysSettled(r)
<1>1. /\ PartsOK /\ Sound(q) /\ alive' = alive
      /\ posted # <<>> /\ posted' = Tail(posted)
      /\ \A r \in Calls : calls[r].inner = "pending" => r \in DOMAIN waiters
  BY DEF QuestionsInv, Sound, Lived, RunTask
<1>2. Head(posted).task = "erase" /\ Head(posted).call = q
  BY DEF EraseTask
<1>3. /\ deadlines' = Without(deadlines, q)
      /\ calls' = Dropped(calls, waiters, deadlines')
      /\ waiters' = waiters
  BY <1>2 DEF RunTask, Erase
<1>4. /\ posted' \in Seq(Task) /\ Once(posted')
      /\ Range(posted) = Range(posted') \cup {EraseTask(q)}
  BY <1>1, TaskTaken DEF PartsOK
<1>5. \A r \in Calls \ {q} : (Posted(r)' <=> Posted(r)) /\ (Erasing(r)' <=> Erasing(r))
  BY <1>4, Tasks DEF Posted, Erasing
<1>6. Erasing(q) /\ (Posted(q)' => Posted(q)) /\ (Erasing(q)' => Erasing(q))
  BY <1>4 DEF Posted, Erasing
<1>7. /\ DOMAIN deadlines' = DOMAIN deadlines \ {q}
      /\ \A id \in DOMAIN deadlines' : deadlines'[id] = id
  <2>1. /\ DOMAIN Without(deadlines, q) = DOMAIN deadlines \ {q}
        /\ \A k \in DOMAIN deadlines \ {q} : Without(deadlines, q)[k] = deadlines[k]
    BY ONLY WithoutFields
  <2>2. QED BY <1>1, <1>3, <2>1 DEF PartsOK
<1>8. DOMAIN calls' = Calls /\ \A r \in Calls : calls'[r] = calls[r]
  <2>1. DOMAIN calls = Calls /\ \A id \in DOMAIN waiters : waiters[id] = id
    BY <1>1 DEF PartsOK
  <2>2. QED BY ONLY <1>1, <1>3, <2>1, NothingDropped
<1>9. PartsOK'
  BY <1>1, <1>3, <1>4, <1>7, <1>8 DEF PartsOK
<1>10. \A r \in Calls \ {q} : Untouched(r)
  BY <1>1, <1>3, <1>5, <1>7, <1>8 DEF Untouched
<1>11. Sound(q)' /\ StaysSettled(q)
  <2>1. Posted(q)' => Remembered(q)'
    BY <1>1, <1>6, <1>8, RememberedStays DEF Sound
  <2>2. QED BY <1>1, <1>3, <1>6, <1>7, <1>8, <2>1 DEF Sound, Lived, Placed, StaysSettled, Settled
<1>12. QED BY <1>9, <1>10, <1>11, OneQuestion

LEMMA RunTaskSound ==
    ASSUME SessionsInv, SessionsInv', SameClients, QuestionsInv, RunTask
    PROVE  QuestionsInv' /\ \A r \in Calls : StaysSettled(r)
<1>1. Head(posted) \in Task
  BY TaskTaken DEF QuestionsInv, PartsOK, RunTask
<1>2. \E q \in Calls : Head(posted) = BeginTask(q) \/ Head(posted) = EraseTask(q)
  BY <1>1 DEF Task, BeginTask, EraseTask
<1>3. QED BY <1>2, BeginSound, EraseSound

(* An answer: the waiter and the timer go with it.                         *)
LEMMA onResponseSound ==
    ASSUME SessionsInv, SessionsInv', SameClients, QuestionsInv,
           NEW q \in Calls, NEW c, onResponse(c, q)
    PROVE  QuestionsInv' /\ \A r \in Calls : StaysSettled(r)
<1>1. /\ PartsOK /\ Shaped(calls[q]) /\ Sound(q) /\ UNCHANGED <<posted, alive>>
      /\ \A r \in Calls : calls[r].inner = "pending" => r \in DOMAIN waiters
  BY DEF QuestionsInv, Sound, Lived, onResponse, PartsOK
<1>2. deliver(q, Answerer(c))
  BY DEF onResponse
<1>3. CASE q \notin DOMAIN waiters
  <2>1. UNCHANGED <<calls, waiters, deadlines>>
    BY <1>2, <1>3 DEF deliver
  <2>2. PartsOK'
    BY <1>1, <2>1 DEF PartsOK
  <2>3. \A r \in Calls : Untouched(r)
    BY <1>1, <2>1 DEF Untouched, Posted, Erasing
  <2>4. QED BY <2>2, <2>3, NobodySound
<1>4. CASE q \in DOMAIN waiters
  <2> DEFINE B == [calls EXCEPT ![q].by = Answerer(c)]
             A == Settle(B, q, "answered")
  <2>1. /\ waiters' = Without(waiters, q) /\ deadlines' = Without(deadlines, q)
        /\ calls' = Dropped(A, waiters', deadlines')
    <3>1. waiters[q] = q
      BY <1>1, <1>4 DEF PartsOK
    <3>2. QED BY <1>2, <1>4, <3>1 DEF deliver
  <2>2. /\ DOMAIN B = Calls /\ \A r \in Calls \ {q} : B[r] = calls[r]
        /\ DOMAIN B[q] = CallFields /\ B[q].hands = calls[q].hands
        /\ B[q].asked = calls[q].asked /\ B[q].future = calls[q].future
    BY <1>1 DEF PartsOK, Shaped, CallFields
  <2> HIDE DEF B
  <2>3. /\ DOMAIN A = Calls /\ \A r \in Calls \ {q} : A[r] = B[r]
        /\ SettledAs(B[q], A[q], "answered", q \in OnDispatcher)
    BY <2>2, SettleFields
  <2> HIDE DEF A
  <2>4. /\ DOMAIN waiters' = DOMAIN waiters \ {q} /\ DOMAIN deadlines' = DOMAIN deadlines \ {q}
        /\ \A id \in DOMAIN waiters' : waiters'[id] = id
        /\ \A id \in DOMAIN deadlines' : deadlines'[id] = id
    <3>1. /\ DOMAIN Without(waiters, q) = DOMAIN waiters \ {q}
          /\ \A k \in DOMAIN waiters \ {q} : Without(waiters, q)[k] = waiters[k]
      BY ONLY WithoutFields
    <3>2. /\ DOMAIN Without(deadlines, q) = DOMAIN deadlines \ {q}
          /\ \A k \in DOMAIN deadlines \ {q} : Without(deadlines, q)[k] = deadlines[k]
      BY ONLY WithoutFields
    <3>3. Ids
      BY <1>1 DEF PartsOK, Ids
    <3>4. QED BY ONLY <2>1, <3>1, <3>2, <3>3 DEF Ids
  <2>5. \A r \in Calls : A[r].inner = "pending" => r \in DOMAIN waiters'
    BY <1>1, <2>2, <2>3, <2>4 DEF SettledAs
  <2>6. DOMAIN calls' = Calls /\ \A r \in Calls : calls'[r] = A[r]
    BY ONLY <2>1, <2>3, <2>4, <2>5, NothingDropped
  <2>7. calls[q].inner = "pending"
    BY <1>1, <1>4 DEF Sound, Lived
  <2>8. Shaped(calls'[q])
    BY <1>1, <2>2, <2>3, <2>6 DEF SettledAs, Shaped, Futures
  <2>9. PartsOK'
    <3>1. \A r \in Calls : Shaped(calls'[r])
      BY <1>1, <2>2, <2>3, <2>6, <2>8 DEF PartsOK
    <3>2. QED BY <1>1, <2>4, <2>6, <3>1 DEF PartsOK
  <2>10. \A r \in Calls \ {q} : Untouched(r)
    BY <1>1, <2>2, <2>3, <2>4, <2>6 DEF Untouched, Posted, Erasing
  <2>11. ~Posted(q)' /\ ~Erasing(q)'
    BY <1>1, <2>7 DEF Sound, Lived, Posted, Erasing, Settled
  <2>12. Lived(q)' /\ Placed(q)' /\ StaysSettled(q)
    BY <1>1, <2>2, <2>3, <2>4, <2>6, <2>7, <2>11
       DEF SettledAs, Sound, Lived, Placed, StaysSettled, Settled
  <2>13. QED BY <2>9, <2>10, <2>11, <2>12, OneQuestion DEF Sound
<1>5. QED BY <1>3, <1>4
(* The deadline: the waiter goes, the timer waits for its erasure.         *)
LEMMA TimerSound ==
    ASSUME SessionsInv, SessionsInv', SameClients, QuestionsInv,
           NEW q \in Calls, TimerFires(q)
    PROVE  QuestionsInv' /\ \A r \in Calls : StaysSettled(r)
<1> DEFINE C == [calls EXCEPT ![q].fired = TRUE]
<1>1. /\ PartsOK /\ Shaped(calls[q]) /\ Sound(q) /\ UNCHANGED <<deadlines, alive>>
      /\ q \in DOMAIN deadlines
      /\ \A r \in Calls : calls[r].inner = "pending" => r \in DOMAIN waiters
  BY DEF QuestionsInv, Sound, Lived, TimerFires, PartsOK
<1>2. IF q \in DOMAIN waiters
      THEN /\ waiters' = Without(waiters, q)
           /\ calls' = Dropped(Settle(C, q, "timeout"), waiters', deadlines)
           /\ posted' = Append(posted, EraseTask(q))
      ELSE calls' = C /\ UNCHANGED <<waiters, posted>>
  BY DEF TimerFires, forget
<1>3. /\ DOMAIN C = Calls /\ \A r \in Calls \ {q} : C[r] = calls[r]
      /\ DOMAIN C[q] = CallFields /\ C[q].session = calls[q].session
      /\ C[q].asked = calls[q].asked /\ C[q].hands = calls[q].hands /\ C[q].by = calls[q].by
      /\ C[q].inner = calls[q].inner /\ C[q].future = calls[q].future
  BY <1>1 DEF PartsOK, Shaped, CallFields
<1> HIDE DEF C
<1>4. CASE q \notin DOMAIN waiters
  <2>1. calls' = C /\ UNCHANGED <<waiters, posted>>
    BY <1>2, <1>4
  <2>2. Shaped(calls'[q])
    BY <1>1, <1>3, <2>1 DEF Shaped
  <2>3. PartsOK'
    <3>1. \A r \in Calls : Shaped(calls'[r])
      BY <1>1, <1>3, <2>1, <2>2 DEF PartsOK
    <3>2. QED BY <1>1, <1>3, <2>1, <3>1 DEF PartsOK
  <2>4. \A r \in Calls \ {q} : Untouched(r)
    BY <1>1, <1>3, <2>1 DEF Untouched, Posted, Erasing
  <2>5. Posted(q)' = Posted(q) /\ Erasing(q)' = Erasing(q)
    BY <2>1 DEF Posted, Erasing
  <2>6. Posted(q)' => Remembered(q)'
    BY <1>1, <1>3, <2>1, <2>5, RememberedStays DEF Sound
  <2>7. Lived(q)' /\ Placed(q)' /\ StaysSettled(q)
    BY <1>1, <1>3, <2>1, <2>5 DEF Sound, Lived, Placed, StaysSettled
  <2>8. QED BY <2>3, <2>4, <2>6, <2>7, OneQuestion DEF Sound
<1>5. CASE q \in DOMAIN waiters
  <2> DEFINE A == Settle(C, q, "timeout")
  <2>1. /\ waiters' = Without(waiters, q) /\ calls' = Dropped(A, waiters', deadlines)
        /\ posted' = Append(posted, EraseTask(q))
    BY <1>2, <1>5
  <2>2. /\ DOMAIN A = Calls /\ \A r \in Calls \ {q} : A[r] = C[r]
        /\ SettledAs(C[q], A[q], "timeout", q \in OnDispatcher)
    BY <1>3, SettleFields
  <2> HIDE DEF A
  <2>3. DOMAIN waiters' = DOMAIN waiters \ {q} /\ \A id \in DOMAIN waiters' : waiters'[id] = id
    <3>1. /\ DOMAIN Without(waiters, q) = DOMAIN waiters \ {q}
          /\ \A k \in DOMAIN waiters \ {q} : Without(waiters, q)[k] = waiters[k]
      BY ONLY WithoutFields
    <3>2. \A id \in DOMAIN waiters : waiters[id] = id
      BY <1>1 DEF PartsOK
    <3>3. QED BY ONLY <2>1, <3>1, <3>2
  <2>4. \A r \in Calls : A[r].inner = "pending" => r \in DOMAIN waiters'
    BY <1>1, <1>3, <2>2, <2>3 DEF SettledAs
  <2>5. DOMAIN calls' = Calls /\ \A r \in Calls : calls'[r] = A[r]
    BY ONLY <2>1, <2>2, <2>3, <2>4, NothingDropped
  <2>6. calls[q].inner = "pending" /\ ~Posted(q)
    BY <1>1, <1>5 DEF Sound, Lived
  <2>7. /\ posted' \in Seq(Task) /\ Once(posted')
        /\ Range(posted') = Range(posted) \cup {EraseTask(q)}
    <3>1. EraseTask(q) \in Task /\ EraseTask(q).task # "begin"
      BY Tasks
    <3>2. QED BY <1>1, <2>1, <3>1, TaskAdded DEF PartsOK
  <2>8. \A r \in Calls \ {q} : (Posted(r)' <=> Posted(r)) /\ (Erasing(r)' <=> Erasing(r))
    BY <2>7, Tasks DEF Posted, Erasing
  <2>9. ~Posted(q)' /\ Erasing(q)'
    BY <2>6, <2>7, Tasks DEF Posted, Erasing
  <2>10. Shaped(calls'[q])
    BY <1>1, <1>3, <2>2, <2>5 DEF SettledAs, Shaped, Futures
  <2>11. PartsOK'
    <3>1. \A r \in Calls : Shaped(calls'[r])
      BY <1>1, <1>3, <2>2, <2>5, <2>10 DEF PartsOK
    <3>2. QED BY <1>1, <2>3, <2>5, <2>7, <3>1 DEF PartsOK
  <2>12. \A r \in Calls \ {q} : Untouched(r)
    BY <1>1, <1>3, <2>2, <2>3, <2>5, <2>8 DEF Untouched
  <2>13. Lived(q)' /\ Placed(q)' /\ StaysSettled(q)
    BY <1>1, <1>3, <2>2, <2>3, <2>5, <2>6, <2>9
       DEF SettledAs, Sound, Lived, Placed, StaysSettled, Settled, Futures
  <2>14. QED BY <2>9, <2>11, <2>12, <2>13, OneQuestion DEF Sound
<1>6. QED BY <1>4, <1>5

(* What the caller's own threads do: they settle what it waits for alone.  *)
LEMMA CallerSound ==
    ASSUME SessionsInv, SessionsInv', SameClients, QuestionsInv,
           NEW q \in Calls, TimeIsUp(q) \/ HandedOver(q)
    PROVE  QuestionsInv' /\ \A r \in Calls : StaysSettled(r)
<1>1. /\ PartsOK /\ Shaped(calls[q]) /\ Sound(q)
      /\ UNCHANGED <<waiters, deadlines, posted, alive>>
      /\ q \notin OnDispatcher /\ calls[q].future = "pending"
  BY DEF QuestionsInv, Sound, TimeIsUp, HandedOver, PartsOK
<1>2. PICK f \in Futures \ {"unasked"} : calls' = [calls EXCEPT ![q].future = f]
  <2>1. CASE TimeIsUp(q)
    BY <2>1 DEF TimeIsUp, Futures
  <2>2. CASE HandedOver(q)
    <3>1. (IF calls[q].inner = "broken" THEN "error" ELSE calls[q].inner) \in Futures \ {"unasked"}
      BY <2>2 DEF HandedOver, Settled, Futures
    <3>2. QED BY <2>2, <3>1 DEF HandedOver
  <2>3. QED BY <2>1, <2>2
<1>3. /\ DOMAIN calls' = Calls /\ \A r \in Calls \ {q} : calls'[r] = calls[r]
      /\ DOMAIN calls'[q] = CallFields /\ calls'[q].session = calls[q].session
      /\ calls'[q].asked = calls[q].asked /\ calls'[q].hands = calls[q].hands
      /\ calls'[q].by = calls[q].by /\ calls'[q].inner = calls[q].inner /\ calls'[q].future = f
  BY <1>1, <1>2 DEF PartsOK, Shaped, CallFields
<1>4. PartsOK'
  <2>1. \A r \in Calls : Shaped(calls'[r])
    BY <1>1, <1>3 DEF PartsOK, Shaped
  <2>2. QED BY <1>1, <1>3, <2>1 DEF PartsOK
<1>5. \A r \in Calls \ {q} : Untouched(r)
  BY <1>1, <1>3 DEF Untouched, Posted, Erasing
<1>6. Posted(q)' = Posted(q) /\ Erasing(q)' = Erasing(q)
  BY <1>1 DEF Posted, Erasing
<1>7. Posted(q)' => Remembered(q)'
  BY <1>1, <1>3, <1>6, RememberedStays DEF Sound
<1>8. Lived(q)' /\ Placed(q)' /\ StaysSettled(q)
  BY <1>1, <1>3, <1>6 DEF Sound, Lived, Placed, StaysSettled, Settled
<1>9. QED BY <1>4, <1>5, <1>7, <1>8, OneQuestion DEF Sound

(* The server's end: every promise it held is broken, once.                *)
LEMMA DestroySound ==
    ASSUME SessionsInv, SessionsInv', SameClients, QuestionsInv, Destroy
    PROVE  QuestionsInv' /\ \A r \in Calls : StaysSettled(r)
<1> DEFINE C == [q \in Calls |-> [calls[q] EXCEPT !.future = Unbegun(q)]]
           lost == {q \in Calls : C[q].inner = "pending"}
<1>1. /\ PartsOK /\ alive' = FALSE
      /\ posted' = <<>> /\ waiters' = <<>> /\ deadlines' = <<>>
      /\ calls' = Dropped(C, <<>>, <<>>)
  BY DEF QuestionsInv, Destroy
<1>2. /\ DOMAIN calls' = Calls
      /\ \A q \in Calls : calls'[q] = IF q \in lost THEN Settle(C, q, "broken")[q] ELSE C[q]
  <2>1. Range(<<>>) = {}
    BY DEF Range
  <2>2. QED BY <1>1, <2>1 DEF Dropped
<1>3. DOMAIN C = Calls
  OBVIOUS
<1>4. posted' \in Seq(Task) /\ Once(posted') /\ Range(posted') = {}
  BY <1>1 DEF Once, Range
<1>5. ASSUME NEW q \in Calls PROVE Shaped(calls'[q]) /\ Sound(q)' /\ StaysSettled(q)
  <2> DEFINE x == calls[q]
             f == Unbegun(q)
  <2>1. Shaped(x) /\ Sound(q)
    BY <1>1 DEF PartsOK, QuestionsInv, Sound
  <2>2. /\ DOMAIN C[q] = CallFields /\ C[q].session = x.session /\ C[q].asked = x.asked
        /\ C[q].hands = x.hands /\ C[q].by = x.by /\ C[q].inner = x.inner /\ C[q].future = f
    BY <2>1 DEF Shaped, CallFields
  <2>3. /\ f \in Futures
        /\ f = x.future \/ (f = "error" /\ x.future = "pending" /\ Posted(q))
    BY <2>1 DEF Unbegun, Posted, Shaped, Futures
  <2>4. SettledAs(C[q], Settle(C, q, "broken")[q], "broken", q \in OnDispatcher)
    BY <1>3, <2>2, SettleFields
  <2> HIDE DEF C, f
  <2>5. ~Posted(q)' /\ ~Erasing(q)' /\ q \notin DOMAIN waiters' /\ q \notin DOMAIN deadlines'
    BY <1>1, <1>4 DEF Posted, Erasing
  <2>6. CASE q \in lost
    <3>1. SettledAs(C[q], calls'[q], "broken", q \in OnDispatcher) /\ x.inner = "pending"
      BY <1>2, <2>2, <2>4, <2>6
    <3>2. Shaped(calls'[q])
      BY <2>2, <2>3, <3>1 DEF SettledAs, Shaped, Futures
    <3>3. f = x.future
      BY <2>1, <2>3, <3>1 DEF Sound, Lived
    <3>4. Lived(q)' /\ Placed(q)' /\ StaysSettled(q)
      BY <1>1, <2>1, <2>2, <2>5, <3>1, <3>3
         DEF SettledAs, Sound, Lived, Placed, StaysSettled, Settled
    <3>5. QED BY <2>5, <3>2, <3>4 DEF Sound
  <2>7. CASE q \notin lost
    <3>1. calls'[q] = C[q] /\ x.inner # "pending"
      BY <1>2, <2>2, <2>7
    <3>2. Shaped(calls'[q])
      BY <2>1, <2>2, <2>3, <3>1 DEF Shaped
    <3>3. Lived(q)' /\ Placed(q)' /\ StaysSettled(q)
      BY <1>1, <2>1, <2>2, <2>3, <2>5, <3>1 DEF Sound, Lived, Placed, StaysSettled, Settled
    <3>4. QED BY <2>5, <3>2, <3>3 DEF Sound
  <2>8. QED BY <2>6, <2>7
<1>6. PartsOK'
  BY <1>1, <1>2, <1>4, <1>5 DEF PartsOK
<1>7. QED BY <1>5, <1>6 DEF QuestionsInv, Sound

LEMMA QuestionsUnchanged ==
    ASSUME SessionsInv, SessionsInv', SameClients, QuestionsInv, UNCHANGED qvars
    PROVE  QuestionsInv' /\ \A r \in Calls : StaysSettled(r)
<1>1. UNCHANGED <<calls, waiters, deadlines, posted, alive>>
  BY DEF qvars
<1>2. PartsOK'
  BY <1>1 DEF QuestionsInv, PartsOK
<1>3. \A r \in Calls : Untouched(r)
  BY <1>1 DEF Untouched, Posted, Erasing
<1>4. QED BY <1>2, <1>3, NobodySound

LEMMA QuestionsStep ==
    ASSUME SessionsInv, QuestionsInv, [QNext]_allvars
    PROVE  SessionsInv' /\ QuestionsInv' /\ \A r \in Calls : StaysSettled(r)
<1>1. SessionsInv' /\ SameClients
  BY StepInv, StepOlder
<1>2. CASE alive /\ Next /\ UNCHANGED qvars
  BY <1>1, <1>2, QuestionsUnchanged
<1>3. CASE RunTask
  BY <1>1, <1>3, RunTaskSound
<1>4. ASSUME NEW q \in Calls, Ask(q) \/ TimerFires(q) \/ TimeIsUp(q) \/ HandedOver(q)
      PROVE  QuestionsInv' /\ \A r \in Calls : StaysSettled(r)
  BY <1>1, <1>4, AskSound, TimerSound, CallerSound
<1>5. ASSUME NEW q \in Calls, NEW c \in Conns, onResponse(c, q)
      PROVE  QuestionsInv' /\ \A r \in Calls : StaysSettled(r)
  BY <1>1, <1>5, onResponseSound
<1>6. CASE Destroy
  BY <1>1, <1>6, DestroySound
<1>7. CASE UNCHANGED allvars
  BY <1>1, <1>7, QuestionsUnchanged DEF allvars
<1>8. QED BY <1>1, <1>2, <1>3, <1>4, <1>5, <1>6, <1>7 DEF QNext

LEMMA QuestionsInit == ASSUME QInit PROVE QuestionsInv
<1>1. /\ posted = <<>> /\ waiters = <<>> /\ deadlines = <<>>
      /\ DOMAIN calls = Calls
      /\ \A q \in Calls : /\ DOMAIN calls[q] = CallFields /\ calls[q].hands = NoConn
                          /\ calls[q].inner = "none"
                          /\ calls[q].future \in {"none", "unasked"}
  BY DEF QInit, CallFields
<1>2. posted \in Seq(Task) /\ Once(posted) /\ Range(posted) = {}
  BY <1>1 DEF Once, Range
<1>3. PartsOK
  BY <1>1, <1>2 DEF PartsOK, Shaped, Futures
<1>4. \A q \in Calls : Lived(q) /\ Placed(q) /\ ~Posted(q)
  BY <1>1, <1>2 DEF Lived, Placed, Posted, Erasing
<1>5. QED BY <1>3, <1>4 DEF QuestionsInv

(* For any sessions, connections and questions: who waits, under which id  *)
(* and with which timer agrees with what became of each question, whoever  *)
(* sends a response; a question is sent to the client it was asked of and  *)
(* to no other, though sessions come and go while it is still posted; and  *)
(* no promise is broken while the server lives (ClientRequestCorrelator,   *)
(* client_request_deadlines_, sendRequestToSession).                       *)
THEOREM QuestionsCorrect == QSpec => []QuestionsSound
<1>1. QInit => SessionsInv /\ QuestionsInv
  BY InitInv, QuestionsInit DEF QInit
<1>2. SessionsInv /\ QuestionsInv /\ [QNext]_allvars => SessionsInv' /\ QuestionsInv'
  BY QuestionsStep
<1>3. QuestionsInv => QuestionsSound
  BY QuestionsInvIsEnough
<1>4. QED BY <1>1, <1>2, <1>3, PTL DEF QSpec

(* No future is settled twice, in whatever order the answer, the deadline, *)
(* the caller's own clock and the server's end come to it (a promise set   *)
(* twice throws in the dispatcher's thread).                               *)
THEOREM SettledCorrect == QSpec => SettledOnce
<1>1. QInit => SessionsInv /\ QuestionsInv
  BY InitInv, QuestionsInit DEF QInit
<1>2. SessionsInv /\ QuestionsInv /\ [QNext]_allvars => SessionsInv' /\ QuestionsInv'
  BY QuestionsStep
<1>3. SessionsInv /\ QuestionsInv /\ [QNext]_allvars
        => [\A q \in Calls :
              /\ calls[q].inner \in Settled => calls'[q].inner = calls[q].inner
              /\ calls[q].future \in Settled => calls'[q].future = calls[q].future]_allvars
  BY QuestionsStep DEF StaysSettled
<1>4. QED BY <1>1, <1>2, <1>3, PTL DEF QSpec, SettledOnce
=============================================================================
