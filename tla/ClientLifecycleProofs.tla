------------------------ MODULE ClientLifecycleProofs ------------------------
(***************************************************************************)
(* Proofs about ClientLifecycle, for every setting of the reconnection and *)
(* any number of connections.                                              *)
(*                                                                         *)
(* The handlers nest, so the invariant is a predicate on the client's      *)
(* state, Sound, that each event of the machine preserves (FireSound);     *)
(* every handler is a composition of events and of changes of the flags,   *)
(* and has a lemma of its own.  Later is what no event undoes; it is       *)
(* transitive, so it holds of a handler as it does of its events.  Owes    *)
(* is what a handler does with connect()'s promise, Tells what a step may. *)
(* Pays, transitive too, is what an attempt to reconnect costs.            *)
(***************************************************************************)
EXTENDS ClientLifecycle, TLAPS

\* The states of a conversation over a connection that is up.
Live == {"CONNECTED", "INITIALIZING", "READY"}

Sane(c) ==
  /\ c \in Client
  /\ c.failures = 1 => c.machine.state \in {"ERROR", "CLOSED"}
  /\ c.probing = c.window

Sound(c) == Sane(c) /\ c.machine.timer = Armed(c.machine.state)

Agree(c) ==
  /\ c.connected <=> c.conn = "open"
  /\ ~c.connected => c.machine.state \notin Live

\* What follows a state that is over.
Follows(s, t) ==
  /\ s = "DRAINING" => t \in {"DRAINING", "CLOSED"}
  /\ s = "CLOSED" => t = "CLOSED"
  /\ s = "ERROR" => t \in {"ERROR", "CLOSED"}

Later(c, d) == Follows(c.machine.state, d.machine.state)

\* Who still waits for connect(), waits for a connection.
Waits(c) == c.told = "pending" => c.conn # "none"

Owes(c, d) ==
  /\ d.told = c.told \/ (c.told = "pending" /\ d.told = "failed")
  /\ Waits(c) => Waits(d)

Tells(c, d) ==
  /\ d.told # c.told =>
       c.told = "pending" /\ (d.told = "connected" => d.connected /\ ~d.probing)
  /\ Waits(c) => Waits(d)

\* What every handler keeps, and every step but the first.
Kind(c, d) == Sound(d) /\ Agree(d) /\ Later(c, d) /\ Owes(c, d)
Step(c, d) == Sound(d) /\ Agree(d) /\ Later(c, d) /\ Tells(c, d)

\* The events the client sends its machine after the first.
Events == {"NETWORK_CONNECTED", "NETWORK_DISCONNECTED", "INITIALIZE_REQUESTED",
           "INITIALIZED", "SHUTDOWN_REQUESTED", "PROTOCOL_ERROR", "TIMEOUT"}

-----------------------------------------------------------------------------
(* The machine. *)

LEMMA MachineFields ==
  ASSUME NEW m \in Machine
  PROVE  /\ m.state \in States /\ m.attempts \in 0..MaxReconnectAttempts
         /\ m.timer \in Timed \cup {NoTimer} /\ m.error \in BOOLEAN
  BY DEF Machine

LEMMA EnteredMachine ==
  ASSUME NEW m \in Machine, NEW s \in States
  PROVE  /\ Entered(m, s) \in Machine
         /\ Entered(m, s).state = s
         /\ Entered(m, s).timer = Armed(s)
  BY DEF Entered, Machine, Armed, Timed, NoTimer

\* One event is one step of the table, an attempt to reconnect, or nothing.
LEMMA EventCases ==
  ASSUME NEW m \in Machine, NEW e
  PROVE  /\ HandleEvent(m, e) \in Machine
         /\ \/ HandleEvent(m, e) = m /\ ~ \E t \in States : Leads(m.state, e, t)
            \/ /\ HandleEvent(m, e).timer = Armed(HandleEvent(m, e).state)
               /\ \/ Leads(m.state, e, HandleEvent(m, e).state)
                  \/ Reconnects(m, e) /\ HandleEvent(m, e).state = "CONNECTING"
<1>1. CASE Reconnects(m, e)
  <2> DEFINE n == [m EXCEPT !.attempts = m.attempts + 1]
  <2>1. n \in Machine
    BY <1>1, ReconnectAssumption DEF Machine, Reconnects
  <2>2. HandleEvent(m, e) = Entered(n, "CONNECTING")
    BY <1>1 DEF HandleEvent
  <2>3. "CONNECTING" \in States
    BY DEF States
  <2> QED BY <1>1, <2>1, <2>2, <2>3, EnteredMachine
<1>2. CASE ~Reconnects(m, e) /\ \E t \in States : Leads(m.state, e, t)
  <2> DEFINE n == [m EXCEPT !.attempts = IF m.state = "CLOSED" THEN 0 ELSE m.attempts]
             u == CHOOSE t \in States : Leads(m.state, e, t)
  <2>1. n \in Machine
    BY ReconnectAssumption DEF Machine
  <2>2. HandleEvent(m, e) = Entered(n, u)
    BY <1>2 DEF HandleEvent
  <2>3. u \in States /\ Leads(m.state, e, u)
    BY <1>2
  <2> QED BY <2>1, <2>2, <2>3, EnteredMachine
<1>3. CASE ~Reconnects(m, e) /\ ~ \E t \in States : Leads(m.state, e, t)
  BY <1>3 DEF HandleEvent
<1> QED BY <1>1, <1>2, <1>3

\* Where the client's events can lead.
LEMMA TableFollows ==
  ASSUME NEW s, NEW e \in Events, NEW t, Leads(s, e, t)
  PROVE  Follows(s, t)
  BY DEF Leads, Table, Events, Follows

LEMMA TableLive ==
  ASSUME NEW s, NEW e, NEW t, Leads(s, e, t), e # "NETWORK_CONNECTED", s \notin Live
  PROVE  t \notin Live
  BY DEF Leads, Table, Live

LEMMA TableLoss ==
  /\ \A s \in Live : Leads(s, "NETWORK_DISCONNECTED", "DISCONNECTED")
  /\ \A s, t : Leads(s, "NETWORK_DISCONNECTED", t) => t \notin Live
  BY DEF Leads, Table, Live

LEMMA TableError ==
  ASSUME NEW s, NEW e, NEW t, Leads(s, e, t)
  PROVE  /\ s # "CLOSED" \/ e = "CONNECT_REQUESTED"
         /\ s = "ERROR" => t = "CLOSED"
         /\ s # t
  BY DEF Leads, Table

-----------------------------------------------------------------------------
(* The handlers. *)

LEMMA ClientFields ==
  ASSUME NEW c, Sane(c)
  PROVE  /\ c.machine \in Machine /\ c.conn \in {"none", "connecting", "open"}
         /\ c.connected \in BOOLEAN /\ c.initialized \in BOOLEAN /\ c.failures \in 0..1
         /\ c.told \in {"none", "pending", "connected", "failed"}
         /\ c.probing \in BOOLEAN /\ c.window \in BOOLEAN
  BY DEF Sane, Client

LEMMA FireFields ==
  ASSUME NEW c, Sane(c), NEW e
  PROVE  /\ Fire(c, e).machine = HandleEvent(c.machine, e)
         /\ Fire(c, e).conn = c.conn
         /\ Fire(c, e).connected = c.connected
         /\ Fire(c, e).told = c.told
         /\ Fire(c, e).probing = c.probing /\ Fire(c, e).window = c.window
         /\ Fire(c, e).failures =
              IF /\ HandleEvent(c.machine, e).state = "ERROR" /\ c.machine.state # "ERROR"
                 /\ HandleEvent(c.machine, e).error
              THEN c.failures + 1 ELSE c.failures
  BY DEF Sane, Client, Fire

LEMMA FireSound ==
  ASSUME NEW c, Sane(c), NEW e \in Events,
         \/ Sound(c)
         \/ \E t \in States : Leads(c.machine.state, e, t)
  PROVE  Sound(Fire(c, e)) /\ Later(c, Fire(c, e))
<1> DEFINE d == Fire(c, e)  n == HandleEvent(c.machine, e)
<1>0. c.machine \in Machine /\ c.failures \in 0..1 /\ c.machine.state \in States
  BY ClientFields, MachineFields
<1>1. n \in Machine /\ n.timer = Armed(n.state)
  BY <1>0, EventCases DEF Sound
<1>2. Follows(c.machine.state, n.state)
  <2>1. CASE n = c.machine
    BY <2>1 DEF Follows
  <2>2. CASE Leads(c.machine.state, e, n.state)
    BY <2>2, TableFollows
  <2>3. CASE Reconnects(c.machine, e)
    BY <2>3 DEF Reconnects, Events, Follows
  <2> QED BY <1>0, <2>1, <2>2, <2>3, EventCases
<1>3. c.failures = 1 => n.state \in {"ERROR", "CLOSED"}
  BY <1>2 DEF Sane, Follows
<1>4. n.state = "ERROR" /\ c.machine.state # "ERROR" => c.failures = 0
  <2> SUFFICES ASSUME n.state = "ERROR", c.machine.state # "ERROR" PROVE c.failures = 0
    OBVIOUS
  <2>1. c.machine.state # "CLOSED"
    BY <1>2 DEF Follows
  <2> QED BY <2>1, <1>0 DEF Sane
<1>5. d \in Client
  <2> DEFINE b == c.initialized /\ ~(n.state = "DISCONNECTED" /\ c.machine.state # "DISCONNECTED")
             f == IF n.state = "ERROR" /\ c.machine.state # "ERROR" /\ n.error
                  THEN c.failures + 1 ELSE c.failures
  <2>1. b \in BOOLEAN
    OBVIOUS
  <2>2. f \in 0..1
    BY <1>0, <1>4
  <2>3. d = [c EXCEPT !.machine = n, !.initialized = b, !.failures = f]
    BY DEF Fire
  <2>4. c \in Client
    BY DEF Sane
  <2> HIDE DEF d, n, b, f
  <2> QED BY <1>1, <2>1, <2>2, <2>3, <2>4 DEF Client
<1>6. d.failures = 1 => d.machine.state \in {"ERROR", "CLOSED"}
  BY <1>0, <1>3, FireFields
<1>7. d.probing = d.window
  BY FireFields DEF Sane
<1> QED BY <1>1, <1>2, <1>5, <1>6, <1>7, FireFields DEF Sane, Sound, Client, Later

LEMMA FireAgree ==
  ASSUME NEW c, Sane(c), NEW e \in Events
  PROVE  /\ c.machine.state \notin Live /\ e # "NETWORK_CONNECTED"
              => Fire(c, e).machine.state \notin Live
         /\ e = "NETWORK_DISCONNECTED" => Fire(c, e).machine.state \notin Live
         /\ Agree(c) /\ e # "NETWORK_CONNECTED" => Agree(Fire(c, e))
<1> DEFINE m == c.machine  n == HandleEvent(m, e)
<1>0. m \in Machine /\ m.state \in States
  BY ClientFields, MachineFields
<1>1. m.state \notin Live /\ e # "NETWORK_CONNECTED" => n.state \notin Live
  BY <1>0, EventCases, TableLive DEF Live
<1>2. e = "NETWORK_DISCONNECTED" => n.state \notin Live
  <2> SUFFICES ASSUME e = "NETWORK_DISCONNECTED" PROVE n.state \notin Live
    OBVIOUS
  <2>1. CASE n = m /\ ~ \E t \in States : Leads(m.state, e, t)
    BY <2>1, TableLoss DEF States
  <2>2. CASE Leads(m.state, e, n.state)
    BY <2>2, TableLoss
  <2>3. CASE n.state = "CONNECTING"
    BY <2>3 DEF Live
  <2> QED BY <1>0, <2>1, <2>2, <2>3, EventCases
<1> QED BY <1>1, <1>2, FireFields DEF Agree

LEMMA LaterTransitive ==
  ASSUME NEW c, NEW d, NEW f, Later(c, d), Later(d, f)
  PROVE  Later(c, f)
  BY DEF Later, Follows

LEMMA KindTransitive ==
  ASSUME NEW c, NEW d, NEW f, Kind(c, d), Kind(d, f)
  PROVE  Kind(c, f)
  BY LaterTransitive DEF Kind, Owes

LEMMA KindSteps ==
  ASSUME NEW c, NEW d, Kind(c, d)
  PROVE  Step(c, d)
  BY DEF Kind, Step, Owes, Tells

LEMMA FireKind ==
  ASSUME NEW c, Sound(c), Agree(c), NEW e \in Events, e # "NETWORK_CONNECTED"
  PROVE  Kind(c, Fire(c, e))
<1>1. Sane(c)
  BY DEF Sound
<1>2. Owes(c, Fire(c, e))
  BY <1>1, FireFields DEF Owes, Waits
<1> QED BY <1>1, <1>2, FireSound, FireAgree DEF Kind

LEMMA SettleSound ==
  ASSUME NEW c, Sound(c), NEW how \in {"connected", "failed"}
  PROVE  LET d == settleConnect(c, how) IN
         /\ Sound(d) /\ d.machine = c.machine
         /\ d.conn = c.conn /\ d.connected = c.connected
         /\ d.probing = c.probing /\ d.window = c.window
         /\ d.told = IF c.told = "pending" THEN how ELSE c.told
  BY DEF Sound, Sane, Client, settleConnect

\* An event that says nothing of connect() and of the oldest transport.
Same(c, d) ==
  /\ d.conn = c.conn /\ d.connected = c.connected /\ d.told = c.told
  /\ d.probing = c.probing /\ d.window = c.window

LEMMA CoordinateSound ==
  ASSUME NEW c, Sound(c)
  PROVE  LET d == coordinateProtocolState(c) IN
         /\ Sound(d) /\ Later(c, d) /\ Same(c, d)
         /\ ~c.connected => d.machine.state \notin Live
<1>1. Sane(c) /\ "NETWORK_DISCONNECTED" \in Events
  BY DEF Sound, Events
<1>2. Later(c, c) /\ Same(c, c)
  BY DEF Later, Follows, Same
<1>3. CASE ~c.connected /\ c.machine.state # "DISCONNECTED"
  BY <1>1, <1>3, FireSound, FireFields, FireAgree DEF coordinateProtocolState, Same
<1>4. CASE ~(~c.connected /\ c.machine.state # "DISCONNECTED")
  BY <1>2, <1>4 DEF coordinateProtocolState, Live
<1> QED BY <1>3, <1>4

LEMMA ProtocolErrorSound ==
  ASSUME NEW c, Sound(c)
  PROVE  LET d == ProtocolError(c) IN
         /\ Sound(d) /\ Later(c, d) /\ Same(c, d)
         /\ Agree(c) => Agree(d)
<1> DEFINE a == [c EXCEPT !.machine = Kept(c.machine)]
<1>1. Kept(c.machine) \in Machine /\ Kept(c.machine).state = c.machine.state
      /\ Kept(c.machine).timer = c.machine.timer
  BY ClientFields DEF Sound, Kept, Machine
<1>2. Sound(a) /\ Same(c, a) /\ a.machine.state = c.machine.state
  BY <1>1 DEF Sound, Sane, Client, Same
<1>3. Agree(c) => Agree(a)
  BY <1>2 DEF Agree, Same
<1>4. ProtocolError(c) = Fire(a, "PROTOCOL_ERROR")
  BY DEF ProtocolError
<1> HIDE DEF a
<1>5. Sane(a) /\ "PROTOCOL_ERROR" \in Events
  BY <1>2 DEF Sound, Events
<1> DEFINE d == Fire(a, "PROTOCOL_ERROR")
<1>6. Sound(d) /\ Later(a, d) /\ Same(a, d) /\ (Agree(a) => Agree(d))
  BY <1>2, <1>5, FireSound, FireFields, FireAgree DEF Same
<1> HIDE DEF d
<1>7. Later(c, d) /\ Same(c, d)
  BY <1>2, <1>6 DEF Later, Same
<1> QED BY <1>3, <1>4, <1>6, <1>7 DEF d

LEMMA GoneSound ==
  ASSUME NEW c, Sound(c)
  PROVE  LET d == Gone(c) IN
         /\ Sound(d) /\ Later(c, d) /\ Agree(d)
         /\ d.conn = "none" /\ ~d.connected
         /\ d.probing = c.probing /\ d.window = c.window
         /\ d.told = IF c.told = "pending" THEN "failed" ELSE c.told
<1> DEFINE z == [c EXCEPT !.conn = "none", !.connected = FALSE]
           a == settleConnect(z, "failed")
           b == Fire(a, "NETWORK_DISCONNECTED")
           d == coordinateProtocolState(b)
<1>1. /\ Sound(z) /\ z.machine = c.machine /\ z.conn = "none" /\ z.connected = FALSE
      /\ z.told = c.told /\ z.probing = c.probing /\ z.window = c.window
  BY DEF Sound, Sane, Client
<1>0. Gone(c) = d
  BY DEF Gone
<1> HIDE DEF z
<1>2. /\ Sound(a) /\ a.machine = c.machine /\ a.conn = "none" /\ a.connected = FALSE
      /\ a.probing = c.probing /\ a.window = c.window
      /\ a.told = IF c.told = "pending" THEN "failed" ELSE c.told
  BY <1>1, SettleSound
<1> HIDE DEF a
<1>3. Sane(a) /\ "NETWORK_DISCONNECTED" \in Events
  BY <1>2 DEF Sound, Events
<1>4. Sound(b) /\ Later(a, b) /\ Same(a, b)
  BY <1>2, <1>3, FireSound, FireFields DEF Same
<1> HIDE DEF b
<1>5. Sound(d) /\ Later(b, d) /\ Same(b, d) /\ (~b.connected => d.machine.state \notin Live)
  BY <1>4, CoordinateSound
<1> HIDE DEF d
<1>6. Later(c, b)
  BY <1>2, <1>4 DEF Later
<1>7. Later(c, d)
  BY <1>5, <1>6, LaterTransitive
<1> QED BY <1>0, <1>2, <1>4, <1>5, <1>7 DEF Same, Agree

\* Connection and search are both over, whatever the client believed.
LEMMA FailSound ==
  ASSUME NEW c, Sound(c)
  PROVE  LET d == failDetection(c) IN
         /\ Sound(d) /\ Later(c, d) /\ (Agree(c) => Agree(d))
         /\ d.conn = "none" /\ (c.conn = "none" => d.connected = c.connected)
         /\ d.told = IF c.told = "pending" THEN "failed" ELSE c.told
<1> DEFINE z == [c EXCEPT !.probing = FALSE, !.window = FALSE]
           a == settleConnect(z, "failed")
           b == IF a.conn = "none" THEN a ELSE Gone(a)
           d == ProtocolError(b)
<1>0. failDetection(c) = d
  BY DEF failDetection
<1>1. /\ Sound(z) /\ z.machine = c.machine /\ z.conn = c.conn /\ z.connected = c.connected
      /\ z.told = c.told
  BY DEF Sound, Sane, Client
<1> HIDE DEF z
<1>2. /\ Sound(a) /\ a.machine = c.machine /\ a.conn = c.conn /\ a.connected = c.connected
      /\ a.told = IF c.told = "pending" THEN "failed" ELSE c.told
  BY <1>1, SettleSound
<1>3. Later(c, a) /\ (Agree(c) => Agree(a))
  BY <1>2 DEF Later, Follows, Agree
<1> HIDE DEF a
<1>4. /\ Sound(b) /\ Later(c, b) /\ (Agree(c) => Agree(b)) /\ b.conn = "none"
      /\ (c.conn = "none" => b.connected = c.connected) /\ b.told = a.told
  <2>1. CASE a.conn = "none"
    BY <1>2, <1>3, <2>1
  <2>2. CASE a.conn # "none"
    <3>1. /\ Sound(b) /\ Later(a, b) /\ Agree(b) /\ b.conn = "none" /\ b.told = a.told
      BY <1>2, <2>2, GoneSound
    <3> QED BY <1>2, <1>3, <2>2, <3>1, LaterTransitive
  <2> QED BY <2>1, <2>2
<1> HIDE DEF b
<1>5. Sound(d) /\ Later(b, d) /\ Same(b, d) /\ (Agree(b) => Agree(d))
  BY <1>4, ProtocolErrorSound
<1> HIDE DEF d
<1> QED BY <1>0, <1>2, <1>4, <1>5, LaterTransitive DEF Same

LEMMA ClosedSound ==
  ASSUME NEW c, Sound(c)
  PROVE  LET d == Closed(c) IN
         /\ Kind(c, d)
         /\ d.conn = "none" /\ ~d.connected /\ d.told # "pending"
<1>1. CASE ~c.probing
  <2> DEFINE d == Gone(c)
  <2>1. /\ Sound(d) /\ Later(c, d) /\ Agree(d) /\ d.conn = "none" /\ ~d.connected
        /\ d.told = IF c.told = "pending" THEN "failed" ELSE c.told
    BY GoneSound
  <2>2. Closed(c) = d
    BY <1>1 DEF Closed
  <2> HIDE DEF d
  <2> QED BY <2>1, <2>2 DEF Kind, Owes, Waits
<1>2. CASE c.probing
  <2> DEFINE z == [c EXCEPT !.conn = "none", !.connected = FALSE]
             b == failDetection(z)
             d == coordinateProtocolState(b)
  <2>0. Closed(c) = d
    BY <1>2 DEF Closed
  <2>1. /\ Sound(z) /\ z.machine = c.machine /\ z.conn = "none" /\ z.connected = FALSE
        /\ z.told = c.told
    BY DEF Sound, Sane, Client
  <2> HIDE DEF z
  <2>2. /\ Sound(b) /\ Later(z, b) /\ b.conn = "none" /\ b.connected = FALSE
        /\ b.told = IF c.told = "pending" THEN "failed" ELSE c.told
    BY <2>1, FailSound
  <2> HIDE DEF b
  <2>3. Later(c, b)
    BY <2>1, <2>2 DEF Later
  <2>4. /\ Sound(d) /\ Later(b, d) /\ Same(b, d) /\ d.machine.state \notin Live
    BY <2>2, CoordinateSound
  <2> HIDE DEF d
  <2>5. Later(c, d)
    BY <2>3, <2>4, LaterTransitive
  <2> QED BY <2>0, <2>2, <2>4, <2>5 DEF Same, Kind, Owes, Waits, Agree
<1>3. c.probing \in BOOLEAN
  BY ClientFields DEF Sound
<1> QED BY <1>1, <1>2, <1>3

LEMMA OpenedSound ==
  ASSUME NEW c, Sound(c)
  PROVE  Step(c, Opened(c))
<1> DEFINE z == [c EXCEPT !.conn = "open", !.connected = TRUE]
           a == IF c.probing THEN z ELSE settleConnect(z, "connected")
           b == Fire(a, "NETWORK_CONNECTED")
           d == coordinateProtocolState(b)
<1>0. Opened(c) = d
  BY DEF Opened
<1>1. /\ Sound(z) /\ z.machine = c.machine /\ z.conn = "open" /\ z.connected = TRUE
      /\ z.told = c.told /\ z.probing = c.probing
  BY DEF Sound, Sane, Client
<1> HIDE DEF z
<1>2. /\ Sound(a) /\ a.machine = c.machine /\ a.conn = "open" /\ a.connected = TRUE
      /\ a.probing = c.probing
      /\ a.told = c.told \/ (~c.probing /\ c.told = "pending" /\ a.told = "connected")
  BY <1>1, SettleSound
<1> HIDE DEF a
<1>3. Sane(a) /\ "NETWORK_CONNECTED" \in Events
  BY <1>2 DEF Sound, Events
<1>4. Sound(b) /\ Later(a, b) /\ Same(a, b)
  BY <1>2, <1>3, FireSound, FireFields DEF Same
<1> HIDE DEF b
<1>5. Sound(d) /\ Later(b, d) /\ Same(b, d)
  BY <1>4, CoordinateSound
<1> HIDE DEF d
<1>6. Later(c, b)
  BY <1>2, <1>4 DEF Later
<1>7. Later(c, d)
  BY <1>5, <1>6, LaterTransitive
<1> QED BY <1>0, <1>2, <1>4, <1>5, <1>7 DEF Same, Agree, Step, Tells, Waits

LEMMA CloseConnectionKind ==
  ASSUME NEW c, Sound(c), Agree(c)
  PROVE  /\ Kind(c, CloseConnection(c))
         /\ CloseConnection(c).conn = "none" /\ ~CloseConnection(c).connected
         /\ Waits(c) => CloseConnection(c).told # "pending"
<1>1. Later(c, c)
  BY DEF Later, Follows
<1>2. c.connected \in BOOLEAN
  BY ClientFields DEF Sound
<1>3. CASE c.conn = "none"
  BY <1>1, <1>2, <1>3 DEF CloseConnection, Kind, Owes, Waits, Agree
<1>4. CASE c.conn # "none"
  BY <1>4, ClosedSound DEF CloseConnection
<1> QED BY <1>3, <1>4

\* Clearing the flags of a client with no connection changes nothing else.
LEMMA ClearedKind ==
  ASSUME NEW c, NEW d, Kind(c, d), d.conn = "none", ~d.connected
  PROVE  Kind(c, [d EXCEPT !.connected = FALSE, !.initialized = FALSE])
  BY DEF Kind, Sound, Sane, Agree, Later, Owes, Waits, Client

LEMMA RedialledKind ==
  ASSUME NEW c, NEW d, Kind(c, d), d.conn = "none", ~d.connected,
         Waits(c) => d.told # "pending",
         NEW p \in {"none", "connecting"}
  PROVE  Kind(c, [d EXCEPT !.connected = FALSE, !.initialized = FALSE, !.conn = p])
  BY DEF Kind, Sound, Sane, Agree, Later, Owes, Waits, Client

LEMMA DisconnectKind ==
  ASSUME NEW c, Sound(c), Agree(c)
  PROVE  Kind(c, DisconnectHere(c))
<1> DEFINE a == Fire(c, "SHUTDOWN_REQUESTED")  b == CloseConnection(a)
<1>1. Kind(c, a)
  BY FireKind DEF Events
<1>2. Kind(a, b) /\ b.conn = "none" /\ ~b.connected
  <2> HIDE DEF a
  <2> QED BY <1>1, CloseConnectionKind DEF Kind
<1>3. Kind(c, b)
  BY <1>1, <1>2, KindTransitive
<1>4. DisconnectHere(c) = [b EXCEPT !.connected = FALSE, !.initialized = FALSE]
  BY DEF DisconnectHere
<1> HIDE DEF a, b
<1>5. Kind(c, [b EXCEPT !.connected = FALSE, !.initialized = FALSE])
  BY <1>2, <1>3, ClearedKind
<1> QED BY <1>4, <1>5

LEMMA ReconnectedKind ==
  ASSUME NEW c, Sound(c), Agree(c), NEW ok \in BOOLEAN
  PROVE  Kind(c, Reconnected(c, ok))
<1> DEFINE b == CloseConnection(c)  p == IF ok THEN "connecting" ELSE "none"
<1>1. Kind(c, b) /\ b.conn = "none" /\ ~b.connected /\ (Waits(c) => b.told # "pending")
  BY CloseConnectionKind
<1>2. Reconnected(c, ok) = [b EXCEPT !.connected = FALSE, !.initialized = FALSE, !.conn = p]
  BY DEF Reconnected
<1>3. p \in {"none", "connecting"}
  OBVIOUS
<1> HIDE DEF b, p
<1>4. Kind(c, [b EXCEPT !.connected = FALSE, !.initialized = FALSE, !.conn = p])
  BY <1>1, <1>3, RedialledKind
<1> QED BY <1>2, <1>4

LEMMA ProtocolErrorKind ==
  ASSUME NEW c, Sound(c), Agree(c)
  PROVE  Kind(c, ProtocolError(c))
  BY ProtocolErrorSound DEF Kind, Same, Owes, Waits

LEMMA HandleErrorKind ==
  ASSUME NEW c, Sound(c), Agree(c), NEW internal \in BOOLEAN
  PROVE  Kind(c, HandleError(c, internal))
<1>1. Kind(c, ProtocolError(c))
  BY ProtocolErrorKind
<1>2. Kind(ProtocolError(c), DisconnectHere(ProtocolError(c)))
  BY <1>1, DisconnectKind DEF Kind
<1> QED BY <1>1, <1>2, KindTransitive DEF HandleError

LEMMA TimedOutKind ==
  ASSUME NEW c, Sound(c), Agree(c), c.machine.timer # NoTimer
  PROVE  Kind(c, TimedOut(c))
<1> DEFINE a == [c EXCEPT !.machine.timer = NoTimer]  b == Fire(a, "TIMEOUT")
<1>1. /\ Sane(a) /\ Agree(a) /\ a.machine.state = c.machine.state
      /\ Same(c, a)
  BY DEF Sound, Sane, Client, Machine, Agree, Same
<1>2. c.machine.state \in Timed
  BY DEF Sound, Armed
<1>3. \E t \in States : Leads(a.machine.state, "TIMEOUT", t)
  BY <1>1, <1>2 DEF Timed, Leads, Table, States
<1>4. "TIMEOUT" \in Events
  BY DEF Events
<1>5. Sound(b) /\ Agree(b) /\ Later(a, b) /\ Same(a, b)
  <2> HIDE DEF a
  <2> QED BY <1>1, <1>3, <1>4, FireSound, FireAgree, FireFields DEF Same
<1> HIDE DEF a
<1>6. Kind(c, b)
  BY <1>1, <1>5 DEF Kind, Later, Same, Owes, Waits
<1>7. TimedOut(c) = HandleError(b, FALSE)
  BY DEF TimedOut, a
<1> HIDE DEF b
<1>8. Kind(b, HandleError(b, FALSE))
  BY <1>5, HandleErrorKind
<1> QED BY <1>6, <1>7, <1>8, KindTransitive

\* A start leaves nobody waiting for nothing, even if somebody did before.
LEMMA StartKind ==
  ASSUME NEW c, Sound(c), Agree(c), NEW ok \in BOOLEAN
  PROVE  Kind(c, startTransport(c, ok)) /\ Waits(startTransport(c, ok))
<1> DEFINE b == CloseConnection(c)
<1>1. Kind(c, b) /\ b.conn = "none" /\ ~b.connected
  BY CloseConnectionKind
<1> HIDE DEF b
<1>2. CASE ok
  <2> DEFINE d == [b EXCEPT !.conn = "connecting"]
  <2>1. startTransport(c, ok) = d
    BY <1>2 DEF startTransport, b
  <2>2. Sound(d) /\ d.machine = b.machine /\ d.conn = "connecting"
        /\ d.connected = b.connected /\ d.told = b.told
    BY <1>1 DEF Kind, Sound, Sane, Client
  <2> HIDE DEF d
  <2> QED BY <1>1, <2>1, <2>2 DEF Kind, Agree, Later, Owes, Waits
<1>3. CASE ~ok
  <2> DEFINE a == settleConnect(b, "failed")  d == ProtocolError(a)
  <2>1. startTransport(c, ok) = d
    BY <1>3 DEF startTransport, b
  <2>2. /\ Sound(a) /\ a.machine = b.machine /\ a.conn = b.conn
        /\ a.connected = b.connected
        /\ a.told = IF b.told = "pending" THEN "failed" ELSE b.told
    BY <1>1, SettleSound DEF Kind
  <2> HIDE DEF a
  <2>3. Kind(c, a) /\ a.told # "pending"
    BY <1>1, <2>2 DEF Kind, Agree, Later, Owes, Waits
  <2>4. Kind(a, d) /\ d.told # "pending"
    BY <2>3, ProtocolErrorKind DEF Kind, Owes
  <2> HIDE DEF d
  <2> QED BY <2>1, <2>3, <2>4, KindTransitive DEF Waits
<1> QED BY <1>2, <1>3

LEMMA LegacyKind ==
  ASSUME NEW c, Sound(c), Agree(c), NEW ok \in BOOLEAN
  PROVE  Kind(c, runLegacyRung(c, ok)) /\ Waits(runLegacyRung(c, ok))
<1> DEFINE a == [c EXCEPT !.probing = TRUE, !.window = TRUE]
<1>1. Kind(c, a)
  BY DEF Kind, Sound, Sane, Client, Agree, Later, Follows, Owes, Waits
<1>2. runLegacyRung(c, ok) = startTransport(a, ok)
  BY DEF runLegacyRung
<1> HIDE DEF a
<1>3. Kind(a, startTransport(a, ok)) /\ Waits(startTransport(a, ok))
  BY <1>1, StartKind DEF Kind
<1> QED BY <1>1, <1>2, <1>3, KindTransitive

LEMMA FailKind ==
  ASSUME NEW c, Sound(c), Agree(c)
  PROVE  Kind(c, failDetection(c)) /\ Waits(failDetection(c))
  BY FailSound DEF Kind, Owes, Waits

-----------------------------------------------------------------------------
(* The client. *)

\* One question at a time, before any start; and after it nobody waits for
\* nothing.
Search ==
  /\ ladder \in Ladder
  /\ \A p \in ladder.reporting : ladder.reporting = {p}
  /\ ladder.reporting # {} => ladder.begun /\ ladder.starts = 0
  /\ ladder.begun /\ ladder.reporting = {} => Waits(client)

Fresh ==
  /\ client.machine = NewMachine /\ client.conn = "none" /\ client.told = "none"
  /\ ~client.window /\ init = "none" /\ ~reinit
  /\ ladder.asked = {} /\ ladder.starts = 0

IInv ==
  /\ Sound(client) /\ Agree(client)
  /\ init \in Initializing /\ reinit \in BOOLEAN /\ dials \in 0..MaxDials
  /\ Search
  /\ ~ladder.begun => Fresh

LEMMA InitInv == Init => IInv
<1> SUFFICES ASSUME Init PROVE IInv
  OBVIOUS
<1>1. NewMachine \in Machine
  BY ReconnectAssumption DEF NewMachine, Machine, States, NoTimer
<1>2. client \in Client /\ client.probing = client.window
  BY <1>1 DEF Init, Client
<1>3. client.machine.state = "DISCONNECTED" /\ client.machine.timer = NoTimer
  BY DEF Init, NewMachine
<1>4. Sound(client)
  BY <1>2, <1>3 DEF Init, Sound, Sane, Armed, Timed
<1>5. Agree(client)
  BY <1>3 DEF Init, Agree, Live
<1>6. Fresh
  BY DEF Init, Fresh
<1>7. Search
  BY DEF Init, Search, Ladder, Probes
<1>8. init \in Initializing /\ reinit \in BOOLEAN
  BY DEF Init, Initializing
<1>9. dials \in 0..MaxDials
  BY DialAssumption DEF Init
<1> QED BY <1>4, <1>5, <1>6, <1>7, <1>8, <1>9, Zenon DEF IInv

\* CONNECT_REQUESTED is the one event outside Events: connect() sends it once,
\* to a new machine.
LEMMA ConnectRequested ==
  ASSUME IInv, ~Started
  PROVE  LET d == Fire([client EXCEPT !.told = "pending"], "CONNECT_REQUESTED") IN
         Sound(d) /\ Agree(d) /\ d.told = "pending"
<1> DEFINE a == [client EXCEPT !.told = "pending"]
           n == HandleEvent(NewMachine, "CONNECT_REQUESTED")
           d == Fire(a, "CONNECT_REQUESTED")
<1>1. /\ client.machine = NewMachine /\ client.conn = "none"
      /\ client \in Client /\ client.probing = client.window
  BY DEF IInv, Started, Fresh, Sound, Sane
<1>2. n.state = "CONNECTING" /\ n.timer = "CONNECTING" /\ n \in Machine
  <2>1. NewMachine \in Machine
    BY <1>1, ClientFields DEF IInv, Sound
  <2>2. ~Reconnects(NewMachine, "CONNECT_REQUESTED")
    BY DEF Reconnects, NewMachine
  <2>3. Leads(NewMachine.state, "CONNECT_REQUESTED", "CONNECTING") /\ "CONNECTING" \in States
    BY DEF Leads, Table, NewMachine, States
  <2>4. \A t : Leads(NewMachine.state, "CONNECT_REQUESTED", t) => t = "CONNECTING"
    BY DEF Leads, Table, NewMachine
  <2> QED BY <2>1, <2>2, <2>3, <2>4, EventCases DEF Armed, Timed
<1>3. client.failures = 0 /\ client.connected = FALSE
  BY <1>1, ClientFields DEF IInv, Sound, Sane, Agree, NewMachine
<1>4. /\ a \in Client /\ a.machine = NewMachine /\ a.failures = 0
      /\ a.conn = "none" /\ a.connected = FALSE /\ a.told = "pending"
      /\ a.probing = a.window /\ a.initialized \in BOOLEAN
  BY <1>1, <1>3 DEF Client
<1> HIDE DEF a
<1>5. d = [a EXCEPT !.machine = n, !.initialized = a.initialized, !.failures = 0]
  BY <1>2, <1>4 DEF Fire, NewMachine
<1> HIDE DEF n, d
<1>6. /\ d \in Client /\ d.machine = n /\ d.failures = 0 /\ d.probing = d.window
      /\ d.conn = "none" /\ d.connected = FALSE /\ d.told = "pending"
  BY <1>2, <1>4, <1>5 DEF Client
<1>7. Sound(d) /\ Agree(d)
  BY <1>2, <1>6 DEF Sound, Sane, Agree, Live, Armed, Timed
<1> QED BY <1>6, <1>7 DEF a, d

LEMMA ConnectSound ==
  ASSUME IInv, Connect
  PROVE  /\ Sound(client') /\ Agree(client') /\ Later(client, client') /\ Search'
         /\ client'.told \in {"pending", "failed"} /\ client.told = "none" /\ ladder'.begun
         /\ ladder.reporting = {}
<1> DEFINE a == Fire([client EXCEPT !.told = "pending"], "CONNECT_REQUESTED")
<1>1. Sound(a) /\ Agree(a) /\ a.told = "pending"
  BY ConnectRequested DEF Connect
<1>2. /\ client.machine = NewMachine /\ client.told = "none"
      /\ ladder.asked = {} /\ ladder.starts = 0
  BY DEF IInv, Connect, Started, Fresh
<1>3. Later(client, client')
  BY <1>2 DEF Later, Follows, NewMachine
<1>4. ladder \in Ladder /\ ladder.reporting = {}
  BY DEF IInv, Search, Connect, Started
<1>5. ASSUME NEW ok \in BOOLEAN, client' = startTransport(a, ok),
             ladder' = [ladder EXCEPT !.begun = TRUE, !.starts = 1]
      PROVE  Sound(client') /\ Agree(client') /\ client'.told \in {"pending", "failed"} /\ Search'
             /\ ladder'.begun
  <2> HIDE DEF a
  <2>1. Kind(a, client') /\ Waits(client')
    BY <1>1, <1>5, StartKind
  <2> DEFINE m == [ladder EXCEPT !.begun = TRUE, !.starts = 1]
  <2>2. m \in Ladder /\ m.begun /\ m.reporting = {}
    <3>1. TRUE \in BOOLEAN /\ 1 \in 0..1
      OBVIOUS
    <3>2. m \in Ladder
      BY <1>4, <3>1 DEF Ladder
    <3>3. m.begun = TRUE /\ m.reporting = ladder.reporting
      BY <1>4 DEF Ladder
    <3> QED BY <1>4, <3>2, <3>3
  <2>3. ladder' = m
    BY <1>5
  <2> HIDE DEF m
  <2> QED BY <1>1, <2>1, <2>2, <2>3 DEF Kind, Owes, Search, Waits
<1>6. ASSUME NEW p \in {"revision", "modern"}, client' = a,
             ladder' = [ladder EXCEPT !.begun = TRUE, !.asked = {p}, !.reporting = {p}]
      PROVE  Sound(client') /\ Agree(client') /\ client'.told \in {"pending", "failed"} /\ Search'
             /\ ladder'.begun
  <2>1. /\ ladder' \in Ladder /\ ladder'.begun /\ ladder'.reporting = {p}
    BY <1>4, <1>6 DEF Ladder, Probes
  <2>2. ladder'.starts = 0
    BY <1>2, <1>4, <1>6 DEF Ladder
  <2> QED BY <1>1, <1>6, <2>1, <2>2 DEF Search
<1> HIDE DEF a
<1> QED BY <1>2, <1>3, <1>4, <1>5, <1>6 DEF Connect, a

\* The commit of an initialize, and a flag alone.
LEMMA CommittedKind ==
  ASSUME NEW c, Sound(c), Agree(c)
  PROVE  Kind(c, Fire([c EXCEPT !.initialized = TRUE], "INITIALIZED"))
<1> DEFINE a == [c EXCEPT !.initialized = TRUE]
<1>1. Kind(c, a)
  BY DEF Sound, Sane, Client, Agree, Kind, Later, Follows, Owes, Waits
<1>2. Kind(a, Fire(a, "INITIALIZED"))
  <2> HIDE DEF a
  <2> QED BY <1>1, FireKind DEF Events, Kind
<1> HIDE DEF a
<1> QED BY <1>1, <1>2, KindTransitive DEF a

LEMMA FlagKind ==
  ASSUME NEW c, Sound(c), Agree(c), NEW b \in BOOLEAN
  PROVE  Kind(c, [c EXCEPT !.initialized = b])
  BY DEF Sound, Sane, Client, Agree, Kind, Later, Follows, Owes, Waits

\* What a probe comes to: the search is over, or the other question is asked.
LEMMA OutcomeKind ==
  ASSUME Sound(client), Agree(client),
         NEW l \in Ladder, l.begun, l.reporting = {}, l.starts = 0,
         NEW p \in Probes, Outcome(l, p)
  PROVE  /\ Kind(client, client') /\ ladder' \in Ladder /\ ladder'.begun
         /\ \/ ladder'.reporting = {} /\ Waits(client')
            \/ ladder'.reporting = {"classic"} /\ ladder'.starts = 0
<1> DEFINE Goal == /\ Kind(client, client') /\ ladder' \in Ladder /\ ladder'.begun
                   /\ \/ ladder'.reporting = {} /\ Waits(client')
                      \/ ladder'.reporting = {"classic"} /\ ladder'.starts = 0
<1>1. [l EXCEPT !.starts = @ + 1] \in Ladder /\ [l EXCEPT !.starts = @ + 1].begun
      /\ [l EXCEPT !.starts = @ + 1].reporting = {}
  BY DEF Ladder
<1>2. ASSUME Starts(l) PROVE Goal
  BY <1>1, <1>2, StartKind DEF Starts
<1>3. ASSUME Fails(l) PROVE Goal
  BY <1>3, FailKind DEF Fails
<1>4. ASSUME NEW v \in Verdicts, ModernSettled(l, v) PROVE Goal
  <2>1. CASE UNCHANGED client /\ ladder' = [l EXCEPT !.asked = @ \cup {"classic"},
                                                   !.reporting = @ \cup {"classic"}]
    <3>1. ladder' \in Ladder /\ ladder'.begun /\ ladder'.reporting = {"classic"}
          /\ ladder'.starts = 0
      BY <2>1 DEF Ladder, Probes
    <3>2. Kind(client, client')
      BY <2>1 DEF Kind, Later, Follows, Owes
    <3> QED BY <3>1, <3>2
  <2> QED BY <1>2, <1>3, <1>4, <2>1 DEF ModernSettled
<1>5. ASSUME NEW a \in Answers, ClassicSettled(l, a) PROVE Goal
  <2>1. ASSUME NEW ok \in BOOLEAN, client' = runLegacyRung(client, ok),
               ladder' = [l EXCEPT !.starts = @ + 1]
        PROVE  Goal
    BY <1>1, <2>1, LegacyKind
  <2> QED BY <1>2, <1>3, <1>5, <2>1 DEF ClassicSettled
<1> HIDE DEF Goal
<1>6. Goal
  BY <1>2, <1>4, <1>5 DEF Outcome
<1> QED BY <1>6 DEF Goal

LEMMA SilenceIsAnOutcome ==
  ASSUME NEW l, NEW p \in Probes, NoAnswer(l, p)
  PROVE  Outcome(l, p)
<1>1. "not modern" \in Verdicts /\ "something else" \in Answers
  BY DEF Verdicts, Answers
<1> QED BY <1>1 DEF NoAnswer, Outcome

\* A probe's outcome is told once, whichever of the answer and the deadline
\* comes first.
LEMMA ProbeKind ==
  ASSUME IInv, NEW p \in Probes, ProbeAnswered(p) \/ ProbeTimeout(p)
  PROVE  /\ Kind(client, client') /\ Search' /\ SearchEndsOnce /\ ladder'.begun
         /\ init' = AfterStep /\ UNCHANGED <<reinit, dials>>
<1> USE DEF IInv
<1>1. Sound(client) /\ Agree(client) /\ Search /\ ladder \in Ladder
  BY DEF Search
<1>0. init' = AfterStep /\ UNCHANGED <<reinit, dials>>
  BY DEF ProbeAnswered, ProbeTimeout
<1>2. ASSUME p \in ladder.reporting, NEW l \in Ladder, l.begun = ladder.begun,
             l.reporting = ladder.reporting \ {p}, l.starts = ladder.starts, Outcome(l, p)
      PROVE  Kind(client, client') /\ Search' /\ SearchEndsOnce /\ ladder'.begun
  <2>1. ladder.reporting = {p} /\ l.begun /\ l.reporting = {} /\ l.starts = 0
    BY <1>1, <1>2 DEF Search
  <2>2. /\ Kind(client, client') /\ ladder' \in Ladder /\ ladder'.begun
        /\ \/ ladder'.reporting = {} /\ Waits(client')
           \/ ladder'.reporting = {"classic"} /\ ladder'.starts = 0
    BY <1>1, <1>2, <2>1, OutcomeKind
  <2>3. Search'
    BY <2>2 DEF Search
  <2>4. SearchEndsOnce
    BY <2>1, <2>2 DEF SearchEndsOnce
  <2> QED BY <2>2, <2>3, <2>4
<1>3. CASE ProbeTimeout(p)
  <2> DEFINE l == [ladder EXCEPT !.reporting = @ \ {p}]
  <2>1. l \in Ladder /\ l.begun = ladder.begun /\ l.reporting = ladder.reporting \ {p}
        /\ l.starts = ladder.starts
    BY <1>1 DEF Ladder
  <2>2. p \in ladder.reporting /\ NoAnswer(l, p)
    BY <1>3 DEF ProbeTimeout
  <2> HIDE DEF l
  <2> QED BY <1>0, <1>2, <2>1, <2>2, SilenceIsAnOutcome
<1>4. CASE ProbeAnswered(p)
  <2> DEFINE l == [ladder EXCEPT !.asked = @ \ {p}, !.reporting = @ \ {p}]
  <2>1. l \in Ladder /\ l.begun = ladder.begun /\ l.reporting = ladder.reporting \ {p}
        /\ l.starts = ladder.starts
    BY <1>1 DEF Ladder
  <2>2. \/ p \in ladder.reporting /\ Outcome(l, p)
        \/ p \notin ladder.reporting /\ ladder' = l /\ UNCHANGED client
    BY <1>4 DEF ProbeAnswered, Unheard
  <2>3. ladder.begun
    BY <1>4 DEF ProbeAnswered, Fresh
  <2> HIDE DEF l
  <2>4. CASE p \notin ladder.reporting /\ ladder' = l /\ UNCHANGED client
    <3>1. /\ ladder' \in Ladder /\ ladder'.begun
          /\ ladder'.reporting = ladder.reporting /\ ladder'.starts = ladder.starts
      BY <2>1, <2>3, <2>4
    <3>2. Search'
      BY <1>1, <2>3, <2>4, <3>1 DEF Search, Waits
    <3>3. SearchEndsOnce
      BY <1>1, <3>1 DEF SearchEndsOnce, Search
    <3>4. Kind(client, client')
      BY <1>1, <2>4 DEF Kind, Later, Follows, Owes
    <3> QED BY <1>0, <3>1, <3>2, <3>3, <3>4
  <2> QED BY <1>0, <1>2, <2>1, <2>2, <2>4
<1> QED BY <1>3, <1>4

LEMMA EndpointStep ==
  ASSUME Sound(client), Agree(client), handleMessageEndpoint
  PROVE  Step(client, client')
<1> DEFINE a == [client EXCEPT !.probing = FALSE, !.window = FALSE]
<1>1. /\ Sound(a) /\ a.machine = client.machine /\ a.conn = "open"
      /\ a.connected = client.connected /\ a.told = client.told /\ a.probing = FALSE
  BY DEF Sound, Sane, Client, handleMessageEndpoint
<1>2. client' = settleConnect(a, "connected")
  BY DEF handleMessageEndpoint
<1> HIDE DEF a
<1>3. /\ Sound(client') /\ client'.machine = a.machine /\ client'.conn = a.conn
      /\ client'.connected = a.connected /\ client'.probing = a.probing
      /\ client'.told = IF a.told = "pending" THEN "connected" ELSE a.told
  BY <1>1, <1>2, SettleSound
<1> QED BY <1>1, <1>3 DEF Agree, Step, Later, Follows, Tells, Waits, handleMessageEndpoint

LEMMA WindowKind ==
  ASSUME Sound(client), Agree(client), LegacyTimeout
  PROVE  Kind(client, client')
<1>1. client.probing
  BY DEF LegacyTimeout, Sound, Sane
<1> QED BY <1>1, FailKind DEF LegacyTimeout

\* Every step that is not connect()'s or the search's.
Ordinary ==
  \/ handleMessageEndpoint \/ LegacyTimeout \/ NetworkConnected \/ NetworkLost
  \/ (\E internal \in BOOLEAN : NetworkError(internal))
  \/ StateTimeout \/ Request \/ InitializeProtocol \/ InitializeSent \/ InitializeAnswered
  \/ InitializeFailed \/ InitializeCommitted \/ SessionGone \/ Reinitialized
  \/ Disconnect \/ DisconnectPosted

LEMMA OrdinaryStep ==
  ASSUME IInv, Ordinary
  PROVE  Step(client, client')
<1>0. Sound(client) /\ Agree(client)
  BY DEF IInv
<1> USE KindSteps
<1>1. CASE handleMessageEndpoint
  BY <1>0, <1>1, EndpointStep
<1>2. CASE NetworkConnected
  BY <1>0, <1>2, OpenedSound DEF NetworkConnected
<1>3. CASE NetworkLost
  BY <1>0, <1>3, ClosedSound DEF NetworkLost
<1>4. ASSUME NEW internal \in BOOLEAN, NetworkError(internal)
      PROVE  Step(client, client')
  BY <1>0, <1>4, HandleErrorKind DEF NetworkError
<1>5. CASE StateTimeout
  BY <1>0, <1>5, TimedOutKind DEF StateTimeout
<1>6. CASE Request
  BY <1>0, <1>6, ReconnectedKind DEF Request
<1>7. CASE InitializeProtocol
  <2> DEFINE a == Fire(client, "INITIALIZE_REQUESTED")
  <2>1. Kind(client, a)
    BY <1>0, FireKind DEF Events
  <2>2. CASE client' = a
    BY <2>1, <2>2
  <2>3. ASSUME NEW ok \in BOOLEAN, client' = Reconnected(a, ok)
        PROVE  Step(client, client')
    <3> HIDE DEF a
    <3>1. Kind(a, Reconnected(a, ok))
      BY <2>1, ReconnectedKind DEF Kind
    <3> QED BY <2>1, <2>3, <3>1, KindTransitive
  <2> QED BY <1>7, <2>2, <2>3 DEF InitializeProtocol
<1>8. CASE UNCHANGED client
  BY <1>0, <1>8 DEF Step, Later, Follows, Tells
<1>9. CASE InitializeCommitted
  BY <1>0, <1>9, CommittedKind DEF InitializeCommitted
<1>10. CASE SessionGone
  BY <1>0, <1>10, FlagKind DEF SessionGone
<1>11. CASE Reinitialized
  BY <1>0, <1>8, <1>11, FlagKind DEF Reinitialized
<1>12. CASE Disconnect
  BY <1>0, <1>12, DisconnectKind DEF Disconnect
<1>13. CASE DisconnectPosted
  BY <1>0, <1>13, FireKind DEF DisconnectPosted, Events
<1>14. CASE LegacyTimeout
  BY <1>0, <1>14, WindowKind
<1> QED BY <1>1, <1>2, <1>3, <1>4, <1>5, <1>6, <1>7, <1>8, <1>9, <1>10, <1>11, <1>12, <1>13,
           <1>14 DEF Ordinary, InitializeSent, InitializeAnswered, InitializeFailed

\* They belong to a client that has begun to connect, and leave the search be.
LEMMA OrdinaryRest ==
  ASSUME IInv, Ordinary
  PROVE  /\ ladder.begun /\ ladder' = ladder
         /\ init' \in Initializing /\ reinit' \in BOOLEAN /\ dials' \in 0..MaxDials
<1> DEFINE Rest == /\ ladder.begun /\ ladder' = ladder
                   /\ init' \in Initializing /\ reinit' \in BOOLEAN /\ dials' \in 0..MaxDials
<1>0. /\ init \in Initializing /\ reinit \in BOOLEAN /\ dials \in 0..MaxDials /\ MaxDials \in Nat
      /\ AfterStep \in Initializing
      /\ ~ladder.begun => /\ client.conn = "none" /\ init = "none" /\ ~reinit /\ ~client.window
                          /\ client.machine.timer = NoTimer
  BY DialAssumption DEF IInv, Fresh, NewMachine, AfterStep, Initializing
<1>1. CASE handleMessageEndpoint
  BY <1>0, <1>1 DEF handleMessageEndpoint
<1>2. CASE LegacyTimeout
  BY <1>0, <1>2 DEF LegacyTimeout
<1>3. CASE NetworkConnected
  BY <1>0, <1>3 DEF NetworkConnected
<1>4. CASE NetworkLost
  BY <1>0, <1>4 DEF NetworkLost
<1>5. ASSUME NEW internal \in BOOLEAN, NetworkError(internal) PROVE Rest
  BY <1>0, <1>5 DEF NetworkError
<1>6. CASE StateTimeout
  BY <1>0, <1>6 DEF StateTimeout
<1>7. CASE Request
  BY <1>0, <1>7 DEF Request, Started
<1>8. CASE InitializeProtocol
  <2>1. "none" \in Initializing /\ "sent" \in Initializing /\ "waiting" \in Initializing
    BY DEF Initializing
  <2>2. ladder.begun /\ reinit' = reinit /\ ladder' = ladder
    BY <1>8 DEF InitializeProtocol, Started
  <2>3. /\ init' \in Initializing
        /\ dials' = dials \/ (dials < MaxDials /\ dials' = dials + 1)
    BY <1>8, <2>1 DEF InitializeProtocol
  <2> QED BY <1>0, <2>2, <2>3
<1>9. CASE InitializeSent
  BY <1>0, <1>9 DEF InitializeSent, Initializing
<1>10. CASE InitializeAnswered
  BY <1>0, <1>10 DEF InitializeAnswered, Initializing
<1>11. CASE InitializeFailed
  BY <1>0, <1>11 DEF InitializeFailed, Initializing
<1>12. CASE InitializeCommitted
  BY <1>0, <1>12 DEF InitializeCommitted, Initializing
<1>13. CASE SessionGone
  BY <1>0, <1>13 DEF SessionGone
<1>14. CASE Reinitialized
  BY <1>0, <1>14 DEF Reinitialized
<1>15. CASE Disconnect
  BY <1>0, <1>15 DEF Disconnect, Started
<1>16. CASE DisconnectPosted
  BY <1>0, <1>16 DEF DisconnectPosted, Started
<1> QED BY <1>1, <1>2, <1>3, <1>4, <1>5, <1>6, <1>7, <1>8, <1>9, <1>10, <1>11, <1>12, <1>13,
           <1>14, <1>15, <1>16 DEF Ordinary

LEMMA NextCases ==
  ASSUME Next
  PROVE  \/ Connect
         \/ \E p \in Probes : ProbeAnswered(p) \/ ProbeTimeout(p)
         \/ Ordinary
  BY DEF Next, Ordinary

LEMMA StepInv == IInv /\ [Next]_vars => IInv'
<1> SUFFICES ASSUME IInv, [Next]_vars PROVE IInv'
  OBVIOUS
<1>0. /\ init \in Initializing /\ reinit \in BOOLEAN /\ dials \in 0..MaxDials
      /\ AfterStep \in Initializing
  BY DEF IInv, AfterStep, Initializing
<1>1. CASE Connect
  <2>1. init' = init /\ reinit' = reinit /\ dials' = dials
    BY <1>1 DEF Connect
  <2> QED BY <1>0, <1>1, <2>1, ConnectSound DEF IInv
<1>2. ASSUME NEW p \in Probes, ProbeAnswered(p) \/ ProbeTimeout(p) PROVE IInv'
  BY <1>0, <1>2, ProbeKind DEF IInv, Kind
<1>3. CASE Ordinary
  <2>1. Step(client, client') /\ Search
    BY <1>3, OrdinaryStep DEF IInv
  <2>2. /\ ladder.begun /\ ladder' = ladder
        /\ init' \in Initializing /\ reinit' \in BOOLEAN /\ dials' \in 0..MaxDials
    BY <1>3, OrdinaryRest
  <2>3. Search'
    BY <2>1, <2>2 DEF Search, Step, Tells
  <2> QED BY <2>1, <2>2, <2>3 DEF IInv, Step
<1>4. CASE UNCHANGED vars
  BY <1>4 DEF vars, IInv, Search, Fresh, Waits
<1> QED BY <1>1, <1>2, <1>3, <1>4, NextCases

\* What is over stays over, step by step.
LEMMA StepEnds ==
  ASSUME IInv, [Next]_vars
  PROVE  NothingRevives /\ SearchEndsOnce /\ ToldTruly
<1> USE DEF NothingRevives, SearchEndsOnce, ToldTruly, Later, Follows, state, Started
<1>1. CASE Connect
  <2>1. ~ladder.begun
    BY <1>1 DEF Connect
  <2> QED BY <1>1, <2>1, ConnectSound
<1>2. ASSUME NEW p \in Probes, ProbeAnswered(p) \/ ProbeTimeout(p)
      PROVE  NothingRevives /\ SearchEndsOnce /\ ToldTruly
  <2>1. ladder.begun
    BY <1>2 DEF IInv, Search, Fresh, ProbeAnswered, ProbeTimeout
  <2> QED BY <1>2, <2>1, ProbeKind DEF Kind, Owes
<1>3. CASE Ordinary
  <2>1. Step(client, client') /\ ladder.begun /\ ladder' = ladder
    BY <1>3, OrdinaryStep, OrdinaryRest
  <2>2. "modern" \in ladder.reporting => "classic" \notin ladder.reporting
    BY DEF IInv, Search
  <2> QED BY <2>1, <2>2 DEF Step, Tells
<1>4. CASE UNCHANGED vars
  BY <1>4 DEF vars, IInv, Search
<1> QED BY <1>1, <1>2, <1>3, <1>4, NextCases

-----------------------------------------------------------------------------
(* What an attempt costs.  A live conversation counts as the attempt its    *)
(* loss would be: no event but a connection's coming up adds to what is     *)
(* spent, however often the machine is told of one loss.                    *)

Spent(m) == m.attempts + (IF m.state \in Live THEN 1 ELSE 0)

Pays(c, d) ==
  /\ Spent(d.machine) <= Spent(c.machine)
  /\ c.conn # "open" => d.conn # "open"
  /\ d.machine.attempts > c.machine.attempts => d.conn # "open"

\* The one event that starts an attempt unasked.
LEMMA EventSpends ==
  ASSUME NEW m \in Machine, NEW e, e # "RECONNECT_REQUESTED"
  PROVE  LET n == HandleEvent(m, e) IN
         n.attempts > m.attempts =>
           /\ e = "NETWORK_DISCONNECTED" /\ m.state = "READY"
           /\ n.attempts = m.attempts + 1
<1> DEFINE n == HandleEvent(m, e)
<1>0. m.attempts \in Nat
  BY MachineFields, ReconnectAssumption
<1>1. CASE Reconnects(m, e)
  <2> DEFINE k == [m EXCEPT !.attempts = m.attempts + 1]
  <2>1. n = Entered(k, "CONNECTING")
    BY <1>1 DEF HandleEvent
  <2>2. n.attempts = m.attempts + 1
    BY <2>1 DEF Entered, Machine
  <2> QED BY <1>1, <2>2 DEF Reconnects
<1>2. CASE ~Reconnects(m, e) /\ \E t \in States : Leads(m.state, e, t)
  <2> DEFINE b == IF m.state = "CLOSED" THEN 0 ELSE m.attempts
             k == [m EXCEPT !.attempts = b]
             u == CHOOSE t \in States : Leads(m.state, e, t)
  <2>1. n = Entered(k, u)
    BY <1>2 DEF HandleEvent
  <2>2. n.attempts = b
    BY <2>1 DEF Entered, Machine
  <2> QED BY <1>0, <2>2
<1>3. CASE ~Reconnects(m, e) /\ ~ \E t \in States : Leads(m.state, e, t)
  <2>1. n = m
    BY <1>3 DEF HandleEvent
  <2> QED BY <1>0, <2>1
<1> QED BY <1>1, <1>2, <1>3

LEMMA EventPays ==
  ASSUME NEW m \in Machine, NEW e, e # "RECONNECT_REQUESTED", e # "NETWORK_CONNECTED"
  PROVE  Spent(HandleEvent(m, e)) <= Spent(m)
<1> DEFINE n == HandleEvent(m, e)
<1>1. /\ m.attempts \in Nat /\ n.attempts \in Nat
      /\ m.state \in States
  BY MachineFields, EventCases, ReconnectAssumption
<1>2. m.state \notin Live => n.state \notin Live
  BY EventCases, TableLive DEF Live
<1>3. n.attempts > m.attempts =>
        e = "NETWORK_DISCONNECTED" /\ m.state = "READY" /\ n.attempts = m.attempts + 1
  BY EventSpends
<1>4. e = "NETWORK_DISCONNECTED" => n.state \notin Live
  <2> SUFFICES ASSUME e = "NETWORK_DISCONNECTED" PROVE n.state \notin Live
    OBVIOUS
  <2>1. CASE n = m /\ ~ \E t \in States : Leads(m.state, e, t)
    BY <2>1, TableLoss DEF States
  <2>2. CASE Leads(m.state, e, n.state)
    BY <2>2, TableLoss
  <2>3. CASE n.state = "CONNECTING"
    BY <2>3 DEF Live
  <2> QED BY <2>1, <2>2, <2>3, EventCases
<1> HIDE DEF n
<1>5. m.state = "READY" => m.state \in Live
  BY DEF Live
<1>6. Spent(n) <= Spent(m)
  BY <1>1, <1>2, <1>3, <1>4, <1>5 DEF Spent
<1> QED BY <1>6 DEF n

LEMMA PaysTransitive ==
  ASSUME NEW c, NEW d, NEW f, Sound(c), Sound(d), Sound(f), Pays(c, d), Pays(d, f)
  PROVE  Pays(c, f)
<1>1. /\ c.machine.attempts \in Nat /\ d.machine.attempts \in Nat
      /\ f.machine.attempts \in Nat
  BY ClientFields, MachineFields, ReconnectAssumption DEF Sound
<1>2. Spent(c.machine) \in Nat /\ Spent(d.machine) \in Nat /\ Spent(f.machine) \in Nat
  BY <1>1 DEF Spent
<1>3. Spent(f.machine) <= Spent(c.machine)
  BY <1>2 DEF Pays
<1>4. ASSUME f.machine.attempts > c.machine.attempts PROVE f.conn # "open"
  <2>1. CASE f.machine.attempts > d.machine.attempts
    BY <2>1 DEF Pays
  <2>2. CASE ~(f.machine.attempts > d.machine.attempts)
    <3>1. d.machine.attempts > c.machine.attempts
      BY <1>1, <1>4, <2>2
    <3> QED BY <3>1 DEF Pays
  <2> QED BY <2>1, <2>2
<1>5. c.conn # "open" => f.conn # "open"
  BY DEF Pays
<1> QED BY <1>3, <1>4, <1>5 DEF Pays

\* A change of the flags alone.
LEMMA FlagsPay ==
  ASSUME NEW c, NEW d, Sane(c), d.machine = c.machine,
         d.conn = c.conn \/ d.conn # "open"
  PROVE  Pays(c, d)
<1>1. c.machine.attempts \in Nat
  BY ClientFields, MachineFields, ReconnectAssumption
<1>2. Spent(c.machine) \in Nat
  BY <1>1 DEF Spent
<1> QED BY <1>1, <1>2 DEF Pays

LEMMA FirePays ==
  ASSUME NEW c, Sane(c), NEW e, e # "RECONNECT_REQUESTED", e # "NETWORK_CONNECTED",
         c.conn # "open" \/ e # "NETWORK_DISCONNECTED"
  PROVE  Pays(c, Fire(c, e))
<1> DEFINE d == Fire(c, e)
<1>1. d.machine = HandleEvent(c.machine, e) /\ d.conn = c.conn
  BY FireFields
<1>2. c.machine \in Machine
  BY ClientFields
<1>3. Spent(d.machine) <= Spent(c.machine)
  BY <1>1, <1>2, EventPays
<1>4. d.machine.attempts > c.machine.attempts => e = "NETWORK_DISCONNECTED"
  BY <1>1, <1>2, EventSpends
<1> HIDE DEF d
<1>5. Pays(c, d)
  BY <1>1, <1>3, <1>4 DEF Pays
<1> QED BY <1>5 DEF d

LEMMA CoordinatePays ==
  ASSUME NEW c, Sound(c), ~c.connected => c.conn # "open"
  PROVE  Pays(c, coordinateProtocolState(c))
<1>1. CASE ~c.connected /\ c.machine.state # "DISCONNECTED"
  BY <1>1, FirePays DEF Sound, coordinateProtocolState
<1>2. CASE ~(~c.connected /\ c.machine.state # "DISCONNECTED")
  <2>1. coordinateProtocolState(c) = c
    BY <1>2 DEF coordinateProtocolState
  <2> QED BY <2>1, FlagsPay DEF Sound
<1> QED BY <1>1, <1>2

LEMMA ProtocolErrorPays ==
  ASSUME NEW c, Sound(c)
  PROVE  Pays(c, ProtocolError(c))
<1> DEFINE a == [c EXCEPT !.machine = Kept(c.machine)]  d == Fire(a, "PROTOCOL_ERROR")
<1>1. /\ Kept(c.machine) \in Machine /\ Kept(c.machine).state = c.machine.state
      /\ Kept(c.machine).attempts = c.machine.attempts
      /\ Kept(c.machine).timer = c.machine.timer
  BY ClientFields DEF Sound, Kept, Machine
<1>2. /\ Sound(a) /\ a.conn = c.conn /\ a.machine = Kept(c.machine)
  BY <1>1 DEF Sound, Sane, Client
<1>3. ProtocolError(c) = d
  BY DEF ProtocolError
<1> HIDE DEF a
<1>4. Pays(a, d)
  BY <1>2, FirePays DEF Sound
<1> HIDE DEF d
<1>5. Spent(a.machine) = Spent(c.machine)
  BY <1>1, <1>2 DEF Spent
<1>6. Pays(c, d)
  BY <1>1, <1>2, <1>4, <1>5 DEF Pays
<1> QED BY <1>3, <1>6

LEMMA GonePays ==
  ASSUME NEW c, Sound(c)
  PROVE  Pays(c, Gone(c))
<1> DEFINE z == [c EXCEPT !.conn = "none", !.connected = FALSE]
           a == settleConnect(z, "failed")
           b == Fire(a, "NETWORK_DISCONNECTED")
           d == coordinateProtocolState(b)
<1>0. Gone(c) = d
  BY DEF Gone
<1>1. Sound(z) /\ z.machine = c.machine /\ z.conn = "none"
  BY DEF Sound, Sane, Client
<1> HIDE DEF z
<1>2. Sound(a) /\ a.machine = c.machine /\ a.conn = "none"
  BY <1>1, SettleSound
<1> HIDE DEF a
<1>3. Sane(a) /\ "NETWORK_DISCONNECTED" \in Events
  BY <1>2 DEF Sound, Events
<1>4. Sound(b) /\ b.conn = "none" /\ Pays(a, b)
  BY <1>2, <1>3, FireSound, FireFields, FirePays
<1> HIDE DEF b
<1>5. Sound(d) /\ Pays(b, d)
  BY <1>4, CoordinateSound, CoordinatePays
<1> HIDE DEF d
<1>6. Pays(c, a)
  BY <1>2, FlagsPay DEF Sound
<1> QED BY <1>0, <1>2, <1>4, <1>5, <1>6, PaysTransitive

LEMMA FailPays ==
  ASSUME NEW c, Sound(c)
  PROVE  Pays(c, failDetection(c))
<1> DEFINE z == [c EXCEPT !.probing = FALSE, !.window = FALSE]
           a == settleConnect(z, "failed")
           b == IF a.conn = "none" THEN a ELSE Gone(a)
           d == ProtocolError(b)
<1>0. failDetection(c) = d
  BY DEF failDetection
<1>1. Sound(z) /\ z.machine = c.machine /\ z.conn = c.conn
  BY DEF Sound, Sane, Client
<1> HIDE DEF z
<1>2. Sound(a) /\ a.machine = c.machine /\ a.conn = c.conn
  BY <1>1, SettleSound
<1> HIDE DEF a
<1>3. Pays(c, a)
  BY <1>2, FlagsPay DEF Sound
<1>4. Sound(b) /\ Pays(a, b)
  BY <1>2, GoneSound, GonePays, FlagsPay DEF Sound
<1> HIDE DEF b
<1>5. Sound(d) /\ Pays(b, d)
  BY <1>4, ProtocolErrorSound, ProtocolErrorPays
<1> HIDE DEF d
<1> QED BY <1>0, <1>2, <1>3, <1>4, <1>5, PaysTransitive

LEMMA ClosedPays ==
  ASSUME NEW c, Sound(c)
  PROVE  Pays(c, Closed(c))
<1>1. CASE ~c.probing
  BY <1>1, GonePays DEF Closed
<1>2. CASE c.probing
  <2> DEFINE z == [c EXCEPT !.conn = "none", !.connected = FALSE]
             b == failDetection(z)
             d == coordinateProtocolState(b)
  <2>0. Closed(c) = d
    BY <1>2 DEF Closed
  <2>1. Sound(z) /\ z.machine = c.machine /\ z.conn = "none"
    BY DEF Sound, Sane, Client
  <2> HIDE DEF z
  <2>2. Pays(c, z)
    BY <2>1, FlagsPay DEF Sound
  <2>3. Sound(b) /\ b.conn = "none" /\ Pays(z, b)
    BY <2>1, FailSound, FailPays
  <2> HIDE DEF b
  <2>4. Sound(d) /\ Pays(b, d)
    BY <2>3, CoordinateSound, CoordinatePays
  <2> HIDE DEF d
  <2> QED BY <2>0, <2>1, <2>2, <2>3, <2>4, PaysTransitive
<1>3. c.probing \in BOOLEAN
  BY ClientFields DEF Sound
<1> QED BY <1>1, <1>2, <1>3

\* What takes the client from one state between callbacks to another, paying.
Paid(c, d) == Kind(c, d) /\ Pays(c, d)

LEMMA PaidTransitive ==
  ASSUME NEW c, NEW d, NEW f, Sound(c), Paid(c, d), Paid(d, f)
  PROVE  Paid(c, f)
  BY KindTransitive, PaysTransitive DEF Paid, Kind

LEMMA CloseConnectionPaid ==
  ASSUME NEW c, Sound(c), Agree(c)
  PROVE  Paid(c, CloseConnection(c)) /\ CloseConnection(c).conn = "none"
<1>1. Kind(c, CloseConnection(c)) /\ CloseConnection(c).conn = "none"
  BY CloseConnectionKind
<1>2. Pays(c, CloseConnection(c))
  BY ClosedPays, FlagsPay DEF CloseConnection, Sound
<1> QED BY <1>1, <1>2 DEF Paid

LEMMA DisconnectPaid ==
  ASSUME NEW c, Sound(c), Agree(c)
  PROVE  Paid(c, DisconnectHere(c))
<1> DEFINE a == Fire(c, "SHUTDOWN_REQUESTED")  b == CloseConnection(a)
           d == [b EXCEPT !.connected = FALSE, !.initialized = FALSE]
<1>1. Paid(c, a)
  BY FireKind, FirePays DEF Events, Sound, Paid
<1>2. DisconnectHere(c) = d /\ Kind(c, DisconnectHere(c))
  BY DisconnectKind DEF DisconnectHere
<1> HIDE DEF a
<1>3. Paid(a, b)
  BY <1>1, CloseConnectionPaid DEF Kind, Paid
<1> HIDE DEF b
<1>4. Paid(c, b)
  BY <1>1, <1>3, PaidTransitive
<1>5. d.machine = b.machine /\ d.conn = b.conn
  BY <1>4 DEF Paid, Kind, Sound, Sane, Client
<1> HIDE DEF d
<1>6. Pays(b, d)
  BY <1>4, <1>5, FlagsPay DEF Paid, Kind, Sound
<1>7. Sound(b) /\ Sound(d)
  BY <1>2, <1>4 DEF Paid, Kind
<1>8. Pays(c, d)
  BY <1>4, <1>6, <1>7, PaysTransitive DEF Paid
<1> QED BY <1>2, <1>8 DEF Paid

LEMMA ReconnectedPaid ==
  ASSUME NEW c, Sound(c), Agree(c), NEW ok \in BOOLEAN
  PROVE  Paid(c, Reconnected(c, ok))
<1> DEFINE b == CloseConnection(c)  p == IF ok THEN "connecting" ELSE "none"
           d == [b EXCEPT !.connected = FALSE, !.initialized = FALSE, !.conn = p]
<1>1. Paid(c, b)
  BY CloseConnectionPaid
<1>2. Reconnected(c, ok) = d /\ Kind(c, Reconnected(c, ok))
  BY ReconnectedKind DEF Reconnected
<1> HIDE DEF b
<1>3. d.machine = b.machine /\ d.conn # "open"
  BY <1>1 DEF Paid, Kind, Sound, Sane, Client
<1> HIDE DEF d
<1>4. Sound(b) /\ Sound(d)
  BY <1>1, <1>2 DEF Paid, Kind
<1>5. Pays(b, d)
  BY <1>3, <1>4, FlagsPay DEF Sound
<1>6. Pays(c, d)
  BY <1>1, <1>4, <1>5, PaysTransitive DEF Paid
<1> QED BY <1>2, <1>6 DEF Paid

LEMMA HandleErrorPaid ==
  ASSUME NEW c, Sound(c), Agree(c), NEW internal \in BOOLEAN
  PROVE  Paid(c, HandleError(c, internal))
<1>1. Paid(c, ProtocolError(c))
  BY ProtocolErrorKind, ProtocolErrorPays DEF Paid
<1>2. Paid(ProtocolError(c), DisconnectHere(ProtocolError(c)))
  BY <1>1, DisconnectPaid DEF Paid, Kind
<1> QED BY <1>1, <1>2, PaidTransitive DEF HandleError

LEMMA TimedOutPaid ==
  ASSUME NEW c, Sound(c), Agree(c), c.machine.timer # NoTimer
  PROVE  Paid(c, TimedOut(c))
<1> DEFINE a == [c EXCEPT !.machine.timer = NoTimer]  b == Fire(a, "TIMEOUT")
<1>1. /\ Sane(a) /\ Agree(a) /\ a.machine.state = c.machine.state
      /\ a.machine.attempts = c.machine.attempts /\ a.conn = c.conn
  BY DEF Sound, Sane, Client, Machine, Agree
<1>2. c.machine.state \in Timed
  BY DEF Sound, Armed
<1>3. \E t \in States : Leads(a.machine.state, "TIMEOUT", t)
  BY <1>1, <1>2 DEF Timed, Leads, Table, States
<1>4. TimedOut(c) = HandleError(b, FALSE)
  BY DEF TimedOut
<1> HIDE DEF a
<1>5. Sound(b) /\ Agree(b) /\ Pays(a, b)
  BY <1>1, <1>3, FireSound, FireAgree, FirePays DEF Events
<1> HIDE DEF b
<1>6. Pays(c, b)
  BY <1>1, <1>5 DEF Pays, Spent
<1>7. Paid(b, HandleError(b, FALSE))
  BY <1>5, HandleErrorPaid
<1>8. Kind(c, TimedOut(c))
  BY TimedOutKind
<1>9. Pays(c, TimedOut(c))
  BY <1>4, <1>5, <1>6, <1>7, <1>8, PaysTransitive DEF Paid, Kind
<1> QED BY <1>8, <1>9 DEF Paid

LEMMA StartPaid ==
  ASSUME NEW c, Sound(c), Agree(c), NEW ok \in BOOLEAN
  PROVE  Paid(c, startTransport(c, ok))
<1> DEFINE b == CloseConnection(c)
<1>1. Paid(c, b) /\ Kind(c, startTransport(c, ok))
  BY CloseConnectionPaid, StartKind
<1>2. startTransport(c, ok) =
        IF ok THEN [b EXCEPT !.conn = "connecting"] ELSE ProtocolError(settleConnect(b, "failed"))
  BY DEF startTransport
<1> HIDE DEF b
<1>3. CASE ok
  <2> DEFINE d == [b EXCEPT !.conn = "connecting"]
  <2>1. d.machine = b.machine /\ d.conn = "connecting"
    BY <1>1 DEF Paid, Kind, Sound, Sane, Client
  <2>2. startTransport(c, ok) = d
    BY <1>2, <1>3
  <2> HIDE DEF d
  <2>3. Pays(b, d)
    BY <1>1, <2>1, FlagsPay DEF Paid, Kind, Sound
  <2> QED BY <1>1, <2>2, <2>3, PaysTransitive DEF Paid, Kind
<1>4. CASE ~ok
  <2> DEFINE a == settleConnect(b, "failed")  d == ProtocolError(a)
  <2>1. Sound(a) /\ a.machine = b.machine /\ a.conn = b.conn
    BY <1>1, SettleSound DEF Paid, Kind
  <2>2. startTransport(c, ok) = d
    BY <1>2, <1>4
  <2> HIDE DEF a
  <2>3. Pays(b, a)
    BY <1>1, <2>1, FlagsPay DEF Paid, Kind, Sound
  <2>4. Pays(a, d)
    BY <2>1, ProtocolErrorPays
  <2> HIDE DEF d
  <2>5. Sound(b) /\ Sound(d) /\ Pays(c, b)
    BY <1>1, <2>2 DEF Paid, Kind
  <2>6. Pays(c, a)
    BY <2>1, <2>3, <2>5, PaysTransitive
  <2>7. Pays(c, d)
    BY <2>1, <2>4, <2>5, <2>6, PaysTransitive
  <2> QED BY <1>1, <2>2, <2>7 DEF Paid
<1> QED BY <1>3, <1>4

LEMMA LegacyPaid ==
  ASSUME NEW c, Sound(c), Agree(c), NEW ok \in BOOLEAN
  PROVE  Paid(c, runLegacyRung(c, ok))
<1> DEFINE a == [c EXCEPT !.probing = TRUE, !.window = TRUE]
<1>1. Sound(a) /\ Agree(a) /\ a.machine = c.machine /\ a.conn = c.conn
  BY DEF Sound, Sane, Client, Agree
<1>2. runLegacyRung(c, ok) = startTransport(a, ok)
  BY DEF runLegacyRung
<1> HIDE DEF a
<1>3. Pays(c, a)
  BY <1>1, FlagsPay DEF Sound
<1>4. Paid(a, startTransport(a, ok)) /\ Kind(c, runLegacyRung(c, ok))
  BY <1>1, StartPaid, LegacyKind
<1> QED BY <1>1, <1>2, <1>3, <1>4, PaysTransitive DEF Paid, Kind

\* A step over which at most a loss is paid for; a connection coming up adds a
\* conversation and no attempt.
Costs(c, d) ==
  Pays(c, d) \/ ~(d.machine.attempts > c.machine.attempts)

LEMMA OpenedCosts ==
  ASSUME NEW c, Sound(c)
  PROVE  Costs(c, Opened(c))
<1> DEFINE z == [c EXCEPT !.conn = "open", !.connected = TRUE]
           a == IF c.probing THEN z ELSE settleConnect(z, "connected")
           b == Fire(a, "NETWORK_CONNECTED")
<1>0. Opened(c) = coordinateProtocolState(b)
  BY DEF Opened
<1>1. Sound(z) /\ z.machine = c.machine /\ z.connected = TRUE
  BY DEF Sound, Sane, Client
<1> HIDE DEF z
<1>2. Sound(a) /\ a.machine = c.machine /\ a.connected = TRUE
  BY <1>1, SettleSound
<1> HIDE DEF a
<1>3. b.machine = HandleEvent(a.machine, "NETWORK_CONNECTED") /\ b.connected = TRUE
  BY <1>2, FireFields DEF Sound
<1>4. a.machine \in Machine
  BY <1>2, ClientFields DEF Sound
<1>5. ~(b.machine.attempts > a.machine.attempts)
  BY <1>3, <1>4, EventSpends
<1> HIDE DEF b
<1>6. Opened(c) = b
  BY <1>0, <1>3 DEF coordinateProtocolState
<1> QED BY <1>2, <1>5, <1>6 DEF Costs

LEMMA ConnectCosts ==
  ASSUME IInv, Connect
  PROVE  Pays(client, client')
<1> DEFINE z == [client EXCEPT !.told = "pending"]
           a == Fire(z, "CONNECT_REQUESTED")
<1>1. Sane(z) /\ z.machine = client.machine /\ z.conn = client.conn
  BY DEF IInv, Sound, Sane, Client
<1>2. Sound(a) /\ Agree(a)
  BY ConnectRequested DEF Connect
<1>3. client' = a \/ \E ok \in BOOLEAN : client' = startTransport(a, ok)
  BY DEF Connect
<1> HIDE DEF z
<1>4. Pays(z, a)
  BY <1>1, FirePays
<1> HIDE DEF a
<1>5. Pays(client, a)
  BY <1>1, <1>4 DEF Pays
<1>6. Sound(client)
  BY DEF IInv
<1>7. ASSUME NEW ok \in BOOLEAN, client' = startTransport(a, ok)
      PROVE  Pays(client, client')
  <2>1. Paid(a, startTransport(a, ok))
    BY <1>2, StartPaid
  <2> QED BY <1>2, <1>5, <1>6, <1>7, <2>1, PaysTransitive DEF Paid, Kind
<1> QED BY <1>3, <1>5, <1>7

LEMMA OutcomePays ==
  ASSUME Sound(client), Agree(client), NEW l, NEW p \in Probes, Outcome(l, p)
  PROVE  Pays(client, client')
<1>1. ASSUME Starts(l) PROVE Pays(client, client')
  BY <1>1, StartPaid DEF Starts, Paid
<1>2. ASSUME Fails(l) PROVE Pays(client, client')
  BY <1>2, FailPays DEF Fails
<1>3. ASSUME UNCHANGED client PROVE Pays(client, client')
  BY <1>3, FlagsPay DEF Sound
<1>4. ASSUME NEW v \in Verdicts, ModernSettled(l, v) PROVE Pays(client, client')
  BY <1>1, <1>2, <1>3, <1>4 DEF ModernSettled
<1>5. ASSUME NEW a \in Answers, ClassicSettled(l, a) PROVE Pays(client, client')
  <2>1. ASSUME NEW ok \in BOOLEAN, client' = runLegacyRung(client, ok)
        PROVE  Pays(client, client')
    BY <2>1, LegacyPaid DEF Paid
  <2> QED BY <1>1, <1>2, <1>5, <2>1 DEF ClassicSettled
<1> QED BY <1>1, <1>4, <1>5 DEF Outcome

LEMMA ProbePays ==
  ASSUME IInv, NEW p \in Probes, ProbeAnswered(p) \/ ProbeTimeout(p)
  PROVE  Pays(client, client')
<1>0. Sound(client) /\ Agree(client)
  BY DEF IInv
<1>1. UNCHANGED client \/ \E l : Outcome(l, p) \/ NoAnswer(l, p)
  BY DEF ProbeAnswered, ProbeTimeout
<1>2. CASE UNCHANGED client
  BY <1>0, <1>2, FlagsPay DEF Sound
<1>3. ASSUME NEW l, Outcome(l, p) \/ NoAnswer(l, p) PROVE Pays(client, client')
  BY <1>0, <1>3, OutcomePays, SilenceIsAnOutcome
<1> QED BY <1>1, <1>2, <1>3

LEMMA OrdinaryCosts ==
  ASSUME IInv, Ordinary
  PROVE  Costs(client, client')
<1>0. Sound(client) /\ Agree(client)
  BY DEF IInv
<1> USE DEF Costs, Paid
<1>1. CASE handleMessageEndpoint
  <2> DEFINE a == [client EXCEPT !.probing = FALSE, !.window = FALSE]
  <2>1. Sound(a) /\ a.machine = client.machine
    BY <1>0 DEF Sound, Sane, Client
  <2>2. client' = settleConnect(a, "connected")
    BY <1>1 DEF handleMessageEndpoint
  <2> HIDE DEF a
  <2>3. client'.machine = client.machine
    BY <2>1, <2>2, SettleSound
  <2>4. client.machine.attempts \in Nat
    BY <1>0, ClientFields, MachineFields, ReconnectAssumption DEF Sound
  <2> QED BY <2>3, <2>4
<1>2. CASE NetworkConnected
  BY <1>0, <1>2, OpenedCosts DEF NetworkConnected
<1>3. CASE NetworkLost
  BY <1>0, <1>3, ClosedPays DEF NetworkLost
<1>4. ASSUME NEW internal \in BOOLEAN, NetworkError(internal)
      PROVE  Costs(client, client')
  BY <1>0, <1>4, HandleErrorPaid DEF NetworkError
<1>5. CASE StateTimeout
  BY <1>0, <1>5, TimedOutPaid DEF StateTimeout
<1>6. CASE Request
  BY <1>0, <1>6, ReconnectedPaid DEF Request
<1>7. CASE InitializeProtocol
  <2> DEFINE a == Fire(client, "INITIALIZE_REQUESTED")
  <2>1. Paid(client, a)
    BY <1>0, FireKind, FirePays DEF Events, Sound
  <2>2. client' = a \/ \E ok \in BOOLEAN : client' = Reconnected(a, ok)
    BY <1>7 DEF InitializeProtocol
  <2> HIDE DEF a
  <2>3. ASSUME NEW ok \in BOOLEAN, client' = Reconnected(a, ok)
        PROVE  Pays(client, client')
    <3>1. Paid(a, Reconnected(a, ok))
      BY <2>1, ReconnectedPaid DEF Kind
    <3> QED BY <1>0, <2>1, <2>3, <3>1, PaidTransitive
  <2> QED BY <2>1, <2>2, <2>3
<1>8. CASE client'.machine = client.machine /\ client'.conn = client.conn
  BY <1>0, <1>8, FlagsPay DEF Sound
<1>9. CASE InitializeCommitted
  <2> DEFINE a == [client EXCEPT !.initialized = TRUE]
  <2>1. Sound(a) /\ a.machine = client.machine /\ a.conn = client.conn
    BY <1>0 DEF Sound, Sane, Client
  <2>2. client' = Fire(a, "INITIALIZED")
    BY <1>9 DEF InitializeCommitted
  <2> HIDE DEF a
  <2>3. Pays(a, client')
    BY <2>1, <2>2, FirePays DEF Sound
  <2> QED BY <2>1, <2>3 DEF Pays
<1>10. CASE SessionGone \/ Reinitialized
  <2>1. client'.machine = client.machine /\ client'.conn = client.conn
    BY <1>0, <1>10 DEF SessionGone, Reinitialized, Sound, Sane, Client
  <2> QED BY <1>8, <2>1
<1>11. CASE Disconnect
  BY <1>0, <1>11, DisconnectPaid DEF Disconnect
<1>12. CASE DisconnectPosted
  BY <1>0, <1>12, FirePays DEF DisconnectPosted, Sound
<1>13. CASE LegacyTimeout
  <2>1. client.probing
    BY <1>0, <1>13 DEF LegacyTimeout, Sound, Sane
  <2> QED BY <1>0, <1>13, <2>1, FailPays DEF LegacyTimeout
<1>14. CASE InitializeSent \/ InitializeAnswered \/ InitializeFailed
  BY <1>8, <1>14 DEF InitializeSent, InitializeAnswered, InitializeFailed
<1> QED BY <1>1, <1>2, <1>3, <1>4, <1>5, <1>6, <1>7, <1>9, <1>10, <1>11, <1>12, <1>13,
           <1>14 DEF Ordinary

\* What the step's cost says of the attempts: the conversation that was live
\* had a connection, and has it no more.
LEMMA StepCosts ==
  ASSUME IInv, IInv', [Next]_vars,
         client'.machine.attempts > client.machine.attempts
  PROVE  /\ client'.machine.attempts = client.machine.attempts + 1
         /\ client.connected /\ client'.conn # "open"
<1>1. /\ client.machine.attempts \in Nat /\ client'.machine.attempts \in Nat
  <2>1. Sane(client) /\ Sane(client')
    BY DEF IInv, Sound
  <2>2. client.machine \in Machine /\ client'.machine \in Machine
    BY <2>1, ClientFields
  <2> QED BY <2>2, MachineFields, ReconnectAssumption
<1>2. Costs(client, client')
  <2>1. CASE Connect
    BY <2>1, ConnectCosts DEF Costs
  <2>2. ASSUME NEW p \in Probes, ProbeAnswered(p) \/ ProbeTimeout(p)
        PROVE  Costs(client, client')
    BY <2>2, ProbePays DEF Costs
  <2>3. CASE Ordinary
    BY <2>3, OrdinaryCosts
  <2>4. CASE UNCHANGED vars
    BY <1>1, <2>4 DEF vars, Costs
  <2> QED BY <2>1, <2>2, <2>3, <2>4, NextCases
<1>3. Spent(client'.machine) <= Spent(client.machine) /\ client'.conn # "open"
  BY <1>2 DEF Costs, Pays
<1>4. client.machine.state \in Live /\ client'.machine.attempts = client.machine.attempts + 1
  BY <1>1, <1>3 DEF Spent
<1>5. client.connected
  BY <1>4 DEF IInv, Agree
<1> QED BY <1>3, <1>4, <1>5

-----------------------------------------------------------------------------
(* Theorems *)

LEMMA InvAlways == Spec => []IInv
<1>1. Init => IInv
  BY InitInv
<1>2. IInv /\ [Next]_vars => IInv'
  BY StepInv
<1> QED BY <1>1, <1>2, PTL DEF Spec

\* Every reachable state of the client has its type; in particular the
\* attempts never exceed max_reconnect_attempts, and the breaker is told of
\* at most one failure of the protocol.
THEOREM TypeCorrect == Spec => []TypeOK
<1>1. IInv => TypeOK
  BY DEF IInv, TypeOK, Sound, Sane, Search
<1> QED BY <1>1, InvAlways, PTL

\* startStateTimer() and cancelStateTimer(): the timer running is the one of
\* the state the machine is in.
THEOREM TimersCorrect == Spec => []TimedWhileWaiting
<1>1. IInv => TimedWhileWaiting
  BY DEF IInv, Sound, TimedWhileWaiting, Armed, state
<1> QED BY <1>1, InvAlways, PTL

\* handleConnectionEvent() and coordinateProtocolState(): the machine, the
\* client's flag and the connection agree.
THEOREM AgreementCorrect == Spec => []NetworkAgrees
<1>1. IInv => NetworkAgrees
  BY DEF IInv, Agree, NetworkAgrees, Live, state
<1> QED BY <1>1, InvAlways, PTL

\* settleConnect() and the timers of the search: who waits for connect() waits
\* for a probe's deadline or for a connection, and the oldest transport proves
\* itself within its window.
THEOREM AwaitedCorrect == Spec => []SomethingIsAwaited
<1>1. IInv => SomethingIsAwaited
  <2> SUFFICES ASSUME IInv PROVE SomethingIsAwaited
    OBVIOUS
  <2>1. client.probing = client.window /\ Search /\ (~ladder.begun => client.told = "none")
    BY DEF IInv, Sound, Sane, Fresh
  <2>2. ladder \in Ladder /\ ladder.begun \in BOOLEAN
    BY <2>1 DEF Search, Ladder
  <2> QED BY <2>1, <2>2 DEF Search, Waits, SomethingIsAwaited
<1> QED BY <1>1, InvAlways, PTL

\* No callback takes a conversation back from its end, asks a probe's question
\* again or starts a second transport, and connect() is answered once and truly.
THEOREM EndCorrect == Spec => OverIsOver
<1>1. IInv /\ [Next]_vars => [NothingRevives /\ SearchEndsOnce /\ ToldTruly]_vars
  BY StepEnds
<1> QED BY <1>1, InvAlways, PTL DEF Spec, OverIsOver

\* handleEvent() and handleConnectionEvent(): the machine is told of one loss
\* more than once, and counts one attempt for it.
THEOREM AttemptsCorrect == Spec => OneLossOneAttempt
<1>1. IInv /\ [Next]_vars =>
        [client'.machine.attempts > client.machine.attempts =>
           /\ client'.machine.attempts = client.machine.attempts + 1
           /\ client.connected /\ client'.conn # "open"]_vars
  BY StepInv, StepCosts
<1> QED BY <1>1, InvAlways, PTL DEF Spec, OneLossOneAttempt

\* Client, connection, machine and search agree between any two callbacks.
THEOREM MachineCorrect == Spec => []MachineAgrees
BY TypeCorrect, TimersCorrect, AgreementCorrect, AwaitedCorrect, PTL DEF MachineAgrees
==============================================================================
