----------------------- MODULE WatchConnectionProofs -----------------------
(***************************************************************************)
(* Proofs about the watch connection: assertions, delayed operations and   *)
(* the online state, for any number of closes, addresses and documents,    *)
(* and that the connection keeps the query view as FirestoreClient says.   *)
(***************************************************************************)
EXTENDS WatchConnection, FiniteSetTheorems, TLAPS

\* What is proved of the Firestore client where the controller uses it holds of
\* any use of it.
Used == INSTANCE FirebaseControllerProofs WITH
    WellFormed <- Content,
    Listener <- {},
    auth <- "signedIn",
    dataList <- <<>>,
    delegates <- {},
    received <- <<>>

----------------------------------------------------------------------------
(* Connections.                                                             *)

Place == Address \cup {Nowhere}
Delay == {0} \cup InitialDelay..MaxDelay
Pending == [updated : SUBSET Doc, removed : SUBSET DocId]

Conn == [
    enabled : BOOLEAN, watched : BOOLEAN,
    pending : Pending,
    stream : {"Initial", "Starting", "Open", "Error", "Backoff"},
    closes : Nat, asked : SUBSET Nat,
    base : Delay, delay : Delay,
    online : {"Unknown", "Online", "Offline"}, failures : Nat,
    slot : [Timer -> Place], handle : [Timer -> Place],
    died : {"no"} \cup HardAsserts]

\* What delayed operations and stream leave of a connection.
Rest(c) == <<c.enabled, c.watched, c.pending, c.closes, c.online, c.failures>>

\* The bounds of counters, and that no two operations share an address.
Bounded(c) ==
    /\ c.asked \subseteq 0..c.closes
    /\ c.failures <= c.closes
    /\ c.slot["online"] = c.slot["backoff"] => c.slot["online"] = Nowhere

\* A stream that has been closed or never started: nothing is left of a retry,
\* and the online timer runs only while the state is unknown.
Closed(c) ==
    /\ c.stream \in {"Initial", "Error"}
    /\ c.slot["backoff"] = Nowhere /\ c.handle["backoff"] = Nowhere
    /\ c.slot["online"] = c.handle["online"]
    /\ c.slot["online"] # Nowhere => c.online = "Unknown"
    /\ c.online # "Offline" => c.failures = 0
    /\ c.asked \subseteq 0..c.closes /\ c.closes \notin c.asked
    /\ c.failures <= c.closes
    /\ c.pending = Nothing

\* One that may be started: unknown and untimed, or offline after a failure.
Ready(c) ==
    /\ Closed(c)
    /\ c.slot["online"] = Nowhere
    /\ c.online = "Unknown" \/ (c.online = "Offline" /\ c.failures # 0)

\* What holds of the connection between two handlers.  The handle of a retry
\* that has run goes on naming its address; as long as it does, no other
\* operation is scheduled there that this handle could cancel.
Sound(c) ==
    /\ c.stream = "Backoff" => c.slot["backoff"] = c.handle["backoff"] /\ c.slot["backoff"] # Nowhere
    /\ c.stream # "Backoff" => c.slot["backoff"] = Nowhere
    /\ c.stream \in {"Initial", "Error"} => c.handle["backoff"] = Nowhere /\ ~c.watched
    /\ c.slot["online"] = c.handle["online"]
    /\ c.slot["online"] # Nowhere => c.slot["online"] # c.handle["backoff"] /\ c.online = "Unknown"
    /\ c.online # "Offline" => c.failures = 0
    /\ c.online = "Online" => c.stream = "Open"
    /\ c.watched /\ c.online = "Unknown" => c.slot["online"] # Nowhere
    /\ c.asked \subseteq 0..c.closes
    /\ c.stream # "Open" => c.pending = Nothing
    /\ c.failures <= c.closes

\* A stream waits for the token it has asked for, and nothing else does.
Good(c) == Sound(c) /\ (c.closes \in c.asked <=> c.stream = "Starting")

\* The two timers.
LEMMA Timers == "online" \in Timer /\ "backoff" \in Timer /\ Timer = {"online", "backoff"}
BY DEF Timer

\* Two connections of the same fields but for some.
LEMMA GoodIsBounded ==
    ASSUME NEW c \in Conn, Good(c) \/ Closed(c)
    PROVE  Bounded(c)
BY DEF Good, Sound, Closed, Bounded, Conn

\* A stream that is closed and wanted by nobody is at rest.
LEMMA ReadyAtRest ==
    ASSUME NEW c \in Conn, Ready(c), ~c.watched
    PROVE  Good(c)
BY DEF Ready, Closed, Good, Sound, Conn

----------------------------------------------------------------------------
(* Methods.                                                                 *)

\* Cancelling touches the schedule only.
LEMMA CancelType ==
    ASSUME NEW c \in Conn, NEW t \in Timer
    PROVE  LET r == Cancel(c, t)
           IN  /\ r \in Conn /\ Rest(r) = Rest(c)
               /\ r.stream = c.stream /\ r.asked = c.asked /\ r.died = c.died
               /\ r.slot = [u \in Timer |-> IF c.slot[u] = c.handle[t] THEN Nowhere ELSE c.slot[u]]
               /\ r.handle = [c.handle EXCEPT ![t] = Nowhere]
BY DEF Cancel, Conn, Place, Rest

\* So does scheduling, where nothing is scheduled.
LEMMA EnqueueType ==
    ASSUME NEW c \in Conn, NEW t \in Timer, NEW a \in Address, c.slot[t] = Nowhere
    PROVE  LET r == EnqueueAfterDelay(c, t, a)
           IN  /\ r \in Conn /\ Rest(r) = Rest(c)
               /\ r.stream = c.stream /\ r.asked = c.asked /\ r.died = c.died
               /\ r.slot = [c.slot EXCEPT ![t] = a]
               /\ r.handle = [c.handle EXCEPT ![t] = a]
BY DEF EnqueueAfterDelay, Assert, Conn, Place, Rest

\* Delays stay within their bounds.
LEMMA ClampType ==
    ASSUME NEW d \in Nat
    PROVE  ClampDelay(d) \in Delay
BY ConnectionAssumption DEF ClampDelay, Delay

\* A retry is scheduled in the place of an earlier one.
LEMMA BackoffType ==
    ASSUME NEW c \in Conn, NEW a \in Address,
           c.slot["backoff"] = Nowhere, c.handle["backoff"] = Nowhere
    PROVE  LET r == BackoffAndRun(c, a)
           IN  /\ r \in Conn /\ Rest(r) = Rest(c)
               /\ r.stream = c.stream /\ r.asked = c.asked /\ r.died = c.died
               /\ r.slot["backoff"] = a /\ r.handle["backoff"] = a
               /\ r.slot["online"] = c.slot["online"]
               /\ r.handle["online"] = c.handle["online"]
<1> DEFINE d == Cancel(c, "backoff")
           e == EnqueueAfterDelay(d, "backoff", a)
           r == BackoffAndRun(c, a)
<1>1. /\ d \in Conn /\ Rest(d) = Rest(c)
      /\ d.stream = c.stream /\ d.asked = c.asked /\ d.died = c.died
      /\ d.slot = [u \in Timer |-> IF c.slot[u] = c.handle["backoff"] THEN Nowhere ELSE c.slot[u]]
      /\ d.handle = [c.handle EXCEPT !["backoff"] = Nowhere]
  BY Timers, CancelType
<1>2. d.slot["backoff"] = Nowhere
  BY Timers, <1>1
<1> HIDE DEF d
<1>3. /\ e \in Conn /\ Rest(e) = Rest(d)
      /\ e.stream = d.stream /\ e.asked = d.asked /\ e.died = d.died
      /\ e.slot = [d.slot EXCEPT !["backoff"] = a]
      /\ e.handle = [d.handle EXCEPT !["backoff"] = a]
  BY Timers, <1>1, <1>2, EnqueueType
<1>4. r = [e EXCEPT !.delay = c.base, !.base = ClampDelay((c.base * 3) \div 2)]
  BY DEF BackoffAndRun, d
<1>5. c.base \in Delay /\ ClampDelay((c.base * 3) \div 2) \in Delay
  BY ConnectionAssumption, ClampType DEF Conn, Delay
<1> HIDE DEF e, r
<1>6. /\ r \in Conn /\ Rest(r) = Rest(e)
      /\ r.stream = e.stream /\ r.asked = e.asked /\ r.died = e.died
      /\ r.slot = e.slot /\ r.handle = e.handle
  BY <1>3, <1>4, <1>5 DEF Conn, Rest
<1>7. c.slot \in [Timer -> Place] /\ c.handle \in [Timer -> Place]
  BY DEF Conn
<1> QED
  BY Timers, <1>1, <1>3, <1>6, <1>7 DEF r

\* A new stream asks for a token.
LEMMA StartInitial ==
    ASSUME NEW c \in Conn, NEW at \in Addresses, c.stream = "Initial"
    PROVE  LET r == Start(c, at)
           IN  /\ r \in Conn /\ Rest(r) = Rest(c)
               /\ r.stream = "Starting" /\ r.asked = c.asked \cup {c.closes}
               /\ r.slot = c.slot /\ r.handle = c.handle /\ r.died = c.died
BY DEF Start, RequestCredentials, Assert, Conn, Rest

\* One that has failed waits before that.
LEMMA StartError ==
    ASSUME NEW c \in Conn, NEW at \in Addresses, c.stream = "Error",
           c.slot["backoff"] = Nowhere, c.handle["backoff"] = Nowhere
    PROVE  LET r == Start(c, at)
           IN  /\ r \in Conn /\ Rest(r) = Rest(c)
               /\ r.stream = "Backoff" /\ r.asked = c.asked /\ r.died = c.died
               /\ r.slot["backoff"] = at["backoff"] /\ r.handle["backoff"] = at["backoff"]
               /\ r.slot["online"] = c.slot["online"] /\ r.handle["online"] = c.handle["online"]
<1> DEFINE d == [c EXCEPT !.stream = "Backoff"]
<1>1. /\ d \in Conn /\ Rest(d) = Rest(c) /\ d.stream = "Backoff" /\ d.asked = c.asked
      /\ d.died = c.died /\ d.slot = c.slot /\ d.handle = c.handle
  BY DEF Conn, Rest
<1>2. at["backoff"] \in Address
  BY Timers DEF Addresses
<1>3. Start(c, at) = BackoffAndRun(d, at["backoff"])
  BY DEF Start
<1> HIDE DEF d
<1> QED
  BY <1>1, <1>2, <1>3, BackoffType

\* The first attempt is given a time by which the phone is offline.
LEMMA TrackerStart ==
    ASSUME NEW c \in Conn, NEW a \in Address,
           c.slot["online"] = Nowhere, c.handle["online"] = Nowhere
    PROVE  LET r == HandleWatchStreamStart(c, a)
           IN  /\ r \in Conn /\ r.died = c.died
               /\ r.enabled = c.enabled /\ r.watched = c.watched /\ r.pending = c.pending
               /\ r.closes = c.closes /\ r.failures = c.failures
               /\ r.stream = c.stream /\ r.asked = c.asked
               /\ r.slot["backoff"] = c.slot["backoff"] /\ r.handle["backoff"] = c.handle["backoff"]
               /\ IF c.failures = 0
                  THEN r.online = "Unknown" /\ r.slot["online"] = a /\ r.handle["online"] = a
                  ELSE r = c
<1> DEFINE d == Assert([c EXCEPT !.online = "Unknown"],
                       c.handle["online"] = Nowhere, "timer already started")
           r == HandleWatchStreamStart(c, a)
<1>1. CASE c.failures # 0
  BY <1>1 DEF HandleWatchStreamStart
<1>2. CASE c.failures = 0
  <2>1. /\ d \in Conn /\ d.online = "Unknown" /\ d.died = c.died
        /\ d.enabled = c.enabled /\ d.watched = c.watched /\ d.pending = c.pending
        /\ d.closes = c.closes /\ d.failures = c.failures
        /\ d.stream = c.stream /\ d.asked = c.asked
        /\ d.slot = c.slot /\ d.handle = c.handle
    BY DEF Assert, Conn
  <2>2. r = EnqueueAfterDelay(d, "online", a)
    BY <1>2 DEF HandleWatchStreamStart
  <2> HIDE DEF d, r
  <2>3. /\ r \in Conn /\ Rest(r) = Rest(d)
        /\ r.stream = d.stream /\ r.asked = d.asked /\ r.died = d.died
        /\ r.slot = [d.slot EXCEPT !["online"] = a]
        /\ r.handle = [d.handle EXCEPT !["online"] = a]
    BY Timers, <2>1, <2>2, EnqueueType
  <2>4. c.slot \in [Timer -> Place] /\ c.handle \in [Timer -> Place]
    BY DEF Conn
  <2> QED
    BY Timers, <1>2, <2>1, <2>3, <2>4 DEF Rest, r
<1> QED
  BY <1>1, <1>2

\* A stream that may be started and is wanted is under way afterwards.
LEMMA StartGood ==
    ASSUME NEW c \in Conn, Ready(c), c.watched, NEW at \in Addresses
    PROVE  LET r == StartWatchStream(c, at)
           IN  /\ r \in Conn /\ Good(r) /\ r.died = c.died /\ r.stream # "Open"
               /\ r.enabled = c.enabled /\ r.watched /\ r.closes = c.closes
<1> DEFINE d == [c EXCEPT !.pending = Nothing]
           e == Start(d, at)
           r == StartWatchStream(c, at)
<1>1. /\ d \in Conn /\ Rest(d) = Rest(c) /\ d.stream = c.stream /\ d.asked = c.asked
      /\ d.died = c.died /\ d.slot = c.slot /\ d.handle = c.handle
  BY DEF Conn, Rest, Ready, Closed, Pending, Nothing
<1>2. r = HandleWatchStreamStart(e, at["online"])
  BY DEF StartWatchStream
<1>3. at["online"] \in Address /\ at["backoff"] \in Address /\ at["online"] # at["backoff"]
  BY Timers DEF Addresses
<1>4. /\ c.stream \in {"Initial", "Error"} /\ c.slot["online"] = Nowhere /\ c.handle["online"] = Nowhere
      /\ c.slot["backoff"] = Nowhere /\ c.handle["backoff"] = Nowhere
      /\ c.closes \in Nat /\ c.asked \subseteq 0..c.closes /\ c.closes \notin c.asked
      /\ c.failures \in Nat /\ c.failures <= c.closes
      /\ c.pending = Nothing
      /\ \/ c.online = "Unknown" /\ c.failures = 0
         \/ c.online = "Offline" /\ c.failures # 0
  BY DEF Ready, Closed, Conn
<1> HIDE DEF d, r
<1>5. /\ e \in Conn /\ Rest(e) = Rest(d) /\ e.died = d.died
      /\ e.slot["online"] = Nowhere /\ e.handle["online"] = Nowhere
      /\ e.asked \subseteq 0..c.closes
      /\ \/ /\ e.stream = "Starting" /\ c.closes \in e.asked
            /\ e.slot["backoff"] = Nowhere /\ e.handle["backoff"] = Nowhere
         \/ /\ e.stream = "Backoff" /\ c.closes \notin e.asked
            /\ e.slot["backoff"] = at["backoff"] /\ e.handle["backoff"] = at["backoff"]
  <2>1. CASE c.stream = "Initial"
    <3>1. /\ e \in Conn /\ Rest(e) = Rest(d)
          /\ e.stream = "Starting" /\ e.asked = d.asked \cup {d.closes}
          /\ e.slot = d.slot /\ e.handle = d.handle /\ e.died = d.died
      BY <1>1, <2>1, StartInitial
    <3>2. d.closes = c.closes
      BY <1>1 DEF Rest
    <3> HIDE DEF e
    <3> QED
      BY <1>1, <1>4, <3>1, <3>2
  <2>2. CASE c.stream = "Error"
    <3>1. /\ e \in Conn /\ Rest(e) = Rest(d)
          /\ e.stream = "Backoff" /\ e.asked = d.asked /\ e.died = d.died
          /\ e.slot["backoff"] = at["backoff"] /\ e.handle["backoff"] = at["backoff"]
          /\ e.slot["online"] = d.slot["online"] /\ e.handle["online"] = d.handle["online"]
      BY <1>1, <1>4, <2>2, StartError
    <3> HIDE DEF e
    <3> QED
      BY <1>1, <1>4, <3>1
  <2> QED
    BY <1>4, <2>1, <2>2
<1> HIDE DEF e
<1>6. /\ r \in Conn /\ r.died = e.died
      /\ r.enabled = e.enabled /\ r.watched = e.watched /\ r.pending = e.pending
      /\ r.closes = e.closes /\ r.failures = e.failures
      /\ r.stream = e.stream /\ r.asked = e.asked
      /\ r.slot["backoff"] = e.slot["backoff"] /\ r.handle["backoff"] = e.handle["backoff"]
      /\ IF e.failures = 0
         THEN r.online = "Unknown" /\ r.slot["online"] = at["online"] /\ r.handle["online"] = at["online"]
         ELSE r = e
  BY <1>2, <1>3, <1>5, TrackerStart
<1>7. /\ e.enabled = c.enabled /\ e.watched /\ e.pending = Nothing /\ e.closes = c.closes
      /\ e.failures = c.failures /\ e.online = c.online
  BY <1>1, <1>4, <1>5 DEF Rest
<1>8. Good(r)
  BY <1>3, <1>4, <1>5, <1>6, <1>7, ConnectionAssumption DEF Good, Sound
<1> QED
  BY <1>1, <1>5, <1>6, <1>7, <1>8 DEF r

\* A failed attempt leaves a stream that may be started again.
LEMMA FailureReady ==
    ASSUME NEW c \in Conn, Closed(c), c.failures < c.closes
    PROVE  LET r == HandleWatchStreamFailure(c)
           IN  /\ r \in Conn /\ Ready(r) /\ r.died = c.died
               /\ r.enabled = c.enabled /\ r.watched = c.watched /\ r.closes = c.closes
<1> DEFINE d == Cancel(c, "online")
           n == c.failures + 1
           r == HandleWatchStreamFailure(c)
<1>0. c.slot \in [Timer -> Place] /\ c.handle \in [Timer -> Place] /\ c.failures \in Nat /\ c.closes \in Nat
  BY DEF Conn
<1>1. CASE c.online = "Online"
  <2>1. c.failures = 0 /\ c.handle["online"] = Nowhere /\ c.slot["online"] = Nowhere
    BY <1>1 DEF Closed
  <2>2. r = [c EXCEPT !.online = "Unknown"]
    BY <1>1, <2>1 DEF HandleWatchStreamFailure, Assert
  <2> HIDE DEF r
  <2>3. /\ r \in Conn /\ r.online = "Unknown" /\ r.died = c.died
        /\ r.enabled = c.enabled /\ r.watched = c.watched /\ r.pending = c.pending
        /\ r.closes = c.closes /\ r.failures = c.failures
        /\ r.stream = c.stream /\ r.asked = c.asked /\ r.slot = c.slot /\ r.handle = c.handle
    BY <2>2 DEF Conn
  <2> QED
    BY <2>1, <2>3 DEF Ready, Closed, r
<1>2. CASE c.online # "Online"
  <2>1. /\ d \in Conn /\ Rest(d) = Rest(c)
        /\ d.stream = c.stream /\ d.asked = c.asked /\ d.died = c.died
        /\ d.slot = [u \in Timer |-> IF c.slot[u] = c.handle["online"] THEN Nowhere ELSE c.slot[u]]
        /\ d.handle = [c.handle EXCEPT !["online"] = Nowhere]
    BY Timers, CancelType
  <2>2. r = [d EXCEPT !.online = "Offline", !.failures = n] /\ n \in Nat
    BY <1>0, <1>2 DEF HandleWatchStreamFailure
  <2> HIDE DEF d, r, n
  <2>3. /\ r \in Conn /\ r.online = "Offline" /\ r.died = d.died
        /\ r.enabled = d.enabled /\ r.watched = d.watched /\ r.pending = d.pending
        /\ r.closes = d.closes /\ r.failures = n
        /\ r.stream = d.stream /\ r.asked = d.asked /\ r.slot = d.slot /\ r.handle = d.handle
    BY <2>1, <2>2 DEF Conn
  <2>4. /\ d.slot["online"] = Nowhere /\ d.handle["online"] = Nowhere
        /\ d.slot["backoff"] = Nowhere /\ d.handle["backoff"] = Nowhere
    BY Timers, <1>0, <2>1 DEF Closed
  <2> QED
    BY <1>0, <2>1, <2>3, <2>4 DEF Ready, Closed, Rest, r, n
<1> QED
  BY <1>1, <1>2

\* So does the news that nothing is known.
LEMMA UpdateType ==
    ASSUME NEW c \in Conn, NEW state \in {"Unknown", "Online", "Offline"}
    PROVE  LET r == UpdateState(c, state)
           IN  /\ r \in Conn /\ r.online = state /\ r.failures = 0 /\ r.died = c.died
               /\ r.enabled = c.enabled /\ r.watched = c.watched /\ r.pending = c.pending
               /\ r.closes = c.closes /\ r.stream = c.stream /\ r.asked = c.asked
               /\ r.slot = [u \in Timer |-> IF c.slot[u] = c.handle["online"] THEN Nowhere ELSE c.slot[u]]
               /\ r.handle = [c.handle EXCEPT !["online"] = Nowhere]
<1> DEFINE d == Cancel(c, "online")
           r == UpdateState(c, state)
<1>1. /\ d \in Conn /\ Rest(d) = Rest(c)
      /\ d.stream = c.stream /\ d.asked = c.asked /\ d.died = c.died
      /\ d.slot = [u \in Timer |-> IF c.slot[u] = c.handle["online"] THEN Nowhere ELSE c.slot[u]]
      /\ d.handle = [c.handle EXCEPT !["online"] = Nowhere]
  BY Timers, CancelType
<1>2. r = [d EXCEPT !.online = state, !.failures = 0]
  BY DEF UpdateState
<1> HIDE DEF d, r
<1>3. /\ r \in Conn /\ r.online = state /\ r.failures = 0 /\ r.died = d.died
      /\ r.enabled = d.enabled /\ r.watched = d.watched /\ r.pending = d.pending
      /\ r.closes = d.closes /\ r.stream = d.stream /\ r.asked = d.asked
      /\ r.slot = d.slot /\ r.handle = d.handle
  BY <1>1, <1>2 DEF Conn
<1> QED
  BY <1>1, <1>3 DEF Rest, r

LEMMA UpdateReady ==
    ASSUME NEW c \in Conn, Closed(c)
    PROVE  Ready(UpdateState(c, "Unknown"))
<1> DEFINE r == UpdateState(c, "Unknown")
<1>1. /\ r \in Conn /\ r.online = "Unknown" /\ r.failures = 0 /\ r.died = c.died
      /\ r.pending = c.pending
      /\ r.closes = c.closes /\ r.stream = c.stream /\ r.asked = c.asked
      /\ r.slot = [u \in Timer |-> IF c.slot[u] = c.handle["online"] THEN Nowhere ELSE c.slot[u]]
      /\ r.handle = [c.handle EXCEPT !["online"] = Nowhere]
  BY UpdateType
<1> HIDE DEF r
<1>2. c.slot \in [Timer -> Place] /\ c.handle \in [Timer -> Place] /\ c.closes \in Nat
  BY DEF Conn
<1>3. /\ r.slot["online"] = Nowhere /\ r.handle["online"] = Nowhere
      /\ r.slot["backoff"] = Nowhere /\ r.handle["backoff"] = Nowhere
  BY Timers, <1>1, <1>2 DEF Closed
<1>4. Ready(r)
  BY <1>1, <1>2, <1>3 DEF Ready, Closed
<1> QED
  BY <1>4 DEF r

\* What Close makes of the stream before it tells the store, and what the
\* store starts from.
Shut(c, status) ==
    [Cancel(Assert(c, IsStarted(c), "not started"), "backoff") EXCEPT
        !.closes = @ + 1,
        !.base = IF status = "ok" THEN 0 ELSE IF status = "exhausted" THEN MaxDelay ELSE @,
        !.stream = IF status = "ok" THEN "Initial" ELSE "Error"]

Dropped(c, status) == [Shut(c, status) EXCEPT !.pending = Nothing]

\* A stream that is shut is closed, whatever it was doing; the cancelled retry
\* takes no other operation with it.
LEMMA ShutClosed ==
    ASSUME NEW c \in Conn, Sound(c), IsStarted(c), NEW status \in Status
    PROVE  LET r == Dropped(c, status)
           IN  /\ r \in Conn /\ Closed(r) /\ r.died = c.died
               /\ r.enabled = c.enabled /\ r.watched = c.watched
               /\ r.closes = c.closes + 1 /\ r.failures < r.closes
               /\ ShouldStartWatchStream(r) <=> c.enabled /\ c.watched
               /\ ShouldStartWatchStream(Shut(c, status)) <=> c.enabled /\ c.watched
<1> DEFINE d == Cancel(c, "backoff")
           stream == IF status = "ok" THEN "Initial" ELSE "Error"
           base == IF status = "ok" THEN 0 ELSE IF status = "exhausted" THEN MaxDelay ELSE d.base
           x == Shut(c, status)
           r == Dropped(c, status)
<1>1. /\ d \in Conn /\ Rest(d) = Rest(c)
      /\ d.stream = c.stream /\ d.asked = c.asked /\ d.died = c.died
      /\ d.slot = [u \in Timer |-> IF c.slot[u] = c.handle["backoff"] THEN Nowhere ELSE c.slot[u]]
      /\ d.handle = [c.handle EXCEPT !["backoff"] = Nowhere]
  BY Timers, CancelType
<1>2. /\ x = [d EXCEPT !.closes = d.closes + 1, !.base = base, !.stream = stream]
      /\ r = [x EXCEPT !.pending = Nothing]
  BY DEF Shut, Dropped, Assert
<1> HIDE DEF d, x, r
<1>3. stream \in {"Initial", "Error"} /\ base \in Delay /\ d.closes + 1 \in Nat
  BY <1>1, ConnectionAssumption DEF Delay, Conn
<1> HIDE DEF stream, base
<1>a. /\ x \in Conn /\ x.died = d.died /\ x.enabled = d.enabled /\ x.watched = d.watched
      /\ x.closes = d.closes + 1 /\ x.failures = d.failures
      /\ x.stream = stream /\ x.asked = d.asked /\ x.online = d.online
      /\ x.slot = d.slot /\ x.handle = d.handle
  BY <1>1, <1>2, <1>3 DEF Conn
<1>4. /\ r \in Conn /\ r.died = x.died /\ r.enabled = x.enabled /\ r.watched = x.watched
      /\ r.pending = Nothing /\ r.closes = x.closes /\ r.failures = x.failures
      /\ r.stream = x.stream /\ r.asked = x.asked /\ r.online = x.online
      /\ r.slot = x.slot /\ r.handle = x.handle
  BY <1>2, <1>a DEF Conn, Pending, Nothing
<1>5. c.slot \in [Timer -> Place] /\ c.handle \in [Timer -> Place] /\ c.closes \in Nat /\ c.failures \in Nat
  BY DEF Conn
<1>6. /\ d.slot["backoff"] = Nowhere /\ d.handle["backoff"] = Nowhere
      /\ d.slot["online"] = c.slot["online"] /\ d.handle["online"] = c.handle["online"]
  BY Timers, <1>1, <1>5 DEF Sound
<1>7. Closed(r)
  BY <1>1, <1>3, <1>a, <1>4, <1>5, <1>6 DEF Closed, Sound, Rest
<1>8. /\ ShouldStartWatchStream(r) <=> c.enabled /\ c.watched
      /\ ShouldStartWatchStream(x) <=> c.enabled /\ c.watched
  BY <1>1, <1>3, <1>a, <1>4 DEF ShouldStartWatchStream, IsStarted, Rest
<1> QED
  BY <1>1, <1>a, <1>4, <1>5, <1>7, <1>8 DEF Rest, r, x, Sound

\* What the store does about a stream that is shut.
LEMMA CloseCases ==
    ASSUME NEW c, IsStarted(c), NEW status, NEW at
    PROVE  LET s == Dropped(c, status)
               dead == [s EXCEPT !.died = "stopped while needed"]
               needed == ShouldStartWatchStream(Shut(c, status))
           IN  /\ ~(status = "ok" /\ needed) =>
                      Close(c, status, at) =
                          IF s.died # "no" THEN s
                          ELSE IF ShouldStartWatchStream(s)
                          THEN StartWatchStream(HandleWatchStreamFailure(s), at)
                          ELSE UpdateState(s, "Unknown")
               /\ status = "ok" /\ needed /\ dead.died # "no" => Close(c, status, at) = dead
<1> DEFINE x == Shut(c, status)
           s == Dropped(c, status)
           needed == ShouldStartWatchStream(x)
<1>1. Close(c, status, at) = OnWatchStreamClose(x, status, at)
  BY DEF Close, Shut
<1>2. s = [x EXCEPT !.pending = Nothing]
  BY DEF Dropped
<1> HIDE DEF x, s
<1>3. CASE ~(status = "ok" /\ needed)
  BY <1>1, <1>2, <1>3 DEF OnWatchStreamClose, Assert, x, s
<1>4. CASE status = "ok" /\ needed
  BY <1>1, <1>2, <1>4 DEF OnWatchStreamClose, Assert, x, s
<1> QED
  BY <1>3, <1>4

\* A stream that is wanted is closed with an error and goes on: it is under
\* way again, and no assertion has failed.
LEMMA CloseRestarts ==
    ASSUME NEW c \in Conn, Sound(c), IsStarted(c), c.enabled, c.watched, c.died = "no",
           NEW status \in Status, status # "ok", NEW at \in Addresses
    PROVE  LET r == Close(c, status, at)
           IN  /\ r \in Conn /\ Good(r) /\ r.died = "no" /\ r.stream # "Open"
               /\ r.enabled /\ r.watched /\ r.closes = c.closes + 1
<1> DEFINE s == Dropped(c, status)
           f == HandleWatchStreamFailure(s)
<1>1. /\ s \in Conn /\ Closed(s) /\ s.died = "no" /\ s.enabled /\ s.watched
      /\ s.closes = c.closes + 1 /\ s.failures < s.closes /\ ShouldStartWatchStream(s)
  BY ShutClosed
<1>2. Close(c, status, at) = StartWatchStream(f, at)
  BY <1>1, CloseCases
<1> HIDE DEF s
<1>3. f \in Conn /\ Ready(f) /\ f.died = "no" /\ f.enabled /\ f.watched /\ f.closes = s.closes
  BY <1>1, FailureReady
<1> HIDE DEF f
<1> QED
  BY <1>1, <1>2, <1>3, StartGood

\* One that is not wanted is left at rest.
LEMMA CloseStops ==
    ASSUME NEW c \in Conn, Sound(c), IsStarted(c), ~(c.enabled /\ c.watched), c.died = "no",
           NEW status \in Status, NEW at \in Addresses
    PROVE  LET r == Close(c, status, at)
           IN  /\ r \in Conn /\ Ready(r) /\ r.died = "no" /\ r.online = "Unknown"
               /\ r.enabled = c.enabled /\ r.watched = c.watched /\ r.closes = c.closes + 1
<1> DEFINE s == Dropped(c, status)
<1>1. /\ s \in Conn /\ Closed(s) /\ s.died = "no"
      /\ s.enabled = c.enabled /\ s.watched = c.watched /\ s.closes = c.closes + 1
      /\ ~ShouldStartWatchStream(s) /\ ~ShouldStartWatchStream(Shut(c, status))
  BY ShutClosed
<1>2. Close(c, status, at) = UpdateState(s, "Unknown")
  BY <1>1, CloseCases
<1> HIDE DEF s
<1>3. Ready(UpdateState(s, "Unknown"))
  BY <1>1, UpdateReady
<1>4. LET r == UpdateState(s, "Unknown")
      IN  /\ r \in Conn /\ r.online = "Unknown" /\ r.died = s.died
          /\ r.enabled = s.enabled /\ r.watched = s.watched /\ r.closes = s.closes
  BY <1>1, UpdateType
<1> QED
  BY <1>1, <1>2, <1>3, <1>4

\* A stream that is wanted and is closed without an error ends the process,
\* with nothing half done.
LEMMA CloseDies ==
    ASSUME NEW c \in Conn, Sound(c), IsStarted(c), c.enabled, c.watched, c.died = "no",
           NEW at \in Addresses
    PROVE  LET r == Close(c, "ok", at)
           IN  /\ r \in Conn /\ Bounded(r) /\ r.died # "no"
               /\ r.enabled /\ r.closes = c.closes + 1
<1> DEFINE s == Dropped(c, "ok")
           r == [s EXCEPT !.died = "stopped while needed"]
<1>1. /\ s \in Conn /\ Closed(s) /\ s.died = "no" /\ s.enabled /\ s.watched
      /\ s.closes = c.closes + 1 /\ ShouldStartWatchStream(Shut(c, "ok"))
  BY ShutClosed DEF Status
<1>2. r.died = "stopped while needed"
  BY <1>1 DEF Conn
<1>3. Close(c, "ok", at) = r
  <2>1. \A status : status = "ok" => Close(c, status, at) = [Dropped(c, status) EXCEPT !.died = "stopped while needed"]
    <3> SUFFICES ASSUME NEW status, status = "ok"
                 PROVE  Close(c, status, at) = [Dropped(c, status) EXCEPT !.died = "stopped while needed"]
      OBVIOUS
    <3> QED
      BY <1>1, <1>2, CloseCases
  <2> QED
    BY <2>1
<1> HIDE DEF s
<1>4. /\ r \in Conn /\ r.enabled = s.enabled
      /\ r.closes = s.closes /\ r.asked = s.asked /\ r.failures = s.failures /\ r.slot = s.slot
  BY <1>1 DEF Conn, HardAsserts
<1> HIDE DEF r
<1>5. Bounded(r)
  BY <1>1, <1>4, GoodIsBounded DEF Bounded
<1> QED
  BY <1>1, <1>2, <1>3, <1>4, <1>5

----------------------------------------------------------------------------
(* Handlers.                                                                *)

\* A connection nobody has used.
Fresh(c) == c.stream = "Initial" /\ c.failures = 0 /\ c.online = "Unknown" /\ c.slot["online"] = Nowhere

\* A live connection between two handlers.
Alive(c) == c \in Conn /\ Good(c) /\ c.died = "no" /\ c.enabled /\ c.closes <= MaxCloses

\* What a handler that does not open the stream makes of it.
Keeps(c, d) ==
    /\ Alive(d)
    /\ d.watched = c.watched
    /\ Fresh(c) => Fresh(d)
    /\ d.stream = "Open" => c.stream = "Open" /\ d.pending = c.pending

\* However a stream is closed, it goes on or is at rest, unless a wanted one is
\* closed without an error.
LEMMA CloseKeeps ==
    ASSUME NEW c \in Conn, Sound(c), IsStarted(c), c.enabled, c.died = "no",
           c.closes < MaxCloses, NEW status \in Status, ~(status = "ok" /\ c.watched),
           NEW at \in Addresses
    PROVE  Keeps(c, Close(c, status, at))
<1> DEFINE r == Close(c, status, at)
<1>1. ~Fresh(c)
  BY DEF Fresh, IsStarted
<1>2. c.closes \in Nat /\ c.watched \in BOOLEAN /\ MaxCloses \in Nat
  BY ConnectionAssumption DEF Conn
<1>3. CASE c.watched
  <2>1. /\ r \in Conn /\ Good(r) /\ r.died = "no" /\ r.stream # "Open"
        /\ r.enabled /\ r.watched /\ r.closes = c.closes + 1
    BY <1>3, CloseRestarts
  <2>2. r.watched = c.watched
    BY <1>2, <1>3, <2>1 DEF Conn
  <2> HIDE DEF r
  <2>3. Alive(r)
    BY <1>2, <2>1 DEF Alive
  <2>4. Keeps(c, r)
    BY <1>1, <2>1, <2>2, <2>3 DEF Keeps
  <2> QED
    BY <2>4 DEF r
<1>4. CASE ~c.watched
  <2>1. /\ r \in Conn /\ Ready(r) /\ r.died = "no"
        /\ r.enabled = c.enabled /\ r.watched = c.watched /\ r.closes = c.closes + 1
    BY <1>4, CloseStops
  <2> HIDE DEF r
  <2>2. Good(r) /\ r.stream # "Open"
    BY <1>4, <2>1, ReadyAtRest DEF Ready, Closed
  <2>3. r.enabled
    BY <2>1
  <2> QED
    BY <1>1, <1>2, <2>1, <2>2, <2>3 DEF Keeps, Alive, r
<1> QED
  BY <1>2, <1>3, <1>4

\* A request for a token that has been answered is gone.
LEMMA TokenGone ==
    ASSUME NEW c \in Conn, Good(c), NEW n \in c.asked
    PROVE  LET r == [c EXCEPT !.asked = @ \ {n}]
           IN  /\ r \in Conn /\ Sound(r)
               /\ n # c.closes => Good(r)
               /\ n = c.closes => c.stream = "Starting" /\ c.closes \notin r.asked
               /\ r.enabled = c.enabled /\ r.watched = c.watched /\ r.pending = c.pending
               /\ r.stream = c.stream /\ r.closes = c.closes /\ r.online = c.online
               /\ r.failures = c.failures /\ r.slot = c.slot /\ r.handle = c.handle
               /\ r.died = c.died
<1> DEFINE r == [c EXCEPT !.asked = @ \ {n}]
<1>1. /\ r \in Conn /\ r.asked = c.asked \ {n}
      /\ r.enabled = c.enabled /\ r.watched = c.watched /\ r.pending = c.pending
      /\ r.stream = c.stream /\ r.closes = c.closes /\ r.online = c.online
      /\ r.failures = c.failures /\ r.slot = c.slot /\ r.handle = c.handle
      /\ r.died = c.died
  BY DEF Conn
<1> HIDE DEF r
<1>2. Sound(r)
  BY <1>1 DEF Good, Sound
<1>3. n # c.closes => Good(r)
  BY <1>1, <1>2 DEF Good
<1>4. n = c.closes => c.stream = "Starting" /\ c.closes \notin r.asked
  BY <1>1 DEF Good
<1> QED
  BY <1>1, <1>2, <1>3, <1>4 DEF r

\* A response finds the stream open and leaves it so.
LEMMA ResponseGood ==
    ASSUME NEW c \in Conn, Good(c), c.stream = "Open", c.died = "no"
    PROVE  LET r == OnStreamResponse(c)
           IN  /\ r \in Conn /\ Good(r) /\ r.died = "no"
               /\ r.enabled = c.enabled /\ r.watched = c.watched /\ r.closes = c.closes
               /\ r.stream = "Open" /\ r.pending = c.pending
<1> DEFINE d == [c EXCEPT !.base = 0]
           r == OnStreamResponse(c)
<1>1. /\ d \in Conn /\ d.died = c.died
      /\ d.enabled = c.enabled /\ d.watched = c.watched /\ d.pending = c.pending
      /\ d.closes = c.closes /\ d.stream = c.stream /\ d.asked = c.asked
      /\ d.slot = c.slot /\ d.handle = c.handle
  BY DEF Conn, Delay
<1> HIDE DEF d
<1>2. /\ r \in Conn /\ r.online = "Online" /\ r.failures = 0 /\ r.died = d.died
      /\ r.enabled = d.enabled /\ r.watched = d.watched /\ r.pending = d.pending
      /\ r.closes = d.closes /\ r.stream = d.stream /\ r.asked = d.asked
      /\ r.slot = [u \in Timer |-> IF d.slot[u] = d.handle["online"] THEN Nowhere ELSE d.slot[u]]
      /\ r.handle = [d.handle EXCEPT !["online"] = Nowhere]
  BY <1>1, UpdateType DEF OnStreamResponse, d
<1> HIDE DEF r
<1>3. c.slot \in [Timer -> Place] /\ c.handle \in [Timer -> Place] /\ c.closes \in Nat
  BY DEF Conn
<1>4. /\ r.slot["online"] = Nowhere /\ r.handle["online"] = Nowhere
      /\ r.slot["backoff"] = Nowhere
  BY Timers, <1>1, <1>2, <1>3 DEF Good, Sound
<1>5. Good(r)
  BY <1>1, <1>2, <1>3, <1>4 DEF Good, Sound
<1> QED
  BY <1>1, <1>2, <1>5 DEF r

\* So it does when the response ends the listening.
LEMMA UnwatchedGood ==
    ASSUME NEW c \in Conn, Good(c), c.stream = "Open"
    PROVE  LET r == [c EXCEPT !.watched = FALSE, !.pending.removed = {}]
           IN  /\ r \in Conn /\ Good(r) /\ r.died = c.died
               /\ r.enabled = c.enabled /\ ~r.watched /\ r.closes = c.closes
<1> DEFINE r == [c EXCEPT !.watched = FALSE, !.pending.removed = {}]
<1>1. /\ r \in Conn /\ r.asked = c.asked
      /\ r.enabled = c.enabled /\ ~r.watched
      /\ r.stream = c.stream /\ r.closes = c.closes /\ r.online = c.online
      /\ r.failures = c.failures /\ r.slot = c.slot /\ r.handle = c.handle
      /\ r.died = c.died
  BY DEF Conn, Pending
<1> HIDE DEF r
<1>2. Good(r)
  BY <1>1 DEF Good, Sound
<1> QED
  BY <1>1, <1>2 DEF r

\* The first attempt of a process.
LEMMA ListenStep ==
    ASSUME Alive(conn), Fresh(conn), ~conn.watched, Listen
    PROVE  Alive(conn') /\ conn'.watched /\ conn'.stream # "Open"
<1> DEFINE c == [conn EXCEPT !.watched = TRUE]
<1>1. PICK at \in Addresses : conn' = StartWatchStream(c, at)
  BY DEF Listen
<1>2. /\ c \in Conn /\ c.watched /\ c.asked = conn.asked
      /\ c.enabled = conn.enabled /\ c.pending = conn.pending
      /\ c.stream = conn.stream /\ c.closes = conn.closes /\ c.online = conn.online
      /\ c.failures = conn.failures /\ c.slot = conn.slot /\ c.handle = conn.handle
      /\ c.died = conn.died
  BY DEF Alive, Conn
<1> HIDE DEF c
<1>3. Ready(c)
  BY <1>2 DEF Alive, Fresh, Ready, Closed, Good, Sound
<1>4. /\ conn' \in Conn /\ Good(conn') /\ conn'.died = c.died /\ conn'.stream # "Open"
      /\ conn'.enabled = c.enabled /\ conn'.watched /\ conn'.closes = c.closes
  BY <1>1, <1>2, <1>3, StartGood
<1>5. conn'.enabled
  BY <1>2, <1>4 DEF Alive
<1> QED
  BY <1>2, <1>4, <1>5 DEF Alive

\* A token opens the stream that waits for it.
LEMMA TokenAnsweredStep ==
    ASSUME Alive(conn), NEW n \in conn.asked, TokenAnswered(n)
    PROVE  \/ Keeps(conn, conn') /\ UNCHANGED told
           \/ /\ Alive(conn') /\ ~Fresh(conn) /\ conn'.watched = conn.watched
              /\ conn'.pending = Nothing /\ told' = cache
<1> DEFINE c == [conn EXCEPT !.asked = @ \ {n}]
           r == [c EXCEPT !.stream = "Open"]
<1>1. conn \in Conn /\ Good(conn) /\ conn.died = "no" /\ conn.enabled
  BY DEF Alive
<1>2. /\ c \in Conn /\ Sound(c)
      /\ n # conn.closes => Good(c)
      /\ n = conn.closes => conn.stream = "Starting" /\ conn.closes \notin c.asked
      /\ c.enabled = conn.enabled /\ c.watched = conn.watched /\ c.pending = conn.pending
      /\ c.stream = conn.stream /\ c.closes = conn.closes /\ c.online = conn.online
      /\ c.failures = conn.failures /\ c.slot = conn.slot /\ c.handle = conn.handle
      /\ c.died = conn.died
  BY <1>1, TokenGone
<1>3. c.enabled
  BY <1>1, <1>2
<1>4. CASE n # conn.closes
  <2>1. conn' = c /\ UNCHANGED told
    BY <1>4 DEF TokenAnswered, Handle
  <2> HIDE DEF c
  <2>2. Alive(c) /\ (Fresh(conn) => Fresh(c))
    BY <1>2, <1>3, <1>4 DEF Alive, Fresh
  <2>3. Keeps(conn, c)
    BY <1>2, <2>2 DEF Keeps
  <2> QED
    BY <2>1, <2>3
<1>5. CASE n = conn.closes
  <2>1. conn' = [Assert(c, c.stream = "Starting", "not starting") EXCEPT !.stream = "Open"] /\ told' = cache
    BY <1>5 DEF TokenAnswered, Handle
  <2>2. conn' = r
    BY <1>2, <1>5, <2>1 DEF Assert
  <2> HIDE DEF c
  <2>3. /\ r \in Conn /\ r.asked = c.asked
        /\ r.enabled = c.enabled /\ r.watched = c.watched /\ r.pending = c.pending
        /\ r.stream = "Open" /\ r.closes = c.closes /\ r.online = c.online
        /\ r.failures = c.failures /\ r.slot = c.slot /\ r.handle = c.handle
        /\ r.died = c.died
    BY <1>2 DEF Conn
  <2> HIDE DEF r
  <2>4. Good(r) /\ r.pending = Nothing
    BY <1>2, <1>5, <2>3 DEF Good, Sound
  <2>5. r.enabled
    BY <1>3, <2>3
  <2>6. Alive(r)
    BY <1>2, <2>3, <2>4, <2>5 DEF Alive
  <2>7. ~Fresh(conn)
    BY <1>2, <1>5 DEF Fresh
  <2> QED
    BY <1>2, <2>1, <2>2, <2>3, <2>4, <2>6, <2>7
<1> QED
  BY <1>4, <1>5

\* A token that is refused closes the stream that waits for it.
LEMMA TokenRefusedStep ==
    ASSUME Alive(conn), NEW n \in conn.asked, TokenRefused(n)
    PROVE  Keeps(conn, conn')
<1> DEFINE c == [conn EXCEPT !.asked = @ \ {n}]
<1>1. conn \in Conn /\ Good(conn) /\ conn.died = "no" /\ conn.enabled
  BY DEF Alive
<1>2. /\ c \in Conn /\ Sound(c)
      /\ n # conn.closes => Good(c)
      /\ n = conn.closes => conn.stream = "Starting" /\ conn.closes \notin c.asked
      /\ c.enabled = conn.enabled /\ c.watched = conn.watched /\ c.pending = conn.pending
      /\ c.stream = conn.stream /\ c.closes = conn.closes /\ c.online = conn.online
      /\ c.failures = conn.failures /\ c.slot = conn.slot /\ c.handle = conn.handle
      /\ c.died = conn.died
  BY <1>1, TokenGone
<1>3. c.enabled
  BY <1>1, <1>2
<1>4. CASE n # conn.closes
  <2>1. conn' = c
    BY <1>4 DEF TokenRefused, Handle
  <2> HIDE DEF c
  <2>2. Alive(c) /\ (Fresh(conn) => Fresh(c))
    BY <1>2, <1>3, <1>4 DEF Alive, Fresh
  <2>3. Keeps(conn, c)
    BY <1>2, <2>2 DEF Keeps
  <2> QED
    BY <2>1, <2>3
<1>5. CASE n = conn.closes
  <2>1. PICK at \in Addresses : CanClose /\ conn' = Close(c, "unavailable", at)
    BY <1>5 DEF TokenRefused, Handle
  <2> HIDE DEF c
  <2>2. IsStarted(c) /\ c.died = "no" /\ c.closes < MaxCloses
    BY <1>1, <1>2, <1>5, <2>1 DEF IsStarted, CanClose
  <2>3. Keeps(c, conn')
    BY <1>2, <1>3, <2>1, <2>2, CloseKeeps DEF Status
  <2>4. ~Fresh(conn)
    BY <1>2, <1>5 DEF Fresh
  <2> QED
    BY <1>2, <2>3, <2>4 DEF Keeps
<1> QED
  BY <1>4, <1>5

\* A call that ends closes the stream; only the status "ok" of the server's own
\* fails an assertion.
LEMMA FinishedStep ==
    ASSUME Alive(conn), NEW status \in Status, StreamFinished(status)
    PROVE  \/ Keeps(conn, conn')
           \/ /\ status = "ok" /\ conn'.died # "no"
              /\ conn' \in Conn /\ Bounded(conn') /\ conn'.enabled /\ conn'.closes <= MaxCloses
<1>1. PICK at \in Addresses : conn' = Close(conn, status, at)
  BY DEF StreamFinished, Handle
<1>2. /\ conn \in Conn /\ Sound(conn) /\ conn.died = "no" /\ conn.enabled
      /\ IsStarted(conn) /\ conn.closes < MaxCloses
  BY DEF Alive, Good, StreamFinished, CanClose, IsStarted
<1>3. CASE status = "ok" /\ conn.watched
  <2>1. LET r == Close(conn, "ok", at)
        IN  /\ r \in Conn /\ Bounded(r) /\ r.died # "no"
            /\ r.enabled /\ r.closes = conn.closes + 1
    BY <1>2, <1>3, CloseDies
  <2>2. conn.closes \in Nat /\ MaxCloses \in Nat
    BY <1>2, ConnectionAssumption DEF Conn
  <2>3. conn' = Close(conn, "ok", at)
    BY <1>1, <1>3
  <2> QED
    BY <1>2, <1>3, <2>1, <2>2, <2>3
<1>4. CASE ~(status = "ok" /\ conn.watched)
  BY <1>1, <1>2, <1>4, CloseKeeps
<1> QED
  BY <1>3, <1>4

\* The tracker's timer fires only while the state is unknown.
LEMMA OnlineTimeoutStep ==
    ASSUME Alive(conn), OnlineTimeout
    PROVE  Keeps(conn, conn')
<1>1. conn \in Conn /\ Good(conn) /\ conn.died = "no" /\ conn.enabled /\ conn.slot["online"] # Nowhere
  BY DEF Alive, OnlineTimeout
<1>2. conn.online = "Unknown"
  BY <1>1 DEF Good, Sound
<1>3. conn' = [conn EXCEPT !.slot["online"] = Nowhere, !.handle["online"] = Nowhere, !.online = "Offline"]
  BY <1>2 DEF OnlineTimeout, Handle, Assert
<1>4. conn.slot \in [Timer -> Place] /\ conn.handle \in [Timer -> Place]
  BY <1>1 DEF Conn
<1>5. /\ conn' \in Conn /\ conn'.asked = conn.asked
      /\ conn'.enabled = conn.enabled /\ conn'.watched = conn.watched /\ conn'.pending = conn.pending
      /\ conn'.stream = conn.stream /\ conn'.closes = conn.closes /\ conn'.online = "Offline"
      /\ conn'.failures = conn.failures /\ conn'.died = conn.died
      /\ conn'.slot = [conn.slot EXCEPT !["online"] = Nowhere]
      /\ conn'.handle = [conn.handle EXCEPT !["online"] = Nowhere]
  BY <1>1, <1>3 DEF Conn, Place
<1>6. Good(conn')
  BY Timers, <1>1, <1>4, <1>5 DEF Good, Sound
<1>7. Alive(conn')
  BY <1>1, <1>5, <1>6 DEF Alive
<1> QED
  BY <1>1, <1>5, <1>7 DEF Keeps, Fresh

\* A retry asks for a token; its handle goes on naming the address, which no
\* other operation has.
LEMMA BackoffElapsedStep ==
    ASSUME Alive(conn), BackoffElapsed
    PROVE  Keeps(conn, conn')
<1> DEFINE c == [conn EXCEPT !.slot["backoff"] = Nowhere, !.stream = "Initial"]
<1>1. conn \in Conn /\ Good(conn) /\ conn.died = "no" /\ conn.enabled /\ conn.slot["backoff"] # Nowhere
  BY DEF Alive, BackoffElapsed
<1>2. conn.stream = "Backoff"
  BY <1>1 DEF Good, Sound
<1>3. PICK at \in Addresses : conn' = Start(c, at)
  BY <1>2 DEF BackoffElapsed, Handle, Assert
<1>4. conn.slot \in [Timer -> Place] /\ conn.handle \in [Timer -> Place] /\ conn.closes \in Nat
  BY <1>1 DEF Conn
<1>5. /\ c \in Conn /\ c.asked = conn.asked
      /\ c.enabled = conn.enabled /\ c.watched = conn.watched /\ c.pending = conn.pending
      /\ c.stream = "Initial" /\ c.closes = conn.closes /\ c.online = conn.online
      /\ c.failures = conn.failures /\ c.handle = conn.handle /\ c.died = conn.died
      /\ c.slot = [conn.slot EXCEPT !["backoff"] = Nowhere]
  BY <1>1 DEF Conn, Place
<1> HIDE DEF c
<1>6. /\ conn' \in Conn /\ Rest(conn') = Rest(c)
      /\ conn'.stream = "Starting" /\ conn'.asked = c.asked \cup {c.closes}
      /\ conn'.slot = c.slot /\ conn'.handle = c.handle /\ conn'.died = c.died
  BY <1>3, <1>5, StartInitial
<1>7. /\ conn'.enabled = conn.enabled /\ conn'.watched = conn.watched /\ conn'.pending = conn.pending
      /\ conn'.closes = conn.closes /\ conn'.online = conn.online /\ conn'.failures = conn.failures
  BY <1>5, <1>6 DEF Rest
<1>8. Good(conn')
  BY Timers, <1>1, <1>2, <1>4, <1>5, <1>6, <1>7 DEF Good, Sound
<1>9. Alive(conn')
  BY <1>1, <1>5, <1>6, <1>7, <1>8 DEF Alive
<1> QED
  BY <1>2, <1>6, <1>7, <1>9 DEF Keeps, Fresh

\* A store whose network is enabled again may start its stream.
LEMMA Reenabled ==
    ASSUME NEW c \in Conn, Closed(c), c.died = "no"
    PROVE  LET r == [UpdateState(c, "Unknown") EXCEPT !.enabled = TRUE, !.pending = Nothing]
           IN  /\ r \in Conn /\ Ready(r) /\ r.died = "no" /\ r.enabled
               /\ r.watched = c.watched /\ r.closes = c.closes /\ r.stream = c.stream
<1> DEFINE u == UpdateState(c, "Unknown")
           r == [u EXCEPT !.enabled = TRUE, !.pending = Nothing]
<1>1. /\ u \in Conn /\ u.died = c.died /\ u.watched = c.watched
      /\ u.closes = c.closes /\ u.stream = c.stream
  BY UpdateType
<1>2. Ready(u)
  BY UpdateReady
<1> HIDE DEF u
<1>3. /\ r \in Conn /\ r.died = u.died /\ r.enabled /\ r.watched = u.watched
      /\ r.pending = Nothing /\ r.closes = u.closes /\ r.failures = u.failures
      /\ r.stream = u.stream /\ r.asked = u.asked /\ r.online = u.online
      /\ r.slot = u.slot /\ r.handle = u.handle
  BY <1>1 DEF Conn, Pending, Nothing
<1> HIDE DEF r
<1>4. Ready(r)
  BY <1>2, <1>3 DEF Ready, Closed
<1> QED
  BY <1>1, <1>3, <1>4 DEF r, u

\* A change of credentials restarts the stream in use, and touches no other.
LEMMA CredentialStep ==
    ASSUME Alive(conn), HandleCredentialChange
    PROVE  Keeps(conn, conn')
<1> DEFINE d == [conn EXCEPT !.enabled = FALSE]
<1>1. PICK at \in Addresses :
          LET stopped == Close(d, "ok", at)
              enabled == [UpdateState(stopped, "Unknown") EXCEPT !.enabled = TRUE, !.pending = Nothing]
          IN  conn' = IF ShouldStartWatchStream(enabled) THEN StartWatchStream(enabled, at)
                      ELSE UpdateState(enabled, "Unknown")
  BY DEF HandleCredentialChange, Handle
<1> DEFINE s == Close(d, "ok", at)
           e == [UpdateState(s, "Unknown") EXCEPT !.enabled = TRUE, !.pending = Nothing]
           u == UpdateState(e, "Unknown")
<1>2. /\ conn \in Conn /\ Good(conn) /\ conn.died = "no" /\ conn.closes <= MaxCloses
      /\ conn.closes \in Nat /\ MaxCloses \in Nat
  BY ConnectionAssumption DEF Alive, Conn
<1>3. /\ d \in Conn /\ ~d.enabled /\ d.asked = conn.asked
      /\ d.watched = conn.watched /\ d.pending = conn.pending
      /\ d.stream = conn.stream /\ d.closes = conn.closes /\ d.online = conn.online
      /\ d.failures = conn.failures /\ d.slot = conn.slot /\ d.handle = conn.handle
      /\ d.died = conn.died
  BY <1>2 DEF Conn
<1> HIDE DEF d
<1>4. Sound(d)
  BY <1>2, <1>3 DEF Good, Sound
<1>5. /\ s \in Conn /\ Closed(s) /\ s.died = "no" /\ s.watched = conn.watched
      /\ s.closes <= MaxCloses
      /\ ~IsStarted(conn) => s.stream = conn.stream
  <2>1. CASE IsStarted(conn)
    <3>1. IsStarted(d) /\ conn.closes < MaxCloses
      BY <1>3, <2>1 DEF IsStarted, HandleCredentialChange, CanClose
    <3>2. /\ s \in Conn /\ Ready(s) /\ s.died = "no"
          /\ s.watched = d.watched /\ s.closes = d.closes + 1
      BY <1>2, <1>3, <1>4, <3>1, CloseStops DEF Status
    <3> HIDE DEF s
    <3> QED
      BY <1>2, <1>3, <2>1, <3>1, <3>2 DEF Ready
  <2>2. CASE ~IsStarted(conn)
    <3>1. s = d
      BY <1>3, <2>2 DEF Close, IsStarted
    <3>2. conn.stream \in {"Initial", "Error"}
      BY <1>2, <2>2 DEF Conn, IsStarted
    <3>3. Closed(d)
      BY <1>2, <1>3, <3>2 DEF Good, Sound, Closed
    <3> QED
      BY <1>2, <1>3, <2>2, <3>1, <3>3
  <2> QED
    BY <2>1, <2>2
<1> HIDE DEF s
<1>6. /\ e \in Conn /\ Ready(e) /\ e.died = "no" /\ e.enabled
      /\ e.watched = s.watched /\ e.closes = s.closes /\ e.stream = s.stream
  BY <1>5, Reenabled
<1>7. conn' = IF ShouldStartWatchStream(e) THEN StartWatchStream(e, at) ELSE u
  BY <1>1 DEF s
<1> HIDE DEF e
<1>8. ShouldStartWatchStream(e) <=> conn.watched
  BY <1>5, <1>6 DEF ShouldStartWatchStream, IsStarted, Ready, Closed
<1>9. CASE conn.watched
  <2>1. LET r == StartWatchStream(e, at)
        IN  /\ r \in Conn /\ Good(r) /\ r.died = e.died /\ r.stream # "Open"
            /\ r.enabled = e.enabled /\ r.watched /\ r.closes = e.closes
    BY <1>5, <1>6, <1>9, StartGood
  <2>2. /\ conn' \in Conn /\ Good(conn') /\ conn'.died = "no" /\ conn'.stream # "Open"
        /\ conn'.enabled /\ conn'.watched /\ conn'.closes <= MaxCloses
    BY <1>5, <1>6, <1>7, <1>8, <1>9, <2>1
  <2>3. conn'.watched = conn.watched /\ ~Fresh(conn)
    BY <1>2, <1>9, <2>2 DEF Conn, Fresh, Good, Sound
  <2>4. Alive(conn')
    BY <2>2 DEF Alive
  <2> QED
    BY <2>2, <2>3, <2>4 DEF Keeps
<1>10. CASE ~conn.watched
  <2>1. conn' = u
    BY <1>7, <1>8, <1>10
  <2>2. /\ u \in Conn /\ u.online = "Unknown" /\ u.failures = 0 /\ u.died = e.died
        /\ u.enabled = e.enabled /\ u.watched = e.watched
        /\ u.closes = e.closes /\ u.stream = e.stream
    BY <1>6, UpdateType
  <2>3. Ready(u)
    BY <1>6, UpdateReady DEF Ready
  <2> HIDE DEF u
  <2>4. Good(u)
    BY <1>5, <1>6, <1>10, <2>2, <2>3, ReadyAtRest
  <2>5. u.enabled
    BY <1>6, <2>2
  <2>6. Alive(u)
    BY <1>5, <1>6, <2>2, <2>4, <2>5 DEF Alive
  <2>7. Fresh(conn) => Fresh(u)
    BY <1>5, <1>6, <2>2, <2>3 DEF Fresh, Ready, IsStarted
  <2>8. u.stream # "Open" /\ u.watched = conn.watched
    BY <1>5, <1>6, <2>2, <2>3 DEF Ready, Closed
  <2> QED
    BY <2>1, <2>6, <2>7, <2>8 DEF Keeps
<1> QED
  BY <1>9, <1>10

\* A response leaves the stream open, with what it brings.
LEMMA ResponseStep ==
    ASSUME Alive(conn), conn.stream = "Open", conn.watched,
           NEW p \in Pending,
           conn' = [OnStreamResponse(conn) EXCEPT !.pending = p]
    PROVE  /\ Alive(conn') /\ conn'.watched = conn.watched
           /\ conn'.pending = p /\ conn'.stream = "Open" /\ ~Fresh(conn)
<1> DEFINE c == OnStreamResponse(conn)
<1>1. conn \in Conn /\ Good(conn) /\ conn.died = "no" /\ conn.enabled /\ conn.closes <= MaxCloses
  BY DEF Alive
<1>2. /\ c \in Conn /\ Good(c) /\ c.died = "no"
      /\ c.enabled = conn.enabled /\ c.watched = conn.watched /\ c.closes = conn.closes
      /\ c.stream = "Open" /\ conn' = [c EXCEPT !.pending = p]
  BY <1>1, ResponseGood
<1> HIDE DEF c
<1>3. /\ conn' \in Conn /\ Good(conn') /\ conn'.died = c.died
      /\ conn'.enabled = c.enabled /\ conn'.watched = c.watched /\ conn'.closes = c.closes
      /\ conn'.stream = "Open" /\ conn'.pending = p
  <2>1. /\ conn' \in Conn /\ conn'.asked = c.asked
        /\ conn'.enabled = c.enabled /\ conn'.watched = c.watched /\ conn'.pending = p
        /\ conn'.stream = c.stream /\ conn'.closes = c.closes /\ conn'.online = c.online
        /\ conn'.failures = c.failures /\ conn'.slot = c.slot /\ conn'.handle = c.handle
        /\ conn'.died = c.died
    BY <1>2 DEF Conn
  <2>2. Good(conn')
    BY <1>2, <2>1 DEF Good, Sound
  <2> QED
    BY <1>2, <2>1, <2>2
<1>4. conn'.enabled
  BY <1>1, <1>2, <1>3
<1>5. Alive(conn')
  BY <1>1, <1>2, <1>3, <1>4 DEF Alive
<1> QED
  BY <1>2, <1>3, <1>5 DEF Fresh

\* The server's error ends the listening and leaves the stream open.
LEMMA TargetErrorStep ==
    ASSUME Alive(conn), ProcessTargetError
    PROVE  Alive(conn') /\ ~conn'.watched
<1> DEFINE c == OnStreamResponse(conn)
<1>1. conn \in Conn /\ Good(conn) /\ conn.died = "no" /\ conn.enabled /\ conn.closes <= MaxCloses
  BY DEF Alive
<1>2. conn.stream = "Open" /\ conn' = [c EXCEPT !.watched = FALSE, !.pending.removed = {}]
  BY DEF ProcessTargetError, Watching
<1>3. /\ c \in Conn /\ Good(c) /\ c.died = "no"
      /\ c.enabled = conn.enabled /\ c.closes = conn.closes /\ c.stream = "Open"
  BY <1>1, <1>2, ResponseGood
<1> HIDE DEF c
<1>4. /\ conn' \in Conn /\ Good(conn') /\ conn'.died = c.died
      /\ conn'.enabled = c.enabled /\ ~conn'.watched /\ conn'.closes = c.closes
  BY <1>2, <1>3, UnwatchedGood
<1>5. conn'.enabled
  BY <1>1, <1>3, <1>4
<1> QED
  BY <1>1, <1>3, <1>4, <1>5 DEF Alive

----------------------------------------------------------------------------
(* The documents the server has told.                                       *)

OneEach(docs) == \A d, e \in docs : d.id = e.id => d = e

\* Sets of documents with one for each id differ if and only if there is a
\* change to tell.
LEMMA NoChanges ==
    ASSUME NEW old \in SUBSET Doc, NEW new \in SUBSET Doc, OneEach(old)
    PROVE  Changes(old, new) = {} <=> old = new
<1>1. ASSUME Changes(old, new) = {}
      PROVE  old = new
  <2>1. \A n \in new : n.id \in Ids(old)
    BY <1>1 DEF Changes
  <2>2. \A n \in new \ old : n.id \notin Ids(old)
    BY <1>1 DEF Changes
  <2>3. \A o \in old : o.id \in Ids(new)
    BY <1>1 DEF Changes
  <2>4. new \subseteq old
    BY <2>1, <2>2
  <2>5. ASSUME NEW o \in old
        PROVE  o \in new
    <3>1. PICK n \in new : n.id = o.id
      BY <2>3 DEF Ids
    <3>2. n = o
      BY <2>4, <3>1 DEF OneEach
    <3> QED
      BY <3>2
  <2> QED
    BY <2>4, <2>5
<1>2. ASSUME old = new
      PROVE  Changes(old, new) = {}
  BY <1>2 DEF Changes, Ids
<1> QED
  BY <1>1, <1>2

\* Nothing pending is nothing to apply.
LEMMA ApplyNothing ==
    ASSUME NEW docs
    PROVE  Apply(Nothing, docs) = docs
<1>1. Ids({}) = {}
  BY DEF Ids
<1> QED
  BY <1>1 DEF Apply, Nothing

\* Collecting a change gives what telling it gives.
LEMMA ApplyAdd ==
    ASSUME NEW docs \in SUBSET Doc, NEW p \in Pending, NEW d \in Doc
    PROVE  /\ AddDocument(p, d) \in Pending
           /\ Apply(AddDocument(p, d), docs) = {t \in Apply(p, docs) : t.id # d.id} \cup {d}
<1> DEFINE kept == {u \in p.updated : u.id # d.id}
           q == AddDocument(p, d)
<1>1. p.updated \in SUBSET Doc /\ p.removed \in SUBSET DocId /\ d.id \in DocId
  BY DEF Pending, Doc
<1>2. q.updated = kept \cup {d} /\ q.removed = p.removed \ {d.id} /\ q \in Pending
  BY <1>1 DEF AddDocument, Pending
<1>3. Ids(kept \cup {d}) = (Ids(p.updated) \ {d.id}) \cup {d.id}
  BY DEF Ids
<1> HIDE DEF q
<1>4. \A e \in docs : e.id \notin q.removed \cup Ids(q.updated) <=>
                      e.id \notin p.removed \cup Ids(p.updated) /\ e.id # d.id
  BY <1>2, <1>3
<1>5. Apply(q, docs) = {e \in docs : e.id \notin p.removed \cup Ids(p.updated) /\ e.id # d.id}
                       \cup kept \cup {d}
  BY <1>2, <1>4 DEF Apply
<1>6. {t \in Apply(p, docs) : t.id # d.id} =
      {e \in docs : e.id \notin p.removed \cup Ids(p.updated) /\ e.id # d.id} \cup kept
  BY DEF Apply
<1> QED
  BY <1>2, <1>5, <1>6 DEF q

LEMMA ApplyRemove ==
    ASSUME NEW docs \in SUBSET Doc, NEW p \in Pending, NEW i \in DocId
    PROVE  /\ RemoveDocument(p, i) \in Pending
           /\ Apply(RemoveDocument(p, i), docs) = {t \in Apply(p, docs) : t.id # i}
<1> DEFINE kept == {u \in p.updated : u.id # i}
           q == RemoveDocument(p, i)
<1>1. p.updated \in SUBSET Doc /\ p.removed \in SUBSET DocId
  BY DEF Pending
<1>2. q.updated = kept /\ q.removed = p.removed \cup {i} /\ q \in Pending
  BY <1>1 DEF RemoveDocument, Pending
<1>3. Ids(kept) = Ids(p.updated) \ {i}
  BY DEF Ids
<1> HIDE DEF q
<1>4. \A e \in docs : e.id \notin q.removed \cup Ids(q.updated) <=>
                      e.id \notin p.removed \cup Ids(p.updated) /\ e.id # i
  BY <1>2, <1>3
<1>5. Apply(q, docs) = {e \in docs : e.id \notin p.removed \cup Ids(p.updated) /\ e.id # i} \cup kept
  BY <1>2, <1>4 DEF Apply
<1>6. {t \in Apply(p, docs) : t.id # i} =
      {e \in docs : e.id \notin p.removed \cup Ids(p.updated) /\ e.id # i} \cup kept
  BY DEF Apply
<1> QED
  BY <1>2, <1>5, <1>6 DEF q

----------------------------------------------------------------------------
(* The invariant.                                                           *)

\* The stream's part.
ConnOK ==
    /\ conn \in Conn /\ conn.enabled /\ Bounded(conn) /\ conn.closes <= MaxCloses
    /\ conn.died = "no" => Good(conn)

\* The query is watched while somebody listens, from the first call on.
Tied ==
    conn.died = "no" =>
        /\ conn.watched <=> listen \in {"waiting", "raised"}
        /\ listen = "off" => Fresh(conn)

\* The view shows what the phone has, and what has been told is what the phone
\* will have.
Copies ==
    /\ OneEach(cloud) /\ OneEach(cache) /\ OneEach(told)
    /\ listen \in {"waiting", "raised"} => view = cache
    /\ listen = "waiting" => view = {}
    /\ Watching => told = Apply(conn.pending, cache)

ConnInv ==
    /\ ClientTypeOK
    /\ told \subseteq Doc
    /\ launches \in 1..MaxLaunches
    /\ ConnOK
    /\ Tied
    /\ Copies

\* A new process starts with a new connection.
LEMMA NewIsAlive == Alive(NewConnection) /\ Fresh(NewConnection) /\ NewConnection.watched = FALSE
<1> DEFINE c == NewConnection
<1>1. /\ c.enabled = TRUE /\ c.watched = FALSE /\ c.pending = Nothing /\ c.stream = "Initial"
      /\ c.closes = 0 /\ c.asked = {} /\ c.base = 0 /\ c.delay = 0 /\ c.online = "Unknown"
      /\ c.failures = 0 /\ c.slot = [t \in Timer |-> Nowhere]
      /\ c.handle = [t \in Timer |-> Nowhere] /\ c.died = "no"
  BY DEF NewConnection
<1>2. c \in Conn
  BY DEF NewConnection, Conn, Delay, Place, Pending, Nothing
<1> HIDE DEF c
<1>3. /\ c.slot["online"] = Nowhere /\ c.slot["backoff"] = Nowhere
      /\ c.handle["online"] = Nowhere /\ c.handle["backoff"] = Nowhere
  BY Timers, <1>1
<1>4. Good(c)
  BY <1>1, <1>3 DEF Good, Sound
<1>5. 0 <= MaxCloses
  BY ConnectionAssumption
<1>6. Alive(c) /\ Fresh(c)
  BY <1>1, <1>2, <1>3, <1>4, <1>5 DEF Alive, Fresh
<1> QED
  BY <1>1, <1>6 DEF c

\* A live connection is well formed.
LEMMA AliveIsOK ==
    ASSUME Alive(conn) PROVE ConnOK
BY GoodIsBounded DEF Alive, ConnOK

LEMMA OKIsAlive ==
    ASSUME ConnOK, conn.died = "no" PROVE Alive(conn)
BY DEF Alive, ConnOK

\* Writers put at most one document under an id.
LEMMA WritersKeepOneEach ==
    ASSUME OneEach(cloud), cloud \in SUBSET Doc, WriterStep
    PROVE  OneEach(cloud')
<1>1. ASSUME NEW i \in DocId, NEW c \in Content, AddDoc(i, c)
      PROVE  OneEach(cloud')
  BY <1>1 DEF AddDoc, OneEach, Ids
<1>2. ASSUME NEW d \in cloud, NEW c \in Content, EditDoc(d, c)
      PROVE  OneEach(cloud')
  <2> DEFINE e == [d EXCEPT !.content = c]
  <2>1. e.id = d.id
    BY DEF Doc
  <2> HIDE DEF e
  <2>2. cloud' = (cloud \ {d}) \cup {e}
    BY <1>2 DEF EditDoc, e
  <2> QED
    BY <2>1, <2>2 DEF OneEach
<1>3. ASSUME NEW d \in cloud, RemoveDoc(d)
      PROVE  OneEach(cloud')
  BY <1>3 DEF RemoveDoc, OneEach
<1> QED
  BY <1>1, <1>2, <1>3 DEF WriterStep

\* The listener hears of the online state: at most its first event is raised.
LEMMA OnlineStateHeard ==
    ASSUME NEW online, ApplyChangedOnlineState(online)
    PROVE  /\ [ClientNext]_clientVars
           /\ UNCHANGED <<cloud, cache, view>>
           /\ listen \in {"waiting", "raised"} <=> listen' \in {"waiting", "raised"}
           /\ listen' \in {"off", "waiting"} => listen' = listen
BY DEF ApplyChangedOnlineState, ClientNext, ListenerStep, RaiseEmptyOffline, clientVars

\* A handler that keeps the connection going without opening it keeps the
\* invariant, if what is told goes with what is pending.
LEMMA KeepsInv ==
    ASSUME ConnInv, Keeps(conn, conn'), UNCHANGED <<told, launches>>,
           NEW online, ApplyChangedOnlineState(online), conn.died = "no"
    PROVE  ConnOK' /\ Tied' /\ Copies' /\ conn'.died = "no"
<1>1. ConnOK' /\ Tied' /\ conn'.died = "no"
  BY OnlineStateHeard, GoodIsBounded DEF ConnInv, Keeps, Alive, ConnOK, Tied
<1>2. Copies'
  BY OnlineStateHeard DEF ConnInv, Keeps, Copies, Watching
<1> QED
  BY <1>1, <1>2

\* One response at a time, what has been told stays what would be applied.
LEMMA TellsInv ==
    ASSUME ConnInv, Watching, NEW p \in Pending, NEW docs \in SUBSET Doc,
           conn' = [OnStreamResponse(conn) EXCEPT !.pending = p],
           told' = docs, OneEach(docs), docs = Apply(p, cache),
           UNCHANGED launches, NEW online, ApplyChangedOnlineState(online)
    PROVE  ConnOK' /\ Tied' /\ Copies' /\ conn'.died = "no" /\ told' \subseteq Doc
<1>1. Alive(conn) /\ conn.stream = "Open" /\ conn.watched
  BY OKIsAlive DEF ConnInv, Watching
<1>2. /\ Alive(conn') /\ conn'.watched = conn.watched
      /\ conn'.pending = p /\ conn'.stream = "Open" /\ ~Fresh(conn)
  BY <1>1, ResponseStep
<1>3. ConnOK' /\ conn'.died = "no"
  BY <1>2, GoodIsBounded DEF Alive, ConnOK
<1>4. Tied'
  BY <1>1, <1>2, OnlineStateHeard DEF Alive, ConnInv, Tied
<1>5. Copies'
  BY <1>2, OnlineStateHeard DEF ConnInv, Copies, Watching
<1> QED
  BY <1>3, <1>4, <1>5

\* The handlers on the worker queue, and the client they stand for.
StreamHandler ==
    \/ TokenStep
    \/ \E status \in Status : StreamFinished(status)
    \/ OnlineTimeout
    \/ BackoffElapsed
    \/ HandleCredentialChange
    \/ \E d \in cloud \ told : DocumentChanged(d)
    \/ \E i \in Ids(told) \ Ids(cloud) : DocumentRemoved(i)

\* A handler keeps the stream's part and the copies, and ends the process only
\* when the server has ended the call with the status "ok".
LEMMA HandlerStep ==
    ASSUME ConnInv, StreamHandler
    PROVE  /\ ConnOK' /\ Tied' /\ Copies' /\ told' \subseteq Doc /\ launches' = launches
           /\ [ClientNext]_clientVars
           /\ conn'.died # "no" => StreamFinished("ok")
<1>1. PICK online : ApplyChangedOnlineState(online) /\ conn.died = "no" /\ UNCHANGED launches
  BY DEF StreamHandler, TokenStep, TokenAnswered, TokenRefused, StreamFinished, OnlineTimeout,
         BackoffElapsed, HandleCredentialChange, DocumentChanged, DocumentRemoved, Handle
<1>2. [ClientNext]_clientVars
  BY <1>1, OnlineStateHeard
<1>3. Alive(conn)
  BY <1>1, OKIsAlive DEF ConnInv
<1>4. ASSUME Keeps(conn, conn'), UNCHANGED told
      PROVE  /\ ConnOK' /\ Tied' /\ Copies' /\ told' \subseteq Doc
             /\ conn'.died = "no"
  BY <1>1, <1>4, KeepsInv DEF ConnInv
<1>5. ASSUME NEW n \in conn.asked, TokenAnswered(n)
      PROVE  /\ ConnOK' /\ Tied' /\ Copies' /\ told' \subseteq Doc
             /\ conn'.died = "no"
  <2>1. CASE Keeps(conn, conn') /\ UNCHANGED told
    BY <1>4, <2>1
  <2>2. CASE /\ Alive(conn') /\ ~Fresh(conn) /\ conn'.watched = conn.watched
             /\ conn'.pending = Nothing /\ told' = cache
    <3>1. ConnOK' /\ Tied' /\ conn'.died = "no"
      BY <1>1, <2>2, OnlineStateHeard, GoodIsBounded DEF ConnInv, Alive, ConnOK, Tied
    <3>2. Copies'
      BY <1>1, <2>2, OnlineStateHeard, ApplyNothing DEF ConnInv, Copies, Watching
    <3>3. cache \subseteq Doc
      BY DEF ConnInv, ClientTypeOK
    <3> QED
      BY <2>2, <3>1, <3>2, <3>3
  <2> QED
    BY <1>3, <1>5, <2>1, <2>2, TokenAnsweredStep
<1>6. ASSUME NEW n \in conn.asked, TokenRefused(n)
      PROVE  Keeps(conn, conn') /\ UNCHANGED told
  BY <1>3, <1>6, TokenRefusedStep DEF TokenRefused
<1>7. ASSUME NEW status \in Status, StreamFinished(status)
      PROVE  /\ ConnOK' /\ Tied' /\ Copies' /\ told' \subseteq Doc
             /\ conn'.died # "no" => StreamFinished("ok")
  <2>1. CASE Keeps(conn, conn')
    BY <1>4, <1>7, <2>1 DEF StreamFinished
  <2>2. CASE /\ status = "ok" /\ conn'.died # "no"
             /\ conn' \in Conn /\ Bounded(conn') /\ conn'.enabled /\ conn'.closes <= MaxCloses
    <3>1. ConnOK' /\ Tied'
      BY <2>2 DEF ConnOK, Tied
    <3>2. UNCHANGED told /\ ~Watching'
      BY <1>7, <2>2 DEF StreamFinished, Watching
    <3>3. Copies'
      BY <1>1, <3>2, OnlineStateHeard DEF ConnInv, Copies
    <3> QED
      BY <1>7, <2>2, <3>1, <3>2, <3>3 DEF ConnInv
  <2> QED
    BY <1>3, <1>7, <2>1, <2>2, FinishedStep
<1>8. ASSUME OnlineTimeout \/ BackoffElapsed \/ HandleCredentialChange
      PROVE  Keeps(conn, conn') /\ UNCHANGED told
  BY <1>3, <1>8, OnlineTimeoutStep, BackoffElapsedStep, CredentialStep
     DEF OnlineTimeout, BackoffElapsed, HandleCredentialChange
<1>9. ASSUME NEW d \in cloud \ told, DocumentChanged(d)
      PROVE  /\ ConnOK' /\ Tied' /\ Copies' /\ told' \subseteq Doc
             /\ conn'.died = "no"
  <2> DEFINE p == AddDocument(conn.pending, d)
             docs == {t \in told : t.id # d.id} \cup {d}
             r == OnStreamResponse(conn)
  <2>1. Watching /\ told' = docs
    BY <1>9 DEF DocumentChanged
  <2>2. Alive(conn) /\ conn.pending \in Pending /\ d \in Doc /\ cache \in SUBSET Doc
        /\ told = Apply(conn.pending, cache) /\ told \in SUBSET Doc /\ OneEach(told)
    BY <1>3, <2>1 DEF ConnInv, ClientTypeOK, Copies, Alive, Conn
  <2>3. p \in Pending /\ Apply(p, cache) = docs
    BY <2>2, ApplyAdd
  <2>4. r.pending = conn.pending
    BY <1>3, <2>1, ResponseGood DEF Alive, Watching
  <2>5. conn' = [r EXCEPT !.pending = p]
    BY <1>9, <2>4 DEF DocumentChanged, Handle
  <2>6. docs \in SUBSET Doc /\ OneEach(docs)
    BY <2>2 DEF OneEach
  <2> HIDE DEF p, docs
  <2> QED
    BY <1>1, <2>1, <2>3, <2>5, <2>6, TellsInv
<1>10. ASSUME NEW i \in Ids(told) \ Ids(cloud), DocumentRemoved(i)
       PROVE  /\ ConnOK' /\ Tied' /\ Copies' /\ told' \subseteq Doc
              /\ conn'.died = "no"
  <2> DEFINE p == RemoveDocument(conn.pending, i)
             docs == {t \in told : t.id # i}
             r == OnStreamResponse(conn)
  <2>1. Watching /\ told' = docs
    BY <1>10 DEF DocumentRemoved
  <2>2. Alive(conn) /\ conn.pending \in Pending /\ i \in DocId /\ cache \in SUBSET Doc
        /\ told = Apply(conn.pending, cache) /\ told \in SUBSET Doc /\ OneEach(told)
    BY <1>3, <2>1 DEF ConnInv, ClientTypeOK, Copies, Alive, Conn, Ids, Doc
  <2>3. p \in Pending /\ Apply(p, cache) = docs
    BY <2>2, ApplyRemove
  <2>4. r.pending = conn.pending
    BY <1>3, <2>1, ResponseGood DEF Alive, Watching
  <2>5. conn' = [r EXCEPT !.pending = p]
    BY <1>10, <2>4 DEF DocumentRemoved, Handle
  <2>6. docs \in SUBSET Doc /\ OneEach(docs)
    BY <2>2 DEF OneEach
  <2> HIDE DEF p, docs
  <2> QED
    BY <1>1, <2>1, <2>3, <2>5, <2>6, TellsInv
<1> QED
  BY <1>1, <1>2, <1>4, <1>5, <1>6, <1>7, <1>8, <1>9, <1>10 DEF StreamHandler, TokenStep

\* A global snapshot shows the collection, just as one step of the client's.
LEMMA SnapshotStep ==
    ASSUME ConnInv, RaiseWatchSnapshot
    PROVE  ConnOK' /\ Tied' /\ Copies' /\ conn'.died = "no" /\ [ClientNext]_clientVars
<1>1. Watching /\ told = cloud /\ NewView(Apply(conn.pending, cache))
      /\ conn' = [OnStreamResponse(conn) EXCEPT !.pending = Nothing]
      /\ UNCHANGED <<told, launches>>
  BY DEF RaiseWatchSnapshot
<1>2. Alive(conn) /\ conn.stream = "Open" /\ conn.watched
  BY <1>1, OKIsAlive DEF ConnInv, Watching
<1>3. Nothing \in Pending
  BY DEF Nothing, Pending
<1>4. /\ Alive(conn') /\ conn'.watched = conn.watched
      /\ conn'.pending = Nothing /\ conn'.stream = "Open"
  BY <1>1, <1>2, <1>3, ResponseStep
<1>5. /\ listen \in {"waiting", "raised"} /\ view = cache /\ OneEach(view)
      /\ view \in SUBSET Doc /\ cloud \in SUBSET Doc
      /\ listen = "waiting" => view = {}
  BY <1>2 DEF Alive, ConnInv, Tied, Copies, ClientTypeOK
<1>6. Apply(conn.pending, cache) = cloud
  BY <1>1 DEF ConnInv, Copies
<1>7. NewView(cloud)
  BY <1>1, <1>6
<1>8. cache' = cloud /\ view' = cloud /\ UNCHANGED <<cloud, writes>> /\ listen' = "raised"
  BY <1>5, <1>7 DEF NewView
<1>9. ConnOK' /\ Tied' /\ conn'.died = "no"
  BY <1>2, <1>4, <1>8, GoodIsBounded DEF Alive, ConnOK, Tied
<1>10. Copies'
  BY <1>1, <1>4, <1>8, ApplyNothing DEF ConnInv, Copies
<1>11. [ClientNext]_clientVars
  <2>1. CASE listen = "waiting"
    BY <1>5, <1>7, <2>1 DEF NewView, SyncWithServer, ListenerStep, ClientNext
  <2>2. CASE listen = "raised" /\ Changes(view, cloud) # {}
    BY <1>5, <1>7, <2>2, NoChanges DEF NewView, SyncWithServer, ListenerStep, ClientNext
  <2>3. CASE listen = "raised" /\ Changes(view, cloud) = {}
    BY <1>5, <1>7, <2>3, NoChanges DEF NewView, clientVars
  <2> QED
    BY <1>5, <2>1, <2>2, <2>3
<1> QED
  BY <1>9, <1>10, <1>11

\* Every step keeps the stream's part, the copies and the counters, is one of
\* the client's, and fails no assertion but that one.
LEMMA ConnectionStep ==
    ASSUME ConnInv, [Next]_vars
    PROVE  /\ ConnOK' /\ Tied' /\ Copies' /\ told' \subseteq Doc /\ launches' \in 1..MaxLaunches
           /\ [ClientNext]_clientVars
           /\ (conn.died = "no" /\ conn'.died # "no") => StreamFinished("ok")
<1>1. CASE WriterStep /\ UNCHANGED <<conn, told, launches>>
  <2>1. UNCHANGED <<cache, view, listen>>
    BY <1>1 DEF WriterStep, AddDoc, EditDoc, RemoveDoc, Write
  <2>2. OneEach(cloud')
    BY <1>1, WritersKeepOneEach DEF ConnInv, Copies, ClientTypeOK
  <2>3. ConnOK' /\ Tied' /\ Copies'
    BY <1>1, <2>1, <2>2 DEF ConnInv, ConnOK, Tied, Copies, Watching
  <2> QED
    BY <1>1, <2>3 DEF ConnInv, ClientNext
<1>2. ASSUME NEW kind \in {"snapshot", "error"}, TakeEvent(kind), UNCHANGED <<conn, told, launches>>
      PROVE  ConnOK' /\ Tied' /\ Copies' /\ [ClientNext]_clientVars
  <2>1. ConnOK' /\ Tied' /\ Copies'
    BY <1>2 DEF TakeEvent, ConnInv, ConnOK, Tied, Copies, Watching
  <2> QED
    BY <1>2, <2>1 DEF ClientNext
<1>3. CASE Listen
  <2>1. Alive(conn) /\ Fresh(conn) /\ ~conn.watched
    BY <1>3, OKIsAlive DEF ConnInv, Tied, Listen, StartListening
  <2>2. Alive(conn') /\ conn'.watched /\ conn'.stream # "Open"
    BY <1>3, <2>1, ListenStep
  <2>3. ConnOK' /\ conn'.died = "no"
    BY <2>2, GoodIsBounded DEF Alive, ConnOK
  <2>4. Tied'
    BY <1>3, <2>2 DEF Listen, StartListening, Tied
  <2>5. Copies'
    BY <1>3, <2>2 DEF Listen, StartListening, ConnInv, Copies, Watching
  <2> QED
    BY <1>3, <2>3, <2>4, <2>5 DEF Listen, ConnInv, ClientNext
<1>4. CASE StreamHandler
  BY <1>4, HandlerStep DEF ConnInv
<1>5. CASE RaiseWatchSnapshot
  BY <1>5, SnapshotStep DEF RaiseWatchSnapshot, ConnInv
<1>6. CASE ProcessTargetError
  <2>1. Alive(conn)
    BY <1>6, OKIsAlive DEF ConnInv, ProcessTargetError, Watching
  <2>2. Alive(conn') /\ ~conn'.watched
    BY <1>6, <2>1, TargetErrorStep
  <2>3. ConnOK' /\ conn'.died = "no"
    BY <2>2, GoodIsBounded DEF Alive, ConnOK
  <2>4. Tied'
    BY <1>6, <2>2 DEF ProcessTargetError, RejectListen, Tied
  <2>5. Copies'
    BY <1>6, <2>2 DEF ProcessTargetError, RejectListen, ConnInv, Copies, Watching
  <2> QED
    BY <1>6, <2>3, <2>4, <2>5
    DEF ProcessTargetError, RejectListen, ListenerStep, ClientNext, ConnInv
<1>7. CASE Relaunch
  <2>1. Alive(conn') /\ Fresh(conn') /\ conn'.watched = FALSE /\ listen' = "off"
    BY <1>7, NewIsAlive DEF Relaunch, DropProcess
  <2>2. ConnOK' /\ Tied' /\ conn'.died = "no"
    BY <2>1, GoodIsBounded DEF Alive, ConnOK, Tied
  <2>3. Copies'
    BY <1>7, <2>1 DEF Relaunch, DropProcess, ConnInv, Copies, Watching
  <2>4. launches' \in 1..MaxLaunches
    BY <1>7, ConnectionAssumption DEF Relaunch, ConnInv
  <2> QED
    BY <1>7, <2>2, <2>3, <2>4 DEF Relaunch, ConnInv, ClientNext
<1>8. CASE UNCHANGED vars
  BY <1>8 DEF vars, clientVars, ConnInv, ConnOK, Tied, Copies, Watching
<1>9. CASE \E kind \in {"snapshot", "error"} :
               conn.died = "no" /\ TakeEvent(kind) /\ UNCHANGED <<conn, told, launches>>
  BY <1>2, <1>9 DEF ConnInv
<1> QED
  BY <1>1, <1>3, <1>4, <1>5, <1>6, <1>7, <1>8, <1>9 DEF Next, StreamHandler, ServerTells

\* A step of the client's keeps the types of its state.
LEMMA ClientTypesKept ==
    ASSUME ClientTypeOK, [ClientNext]_clientVars
    PROVE  ClientTypeOK'
<1>1. Content \subseteq Content /\ MaxLaunches \in Nat \ {0}
  BY ConnectionAssumption
<1>2. Used!ClientTypeOK
  BY DEF ClientTypeOK, Used!ClientTypeOK, Doc, Used!Doc, Change, Used!Change, Event, Used!Event,
         ListenFailed, Used!ListenFailed, Changed, Used!Changed, IsFiniteSet, Used!IsFiniteSet
<1>3. [Used!ClientNext]_(Used!clientVars)
  BY DEF ClientNext, Used!ClientNext, clientVars, Used!clientVars, WriterStep, Used!WriterStep,
         Write, Used!Write, AddDoc, Used!AddDoc, EditDoc, Used!EditDoc, RemoveDoc, Used!RemoveDoc,
         StartListening, Used!StartListening, ListenerStep, Used!ListenerStep, RaiseEmptyOffline,
         Used!RaiseEmptyOffline, SyncWithServer, Used!SyncWithServer, RejectListen,
         Used!RejectListen, TakeEvent, Used!TakeEvent, DropProcess, Used!DropProcess, Snapshot,
         Used!Snapshot, ListenFailed, Used!ListenFailed, Ids, Used!Ids, Changes, Used!Changes
<1>4. Used!ClientTypeOK'
  BY <1>1, <1>2, <1>3, ClientAssumption, Used!ClientTypes
<1> QED
  BY <1>4
  DEF ClientTypeOK, Used!ClientTypeOK, Doc, Used!Doc, Change, Used!Change, Event, Used!Event,
      ListenFailed, Used!ListenFailed, Changed, Used!Changed, IsFiniteSet, Used!IsFiniteSet

\* The first process has a new connection, and nothing is stored or told.
LEMMA ConnectionInit == Init => ConnInv
<1> SUFFICES ASSUME Init PROVE ConnInv
  OBVIOUS
<1>1. events = <<>> /\ DOMAIN events = {} /\ events \in Seq(Event)
  BY DEF Init, ClientInit
<1>2. ClientTypeOK
  BY <1>1, ClientAssumption, FS_EmptySet DEF Init, ClientInit, ClientTypeOK
<1>3. Alive(conn) /\ Fresh(conn) /\ conn.watched = FALSE
  BY NewIsAlive DEF Init
<1>4. ConnOK /\ Tied
  BY <1>3, AliveIsOK DEF Init, ClientInit, Tied
<1>5. Copies
  BY <1>3 DEF Init, ClientInit, Copies, OneEach, Watching
<1>6. launches \in 1..MaxLaunches /\ told \subseteq Doc
  BY ConnectionAssumption DEF Init
<1> QED
  BY <1>2, <1>4, <1>5, <1>6 DEF ConnInv

\* What the handlers rely on holds between any two of them.
THEOREM ConnectionInvariant == Spec => []ConnInv
<1>1. ConnInv /\ [Next]_vars => ConnInv'
  BY ConnectionStep, ClientTypesKept DEF ConnInv
<1> QED
  BY <1>1, ConnectionInit, PTL DEF Spec

----------------------------------------------------------------------------
(* The properties.                                                          *)

\* Connection, copies and counters are of their types, for any number of
\* closes, addresses, documents and processes.
THEOREM ConnectionTypeCorrect == Spec => []ConnectionTypeOK
<1>1. ASSUME ConnInv PROVE ConnectionTypeOK
  <2> USE ConnectionAssumption
  <2>1. conn \in Conn /\ conn.enabled /\ Bounded(conn) /\ conn.closes <= MaxCloses
    BY <1>1 DEF ConnInv, ConnOK
  <2>2. /\ conn.closes \in Nat /\ conn.failures \in Nat
        /\ conn.closes \in 0..MaxCloses /\ conn.failures \in 0..MaxCloses
        /\ conn.asked \in SUBSET (0..MaxCloses) /\ conn.enabled \in {TRUE}
    BY <2>1 DEF Conn, Bounded
  <2>3. conn \in [
           enabled : {TRUE}, watched : BOOLEAN,
           pending : [updated : SUBSET Doc, removed : SUBSET DocId],
           stream : {"Initial", "Starting", "Open", "Error", "Backoff"},
           closes : 0..MaxCloses, asked : SUBSET (0..MaxCloses),
           base : {0} \cup InitialDelay..MaxDelay, delay : {0} \cup InitialDelay..MaxDelay,
           online : {"Unknown", "Online", "Offline"}, failures : 0..MaxCloses,
           slot : [Timer -> Address \cup {Nowhere}],
           handle : [Timer -> Address \cup {Nowhere}],
           died : {"no"} \cup HardAsserts]
    BY <2>1, <2>2 DEF Conn, Pending, Delay, Place
  <2>4. \A t, u \in Timer : t # u /\ conn.slot[t] = conn.slot[u] => conn.slot[t] = Nowhere
    BY <2>1, Timers DEF Bounded
  <2> QED
    BY <1>1, <2>3, <2>4 DEF ConnInv, ConnectionTypeOK
<1> QED
  BY <1>1, ConnectionInvariant, PTL

\* The connection never stops trying: the token asked for is the one the
\* stream waits for, and the retry scheduled is the one the stream knows of.
THEOREM AttemptGoesOn == Spec => []NeverGivesUp
<1>1. ASSUME ConnInv PROVE NeverGivesUp
  <2>1. SUFFICES ASSUME conn.watched, conn.died = "no" PROVE NeverGivesUp
    BY DEF NeverGivesUp
  <2>2. conn \in Conn /\ Good(conn)
    BY <1>1, <2>1 DEF ConnInv, ConnOK
  <2> QED
    BY <2>1, <2>2 DEF Conn, Good, Sound, NeverGivesUp
<1> QED
  BY <1>1, ConnectionInvariant, PTL

\* The listener is told of the online state only what the stream bears out.
THEOREM OnlineStateIsHonest == Spec => []OnlineStateHonest
<1>1. ASSUME ConnInv PROVE OnlineStateHonest
  BY <1>1 DEF ConnInv, ConnOK, Good, Sound, OnlineStateHonest
<1> QED
  BY <1>1, ConnectionInvariant, PTL

\* No order of timeouts, answers and changes of credentials fails an assertion
\* of tracker, stream, executor or store, but for a call the server ends
\* without an error.
THEOREM NoOtherAssertionFails == Spec => AssertionsHold
<1>1. ConnInv /\ [Next]_vars => [(conn.died = "no" /\ conn'.died # "no") => StreamFinished("ok")]_vars
  BY ConnectionStep
<1> QED
  BY <1>1, ConnectionInvariant, PTL DEF Spec, AssertionsHold

\* The connection implements the client that the app's controller is built on:
\* every step is one of FirestoreClient's, or changes nothing of it.
THEOREM ConnectionRefinesClient == Spec => ImplementsClient
<1>1. Init => ClientInit
  BY DEF Init
<1>2. ConnInv /\ [Next]_vars => [ClientNext]_clientVars
  BY ConnectionStep
<1> QED
  BY <1>1, <1>2, ConnectionInvariant, PTL DEF Spec, ImplementsClient
=============================================================================
