--------------------------- MODULE WatchConnection ---------------------------
(***************************************************************************)
(* How the Firestore client keeps its one listener connected to the        *)
(* server.  FirestoreClient says what the app may observe; here are the    *)
(* parts that make it happen, all on the client's worker queue:            *)
(*                                                                         *)
(*   RemoteStore         wants the watch stream while a query is listened  *)
(*                       to, and collects the server's changes until a     *)
(*                       global snapshot;                                  *)
(*   Stream              asks for a token, opens, closes, waits to retry;  *)
(*   ExponentialBackoff  how long it waits;                                *)
(*   OnlineStateTracker  when the listener is told the phone is offline;   *)
(*   the executor        runs delayed operations, finds them by address.   *)
(*                                                                         *)
(* A method is an operator from the connection to the connection, and a    *)
(* handler is their composition, in the order of the calls.  A failed      *)
(* HARD_ASSERT is remembered in "died" and ends the process.               *)
(***************************************************************************)
EXTENDS FirestoreClient

CONSTANTS
    Address,       \* addresses of delayed operations
    Nowhere,       \* no address
    InitialDelay,  \* bounds of the delay before a retry, milliseconds
    MaxDelay,
    MaxCloses,     \* bound: times a stream is closed in one process
    MaxLaunches    \* bound: processes in one behaviour

ASSUME ConnectionAssumption ==
    /\ Nowhere \notin Address
    /\ InitialDelay \in Nat /\ MaxDelay \in Nat /\ InitialDelay <= MaxDelay
    /\ MaxCloses \in Nat /\ MaxLaunches \in Nat \ {0}

VARIABLES
    conn,      \* RemoteStore, Stream, ExponentialBackoff, OnlineStateTracker, executor
    told,      \* what the server has told this stream of the collection
    launches   \* processes started; bounds the model

vars == <<clientVars, conn, told, launches>>

Timer == {"online", "backoff"}

\* How a stream or a request for a token may end.
Status == {"ok", "unavailable", "exhausted"}

Nothing == [updated |-> {}, removed |-> {}]

HardAsserts ==
    {"stopped while needed", "already started", "not started", "not starting", "not in backoff",
     "timer already started", "timer not cancelled", "heuristics not reset", "scheduled twice"}

NewConnection == [
    enabled  |-> TRUE,                        \* is_network_enabled_
    watched  |-> FALSE,                       \* is the query in listen_targets_?
    pending  |-> Nothing,                     \* watch_change_aggregator_
    stream   |-> "Initial",                   \* state_
    closes   |-> 0,                           \* close_count_
    asked    |-> {},                          \* requests for a token, by close count
    base     |-> 0,                           \* current_base_
    delay    |-> 0,                           \* of the last retry scheduled
    online   |-> "Unknown",                   \* state_ of the tracker
    failures |-> 0,                           \* watch_stream_failures_
    slot     |-> [t \in Timer |-> Nowhere],   \* scheduled operations
    handle   |-> [t \in Timer |-> Nowhere],   \* online_state_timer_, delayed_operation_
    died     |-> "no"]

ConnectionTypeOK ==
    /\ ClientTypeOK
    /\ conn \in [
           enabled : {TRUE}, watched : BOOLEAN,
           pending : [updated : SUBSET Doc, removed : SUBSET DocId],
           stream : {"Initial", "Starting", "Open", "Error", "Backoff"},
           closes : 0..MaxCloses, asked : SUBSET (0..MaxCloses),
           base : {0} \cup InitialDelay..MaxDelay, delay : {0} \cup InitialDelay..MaxDelay,
           online : {"Unknown", "Online", "Offline"}, failures : 0..MaxCloses,
           slot : [Timer -> Address \cup {Nowhere}],
           handle : [Timer -> Address \cup {Nowhere}],
           died : {"no"} \cup HardAsserts]
    /\ \A t, u \in Timer : t # u /\ conn.slot[t] = conn.slot[u] => conn.slot[t] = Nowhere
    /\ told \subseteq Doc
    /\ launches \in 1..MaxLaunches

Init ==
    /\ ClientInit
    /\ conn = NewConnection
    /\ told = {}
    /\ launches = 1

Assert(c, holds, what) == IF holds THEN c ELSE [c EXCEPT !.died = what]

----------------------------------------------------------------------------
(* Delayed operations.  A handle is the address of its operation, and goes  *)
(* on naming that address when the operation has run and been deleted.      *)

\* Cancels whatever is scheduled at the handle's address.
Cancel(c, timer) ==
    [c EXCEPT
        !.slot = [t \in Timer |-> IF c.slot[t] = c.handle[timer] THEN Nowhere ELSE c.slot[t]],
        !.handle[timer] = Nowhere]

EnqueueAfterDelay(c, timer, address) ==
    [Assert(c, c.slot[timer] = Nowhere, "scheduled twice") EXCEPT
        !.slot[timer] = address, !.handle[timer] = address]

----------------------------------------------------------------------------
(* OnlineStateTracker, with kMaxWatchStreamFailures = 1.                    *)

\* Mutant: the timer goes on when the state is known.
UpdateStateKeepsTimer(c, state) == [c EXCEPT !.online = state, !.failures = 0]

UpdateState(c, state) == [Cancel(c, "online") EXCEPT !.online = state, !.failures = 0]

\* Mutant: the first attempt is given no timeout.
HandleWatchStreamStartUntimed(c, address) ==
    IF c.failures # 0 THEN c ELSE [c EXCEPT !.online = "Unknown"]

HandleWatchStreamStart(c, address) ==
    IF c.failures # 0 THEN c
    ELSE EnqueueAfterDelay(
             Assert([c EXCEPT !.online = "Unknown"],
                    c.handle["online"] = Nowhere, "timer already started"),
             "online", address)

HandleWatchStreamFailure(c) ==
    IF c.online = "Online"
    THEN Assert([c EXCEPT !.online = "Unknown"],
                c.failures = 0 /\ c.handle["online"] = Nowhere, "heuristics not reset")
    ELSE [Cancel(c, "online") EXCEPT !.online = "Offline", !.failures = c.failures + 1]

----------------------------------------------------------------------------
(* ExponentialBackoff, without its random jitter.                           *)

\* Mutant: no upper bound.
ClampDelayFromBelow(delay) == IF delay < InitialDelay THEN InitialDelay ELSE delay

ClampDelay(delay) ==
    IF delay < InitialDelay THEN InitialDelay
    ELSE IF delay > MaxDelay THEN MaxDelay ELSE delay

BackoffAndRun(c, address) ==
    [EnqueueAfterDelay(Cancel(c, "backoff"), "backoff", address) EXCEPT
        !.delay = c.base, !.base = ClampDelay((c.base * 3) \div 2)]

----------------------------------------------------------------------------
(* Stream and RemoteStore.  "at" holds the addresses of new operations.     *)

IsStarted(c) == c.stream \in {"Starting", "Backoff", "Open"}

RequestCredentials(c) == [c EXCEPT !.asked = @ \cup {c.closes}]

Start(c, at) ==
    IF c.stream = "Error"
    THEN BackoffAndRun([c EXCEPT !.stream = "Backoff"], at["backoff"])
    ELSE RequestCredentials(
             [Assert(c, c.stream = "Initial", "already started") EXCEPT !.stream = "Starting"])

ShouldStartWatchStream(c) == c.enabled /\ ~IsStarted(c) /\ c.watched

StartWatchStream(c, at) ==
    HandleWatchStreamStart(Start([c EXCEPT !.pending = Nothing], at), at["online"])

\* Mutant: a stream that closes is reported and not started again.
OnWatchStreamCloseGivesUp(c, status, at) ==
    IF ShouldStartWatchStream(c)
    THEN HandleWatchStreamFailure([c EXCEPT !.pending = Nothing])
    ELSE UpdateState([c EXCEPT !.pending = Nothing], "Unknown")

OnWatchStreamClose(c, status, at) ==
    LET stopped == Assert([c EXCEPT !.pending = Nothing],
                          status = "ok" => ~ShouldStartWatchStream(c), "stopped while needed")
    IN  IF stopped.died # "no" THEN stopped
        ELSE IF ShouldStartWatchStream(stopped)
        THEN StartWatchStream(HandleWatchStreamFailure(stopped), at)
        ELSE UpdateState(stopped, "Unknown")

\* The status "ok" means the client stopped the stream, or the server ended it
\* with that status.
Close(c, status, at) ==
    IF status = "ok" /\ ~IsStarted(c) THEN c
    ELSE OnWatchStreamClose(
             [Cancel(Assert(c, IsStarted(c), "not started"), "backoff") EXCEPT
                 !.closes = @ + 1,
                 !.base = IF status = "ok" THEN 0
                          ELSE IF status = "exhausted" THEN MaxDelay ELSE @,
                 !.stream = IF status = "ok" THEN "Initial" ELSE "Error"],
             status, at)

\* Every response of the server.
OnStreamResponse(c) == UpdateState([c EXCEPT !.base = 0], "Online")

----------------------------------------------------------------------------
(* The listener above the connection: FSTEventManager, FSTSyncEngine.       *)

\* Mutant: only snapshots of the server raise events.
OnlineStateUnheard(online) == UNCHANGED clientVars

\* A listener that waits for its first event stops waiting when offline.
ApplyChangedOnlineState(online) ==
    IF online = "Offline" /\ listen = "waiting"
    THEN /\ listen' = "raised"
         /\ events' = Append(events, Snapshot({}))
         /\ UNCHANGED <<cloud, writes, cache, view>>
    ELSE UNCHANGED clientVars

\* The first event tells all documents, a later one what has changed.
NewView(docs) ==
    /\ cache' = docs
    /\ view' = docs
    /\ IF listen = "waiting"
       THEN /\ listen' = "raised"
            /\ events' = Append(events, Snapshot(Changes({}, docs)))
       ELSE /\ UNCHANGED listen
            /\ events' = IF Changes(view, docs) = {} THEN events
                         ELSE Append(events, Snapshot(Changes(view, docs)))
    /\ UNCHANGED <<cloud, writes>>

----------------------------------------------------------------------------
(* Steps of the worker queue.                                               *)

Addresses == {at \in [Timer -> Address] : at["online"] # at["backoff"]}

\* A handler changes the connection, and the listener hears of its new state.
Handle(c) ==
    /\ conn.died = "no"
    /\ conn' = c
    /\ ApplyChangedOnlineState(c.online)
    /\ UNCHANGED launches

Listen ==
    /\ conn.died = "no"
    /\ StartListening
    /\ \E at \in Addresses : conn' = StartWatchStream([conn EXCEPT !.watched = TRUE], at)
    /\ UNCHANGED <<told, launches>>

CanClose == conn.closes < MaxCloses

\* A token opens the stream it was asked for, unless that has been closed.
\* The query is sent at once, to be resumed from what the phone has.
TokenAnswered(n) ==
    /\ n \in conn.asked
    /\ LET c == [conn EXCEPT !.asked = @ \ {n}]
       IN  IF n # conn.closes
           THEN Handle(c) /\ UNCHANGED told
           ELSE /\ Handle([Assert(c, c.stream = "Starting", "not starting") EXCEPT
                               !.stream = "Open"])
                /\ told' = cache

\* Mutant: the stream goes on waiting for the token.
TokenRefusedUnnoticed(n) ==
    /\ n \in conn.asked
    /\ Handle([conn EXCEPT !.asked = @ \ {n}])
    /\ UNCHANGED told

TokenRefused(n) ==
    /\ n \in conn.asked
    /\ \E at \in Addresses :
           LET c == [conn EXCEPT !.asked = @ \ {n}]
           IN  IF n # conn.closes THEN Handle(c)
               ELSE CanClose /\ Handle(Close(c, "unavailable", at))
    /\ UNCHANGED told

\* The server fails or ends the call, sends what cannot be parsed, or the
\* network changes.
StreamFinished(status) ==
    /\ conn.stream = "Open"
    /\ CanClose
    /\ \E at \in Addresses : Handle(Close(conn, status, at))
    /\ UNCHANGED told

\* The time the tracker allows has passed.
OnlineTimeout ==
    /\ conn.slot["online"] # Nowhere
    /\ Handle([Assert(conn, conn.online = "Unknown", "timer not cancelled") EXCEPT
                   !.slot["online"] = Nowhere, !.handle["online"] = Nowhere,
                   !.online = "Offline"])
    /\ UNCHANGED told

\* The handle keeps naming the operation that has run.
BackoffElapsed ==
    /\ conn.slot["backoff"] # Nowhere
    /\ \E at \in Addresses :
           Handle(Start([Assert(conn, conn.stream = "Backoff", "not in backoff") EXCEPT
                             !.slot["backoff"] = Nowhere, !.stream = "Initial"], at))
    /\ UNCHANGED told

\* Another user, or another token of the same user.
HandleCredentialChange ==
    /\ IsStarted(conn) => CanClose
    /\ \E at \in Addresses :
           LET stopped == Close([conn EXCEPT !.enabled = FALSE], "ok", at)
               enabled == [UpdateState(stopped, "Unknown") EXCEPT
                               !.enabled = TRUE, !.pending = Nothing]
           IN  Handle(IF ShouldStartWatchStream(enabled) THEN StartWatchStream(enabled, at)
                      ELSE UpdateState(enabled, "Unknown"))
    /\ UNCHANGED told

----------------------------------------------------------------------------
(* Responses of the server, which watches the query on an open stream.      *)

Watching == conn.died = "no" /\ conn.stream = "Open" /\ conn.watched

\* Mutant: a document that leaves the query stays among those to be updated.
AddedToPending(p, d) == [updated |-> p.updated \cup {d}, removed |-> p.removed \ {d.id}]

\* A later change of a document takes the place of an earlier one.
AddDocument(p, d) ==
    [updated |-> {u \in p.updated : u.id # d.id} \cup {d}, removed |-> p.removed \ {d.id}]

RemoveDocument(p, i) ==
    [updated |-> {u \in p.updated : u.id # i}, removed |-> p.removed \cup {i}]

Apply(p, docs) ==
    {d \in docs : d.id \notin p.removed \cup Ids(p.updated)} \cup p.updated

DocumentChanged(d) ==
    /\ Watching
    /\ told' = {t \in told : t.id # d.id} \cup {d}
    /\ Handle([OnStreamResponse(conn) EXCEPT !.pending = AddDocument(@, d)])

DocumentRemoved(i) ==
    /\ Watching
    /\ told' = {t \in told : t.id # i}
    /\ Handle([OnStreamResponse(conn) EXCEPT !.pending = RemoveDocument(@, i)])

\* A global snapshot comes when the server has told all there is to tell.
RaiseWatchSnapshot ==
    /\ Watching
    /\ told = cloud
    /\ conn' = [OnStreamResponse(conn) EXCEPT !.pending = Nothing]
    /\ NewView(Apply(conn.pending, cache))
    /\ UNCHANGED <<told, launches>>

\* An error on the target: the listener is removed and told.  The target's state
\* goes with it; documents that were collected stay until the stream closes.
ProcessTargetError ==
    /\ Watching
    /\ conn' = [OnStreamResponse(conn) EXCEPT !.watched = FALSE, !.pending.removed = {}]
    /\ RejectListen
    /\ UNCHANGED <<told, launches>>

ServerTells ==
    \/ \E d \in cloud \ told : DocumentChanged(d)
    \/ \E i \in Ids(told) \ Ids(cloud) : DocumentRemoved(i)
    \/ RaiseWatchSnapshot

----------------------------------------------------------------------------

\* A new process of the app, after a crash or a user's swipe.
Relaunch ==
    /\ launches < MaxLaunches
    /\ launches' = launches + 1
    /\ DropProcess
    /\ conn' = NewConnection
    /\ UNCHANGED told

TokenStep == \E n \in conn.asked : TokenAnswered(n) \/ TokenRefused(n)

Next ==
    \/ WriterStep /\ UNCHANGED <<conn, told, launches>>
    \/ \E kind \in {"snapshot", "error"} :
           conn.died = "no" /\ TakeEvent(kind) /\ UNCHANGED <<conn, told, launches>>
    \/ Listen
    \/ TokenStep
    \/ \E status \in Status : StreamFinished(status)
    \/ OnlineTimeout
    \/ BackoffElapsed
    \/ HandleCredentialChange
    \/ ServerTells
    \/ ProcessTargetError
    \/ Relaunch

Spec == Init /\ [][Next]_vars

\* The executor runs what is due; nothing is owed by network or server.
TimedSpec == Spec /\ WF_vars(OnlineTimeout) /\ WF_vars(BackoffElapsed)

----------------------------------------------------------------------------
(* Properties.                                                              *)

\* No HARD_ASSERT of tracker, stream, executor or store fails, in whatever order
\* timeouts, answers and changes of credentials come - but for the one that
\* takes the status "ok" for a stop of the client's own, which fails when the
\* server ends the call without an error.
AssertionsHold ==
    [][(conn.died = "no" /\ conn'.died # "no") => StreamFinished("ok")]_vars

\* While the query is listened to there is always an attempt that goes on: a
\* token asked for, an open stream, or a retry on the executor's schedule,
\* also when addresses of delayed operations are used again.
NeverGivesUp ==
    (conn.watched /\ conn.died = "no") =>
        \/ conn.stream = "Open"
        \/ conn.stream = "Starting" /\ conn.closes \in conn.asked
        \/ conn.stream = "Backoff" /\ conn.slot["backoff"] = conn.handle["backoff"]
                                   /\ conn.slot["backoff"] # Nowhere

\* "Online" is said of an open stream only, and "unknown" of an attempt that is
\* still timed.
OnlineStateHonest ==
    conn.died = "no" =>
        /\ conn.online = "Online" => conn.stream = "Open"
        /\ (conn.watched /\ conn.online = "Unknown") => conn.slot["online"] # Nowhere

\* The listener is brought up to date and told its events just as
\* FirestoreClient says, which the app's controller is built on.
ImplementsClient == ClientInit /\ [][ClientNext]_clientVars

\* The first event does not wait for ever for a server that cannot be reached:
\* the timeout sees to it whatever the network does.
FirstEventComes ==
    (listen = "waiting" /\ conn.online = "Unknown")
        ~> (listen # "waiting" \/ conn.online = "Online" \/ conn.died # "no")

\* Tokens are answered and the server talks.
NetworkReturns == WF_vars(TokenStep) /\ WF_vars(ServerTells)

\* Then the phone catches up with the collection by itself.
CatchesUp ==
    NetworkReturns =>
        <>[](listen \in {"off", "failed"} \/ view = cloud \/ conn.died # "no")
=============================================================================
