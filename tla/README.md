# Verification of the smart weather project

The repository holds a small system: a Raspberry Pi measures a room and stores
the readings in a Firestore collection (`src/Python/Sensor.py`), and an iOS app
shows them live (`src/iOS/2019S1 Lab 3`). This directory models its logic in
TLA+, checks the models with TLC and proves theorems about the core with TLAPS.

The hand-written program is about 1,700 lines. The rest of the repository is
vendored pods; of those only the Firestore query path and the connection under
it are modelled, because the app's correctness rests on what they report and
when. The other pods (BoringSSL, gRPC's core, protobuf, leveldb and the rest)
are nearly all of the repository's lines, and none of the program's logic.

## Inventory

    Sensor.py --add--> [collection "Sensor"] --watch--> Firestore client
                                                            |  ^ watch stream, gRPC call
                                                            | events, main queue
                                                     FirebaseController
                                                            | onDataListChange
                                 Home screen     Colour screen     History table -> Details
                                  |      |
                        weather service  GIF decoder

| Component | State | Operations | Hard behaviour | What makes it correct |
|---|---|---|---|---|
| Sensor station (`Sensor.py`) | place in the loop, chip mode, collection, two files | start, measure, check the network, upload or park, record | ends after any statement; `add` fails ambiguously; the network check raises | stored exactly once, in order; at most one sample unrecorded per run; each altitude read in altimeter mode |
| Firestore client (pods) | persisted copy, query view, queued events | start listening, synchronise, fail | persisted copy first, server later; events wait for the main queue | an event is the difference of two view states |
| Watch connection (pods: remote store, watch stream, backoff, online state, delayed operations) | stream state, tokens asked for, pending changes, online state, two timers and their handles | listen, token, close, retry, time out, change credentials, collect and raise changes | stale answers; handles that outlive their operation; a break between changes and snapshot | an attempt is always under way; the online state is true; the query view's specification is implemented |
| gRPC stream (pods) | the call, completions at gRPC and on the worker queue, buffered writes | start, read, write, finish, shut down | two threads; completions that cannot be taken back; a blocking drain | deleted with nothing left behind, never blocked for ever, end reported |
| `FirebaseController` | sign-in, `dataList`, registered screens | sign in, listen, parse, register, unregister | snapshots against registration; partly malformed snapshots; relaunch; failed listener | list = readable collection, each document once; registered screens current |
| Home screen | newest reading, mood, picture, weather labels and icon, requests in flight | list change, location update, answers, main-queue blocks | four queues finish in any order | picture fits the mood, "warmer" means warmer |
| Colour screen | newest reading, ten swatches, two gauges | list change, delayed gauge update | the update reads the newest reading a second later | gauges settle on the newest reading |
| History table, details | sorted list, selected row | list change, row tap, segue | lists that come while the table is hidden or under its details | every listed reading, newest first |
| Gauge view, GIF decoder | none (pure) | needle angle; frame delays | off the dial; skipped frames | angle on the dial; each frame shown in proportion to its delay |
| Application delegate, tabs | visible tab | launch, appear, disappear | the controller must exist before the screens | the visible screen is registered |

The repository's `README.md` also names alerts for sudden temperature changes
and for lights left on, and humidity and motion sensors. No code implements any
of these, so there is nothing to model.

## Modules

### `FirestoreClient`: collection and client library

`cloud`, `cache` and `view` are three copies of the collection: the server's,
the one persisted on the phone (`FIRFirestoreSettings.mm`, on by default) and
the query view's. `Changes(old, new)` is what `FSTView.mm` computes between two
document sets, and an `Event` is one call of the app's snapshot listener,
waiting on the main queue (`FSTAsyncQueryListener.mm`).

- `StartListening` is `addListener:` of `FSTEventManager.mm`: a non-empty
  persisted copy is reported at once, an empty one waits for the server.
- `RaiseEmptyOffline` is the empty first event while offline.
- `SyncWithServer` applies a consistent snapshot of the server. After the first
  event a snapshot without changes is not raised.
- `RejectListen` removes the listener with one error event.
- `AddDoc` is the station's `add`. `EditDoc` and `RemoveDoc` are other clients
  or the console, enabled by the constant `MayEdit`.

Left out: local writes, query limits, metadata changes, limbo documents. The
connection below the view is `WatchConnection`. The app has one listener without order or limit and never
writes. A document's key is random, so the order of the changes inside an
event carries no information and events hold a set of changes.

### `WatchConnection`: how the client stays connected

Extends `FirestoreClient` and implements it (`ImplementsClient`): the abstract
`SyncWithServer` is here a stream that is opened, told of changes and snapshots
and broken. Everything runs on the client's worker queue, so a handler is one
action. Methods call each other through several objects (`remote_store.mm`,
`stream.mm`, `online_state_tracker.cc`, `exponential_backoff.cc`), so a method
is an operator from the connection `conn` to the connection, and a handler is a
composition of them in the order of the calls. A failed `HARD_ASSERT` is
recorded in `conn.died` and ends the process.

- `Listen`, `HandleCredentialChange`, `TokenAnswered`, `TokenRefused`,
  `StreamFinished`, `BackoffElapsed` and `OnlineTimeout` are the entries to the
  worker queue. A token answer carries the number of closes it was asked
  before (`closes`), and one for an older stream is dropped.
- `slot` is the executor's schedule and `handle` what tracker and backoff
  remember of it. A handle is an address; when the operation is gone another
  may get the same address, and `Cancel` takes whatever is there.
- `DocumentChanged` and `DocumentRemoved` collect changes (`pending`),
  `RaiseWatchSnapshot` applies them to the view, `ProcessTargetError` rejects
  the listener. `told` is what this stream has been told.

The server's messages are received when they are sent: messages in flight on an
ordered stream that breaks are those the server has not sent.

### `GrpcStream` and `StreamObserver`: one call of the stream

`GrpcStream` is one `GrpcStream` object between the worker queue and gRPC's
polling thread. `grpc` are the completions gRPC holds, `workerQueue` those that
wait to run. `Complete` is the polling thread, which takes completions of
different types in any order; `Run` is the next block of the worker. `Shutdown`
cancels the call and blocks (`worker`) until every completion is off gRPC's
queue; `OffQueue` ends the wait. `call` is the environment: the server or the network may fail it at any time.

`StreamObserver` is the promise to the object that watches the stream: start
once, messages in order, the end at most once, nothing afterwards. `GrpcStream`
implements it (`KeepsPromise`).

### `FirebaseController`: the app's data source

Each callback on the main queue is one action. `SignInSucceeds` is the sign-in
callback with the `setUpListeners` it calls. `SignInFails` is its `fatalError`.
`OnSnapshot` is the listener closure with `parseHeroesSnapshot`, the parsing of
each change and the call of every registered screen. `AddListener` replays the
list to the new screen. `Relaunch` is a new process: only the persisted copy
survives. A document is an id and a content, and `WellFormed` are the contents
`dataChecker` lets through.

### `LiveReadings`: what the list promises

The abstract specification. The app knows a growing part of what is stored,
and a screen shows something the app knew at some moment of this launch. So two
screens always show nested sets, and nothing leaves a screen before a restart.
`FirebaseController` implements it with `stored <- cloud`,
`known <- Range(dataList)` and `shown <-` the sets of documents last passed to
each screen.

### `SensorStation`: the script

`pc` names the next statement of the loop. Statements that raise end the
script, since nothing catches them except the interrupt handler outside the
loop. `Fault` is an interrupt, a bus error or a power cut before any statement.
`Restart` starts a new run; the collection and both files survive. Samples
carry a number the code does not have (its own "Number" is always 1) and the
chip mode the altitude was read in. Sleeps between a mode change and the next
read let the registers settle, so a read returns what the mode says.

### `EndToEnd`: from the sensors to the screens

Extends `SensorStation` and instantiates `FirebaseController` with a collection
nobody else writes to. `AddSample` is the station's upload and the controller's
`AddDoc` in one step: the sample in hand becomes a document with an id of its
own. Every other step belongs to one side and leaves the other alone, so each
side goes on as its own specification says by construction; that is a lemma for
the proofs and no property. The station's collection is a sequence of samples
and the controller's a set of documents; the proofs tie them (`SameCollection`).

### `SampleJourney`: what the whole promises of a sample

The abstract specification of the way from the sensors to the list, in five
sets and counters that mention neither statements, documents, snapshots nor
queues. A sample newer than all before it is sent or parked, and only if each
run, this one included, has left at most one sample unrecorded so far; only the
newest sample kept can still be recorded; a launch of the app lists more and
more of what was sent; a new launch starts with nothing. `EndToEnd` implements
it with `sent`, `parked` and `recorded` the samples in the collection and the
two files, and `listed` those in `dataList`. An upload that fails after the
server stored the sample is a `Send` all the same.

### `HomeScreen`: mood and weather

Pictures being decoded (`loads`), weather requests and icon requests in flight
are counted per kind, so any of them may finish next. Main-queue blocks are a
sequence. An answer is handled on the session's queue, one after the other, in
two steps: `WeatherAnswered` stores `apiTemperature` (line 183 of
`HomeScreenViewController.swift`) and `QueueLabels` puts the labels' block on
the main queue (line 184). In between, `answering` holds the answer and the main
queue may compare a reading with the new temperature. The two queues share
`apiTemperature` without a lock; it is one word, so a read gives the old or the
new value, which is what the order of the steps gives. `ShowNoSky` is the
labels' block of a report whose weather array is empty. Forced unwraps that fail
and that index out of range clear `alive`, after which nothing happens.
Temperatures are in hundredths of a degree.

### `Screens`: the app around the controller

Extends `FirebaseController` with the state of the screens. Each step is one of
the controller's with what the screens do in it, or leaves the controller
alone: `SnapshotShown` is `OnSnapshot` together with the `onDataListChange` of
every registered screen, `Appear` is `viewWillAppear` with `AddListener` and
the screen's reaction, `Disappear` is `viewWillDisappear`. A tab that is
selected appears before or after the old one disappears, and snapshots may come
in between. `Sorted` is the sort by the text of the Unix time: `TextGreater`
compares numbers digit by digit as texts do, and readings of the same time may
come in any order. `HomeChange`, `ColourChange` and `TableChange` are what the
three screens keep of the sorted list. `UpdateGauges` is the block a second
later. The texts of a content are numbers or not, part by part (`Numbers`): the
home screen parses temperatures, the colour screen and the table colours, the
gauges pressure and altitude, and parsing another text clears `alive`.

### `GifDecoder`: frames of an animated picture

`animatedImageWithSource` with the loops of `gcdForArray` and `gcdForPair`, one
iteration a step, for a file of pictures with a delay and a chance of not being
decodable. Equal frames in a row are one record with a count.
`Milliseconds` keeps the truncation of `Int(seconds * 1000)`: below four
seconds it bites at 2.01 and 2.03.

### `MC*` and `*Proofs`

The `MC` modules hold the instances for TLC. The eight modules
`FirebaseControllerProofs`, `ScreensProofs`, `SensorStationProofs`,
`EndToEndProofs`, `GifDecoderProofs`, `GrpcStreamProofs`, `HomeScreenProofs`
and `WatchConnectionProofs` hold the theorems. Every type invariant is proved;
the runs check only those of `Screens` and `WatchConnection`. An operator whose comment starts with "Mutant" is a plausible bug of the operator it precedes:
put in that operator's place, it must make the run of the property it is
listed with in `PROJECT.json` fail.

## Runs

| Run | Question | Bounds |
|---|---|---|
| `controller_append` | Is the list the readable collection, each document once, on every registered screen, in the end, and does the whole implement `LiveReadings`? | 3 ids, 2 contents (one malformed), 3 writes, 2 screens, 2 launches |
| `history_after_edits` | Is the list still the collection then? No: see below. | 2 ids, 3 contents, 3 writes, 2 launches |
| `station_to_app` | Are samples stored once, in order, with bounded loss, and does the app list each once and, in the end, all that were recorded and not parked; does the whole implement `SampleJourney`? | 2 samples, 3 runs, 1 fault besides failing requests, 2 launches, 1 screen |
| `station_offline` | Is every sample stored somewhere? No. | 2 samples, 1 run, no other fault |
| `station_altitude` | Is every altitude read in altimeter mode? No. | 3 samples, 1 run, no fault |
| `home_screen` | Is the comparison temperature always that of the answer being handled or of the labels to come, and is every picture shown? | 2 readings, 1 move (2 requests), 2 places |
| `home_gif_mood` | Does the picture settle on the mood? No. | 2 readings |
| `home_warmer` | Does "warmer" mean warmer? No. | 1 reading, 9 temperatures at the bands' borders |
| `screens` | Does the screen shown hold the newest readings in order, do the gauges settle, and what ends the app? | 3 ids, 2 times, 3 writes, 2 launches, 3 touches, 1 swatch; symmetric in ids |
| `watch_connection` | Does the client always try, is its online state true, do assertions hold, and does it implement the query view and catch up? | 2 ids, 2 contents, 2 writes (edits and deletions too), 2 addresses, delays of 1 to 60 s, 2 closes in a process, 2 launches |
| `grpc_stream` | Can a stream be ended at any moment, and is its observer served as promised? | 3 messages, 3 writes |
| `gif_frames` | Is each picture shown for its delay, and do the loops end? | 3 pictures, 4 delays in each of 2 fields |

Why the bounds suffice. Three documents let one be persisted, one be in a
queued event and one be on the server only, which is every combination
`ExactlyOnce` can be violated by. Two launches give a persisted copy to start
from. Two screens give one registered and one that is not. Two requests or two
pictures in flight are the least that can be reordered. One swatch and three
readings give a newest, a next and one that is not shown, and two times for
three readings force ties. Three touches reach the details and leave them, or
leave the colour screen with an update due and come back. The times of
`screens` have equally many digits, as Unix times have from 2001 to 2286.
Three delays make the fold use the divisor of the first two, and the four
delays include a truncated one, a default, and pairs whose divisor is neither
of them. Two samples and three starts let two runs end at any statement and a
third finish; the invariants of the stores are proved for all bounds. Two
closes in a process reach every delay before a retry that differs in kind
(none, the first one; the growth to the maximum is `ClampDelay`, tried at both
ends), and a second token is then asked for while the first is still out. Two
addresses are the least for two timers and let each take the other's. Two
writes and edits let a document leave the query and come back between two
snapshots. Three messages and three writes let one be at gRPC, one on the
worker queue or in the buffer, and one be delivered. Every bound
is a constant that only guards counters (`writes`, `launches`, `taken`,
`starts`, `faults`, `readings`, `moves`, `touches`, `closes`).

`CHECK_DEADLOCK` is off because each system really stops: a process that died
is not restarted once the launches or starts are used up.

### Disagreements found

- **History after an edit or deletion** (`history_after_edits`). The change's
  type is ignored: an edited document is listed in both versions, a deleted one
  is appended again.
- **Offline samples** (`station_offline`). Without a network the connectivity
  check raises, so the branch that writes to the offline file is reached only
  by an HTTP error status.
- **Altitude** (`station_altitude`). The chip stays in barometer mode after the
  first iteration.
- **Picture, comparison** (`home_gif_mood`, `home_warmer`). The first is a
  reordering of completions. The second compares Kelvin with Celsius.

Two remarks on the pods, stated in the properties rather than as findings.
`remote_store.mm:218` asserts that a close with status OK happens only when the
stream is no longer needed; a server that ends the call with OK fails it, so
`AssertionsHold` of `WatchConnection` excepts exactly that step. A comment at
`grpc_stream.cc:233` rules out writes while the status of a failed call is
awaited; the model shows one may be issued then, and that it is drained with
the rest.

## Fairness

`FirebaseController`: the sign-in request is answered, the client synchronises
while the view differs from the server, and the main queue runs snapshots. The
second is the claim that a phone without a network finds it again: `CatchesUp`
of `WatchConnection` shows that the client reconnects by itself once tokens are
answered and the server talks, however often that failed before. Writers, screens, failures and relaunches owe nothing.
`HomeScreen`: each decoding ends and the main queue runs; no network answer is
owed. `GifDecoder` runs on one thread to its end (`WF_vars(Next)`).
`WatchConnection`: delayed operations run (`TimedSpec`), which is the executor's
promise; nothing is owed by the network except where a property says so
(`NetworkReturns`). `GrpcStream`: the worker runs its blocks and gRPC completes
operations of a call that is cancelled, has failed or can answer.
`EndToEnd` takes the controller's fairness over; the station owes nothing.
`Screens` states no liveness.

## Proofs

For any sets of ids, contents and screens and any bounds. The assumptions are
`ClientAssumption` and `ControllerAssumption` (bounds are numbers, well-formed
contents are contents), for the screens `ScreensAssumption`, for the station
and the whole `StationAssumption` and `WholeAssumption` (bounds are numbers),
for the decoder `GifAssumption` (delays are hundredths of a second below four
seconds), for the stream `StreamAssumption`, for the connection
`ConnectionAssumption` (bounds and delays are numbers, the first delay is not
above the longest, the app is launched at least once, and no address means
"nowhere"), and for the home screen `HomeAssumption` (temperatures are numbers,
and `None` is not an answer).

Two hypotheses are of single theorems. "Without edits" is `~MayEdit`, a
collection only the station writes to. `SameDigits` says that all times have
equally many digits, as Unix times have from 2001 to 2286; the screens compare
times as texts, and without it "newest" would be false.

| Theorem | Statement |
|---|---|
| `TypeCorrect` | `Spec => []TypeOK` |
| `ScreensCurrent` | `Spec => []RegisteredCurrent` |
| `NoneMissing` | `Spec => []NothingMissing`, edits and deletions included |
| `AppendOnlyInvariant` | `Spec => []AppendOnlyInv` |
| `ListedOnce` | `Spec => []ExactlyOnce` |
| `HistoryCorrect` | without edits, `Spec => []HistoryMatchesCollection` |
| `LiveRefinement` | without edits, `Spec => ImplementsLiveReadings` |
| `AppHistory` | `ExactlyOnce`, `NothingMissing` and `RegisteredCurrent` hold of the whole app |
| `GaugesSettle` | `ScreensSpec => []GaugesSettled` |
| `ScreensTypeCorrect` | `ScreensSpec => []ScreensTypeOK` |
| `ListsArranged` | `ScreensSpec => []Arranged` |
| `NewestShown` | with `SameDigits`, `ScreensSpec => []VisibleNewest` |
| `TableShowsHistory` | with `SameDigits`, `ScreensSpec => []TableIsHistory` |
| `SwatchesShown` | with `SameDigits` and without edits, `ScreensSpec => []SwatchesAreNextNewest` |
| `OnlyTextKills` | `ScreensSpec => []DiesOfTextOnly` |
| `StationTypeCorrect` | `Spec => []TypeOK` of the station |
| `StorageInvariant` | `Spec => []StorageInv` |
| `StoredInOrder` | `Spec => []StoredOnceInOrder` |
| `LossBounded` | `Spec => []LossPerRun` |
| `RecordedStored` | `Spec => []RecordedIsStored` |
| `SamplesListedOnce` | `WholeSpec => []SampleListedOnce` |
| `FilesExplain` | `WholeSpec => []FilesExplainList` |
| `WholeImplementsJourney` | `WholeSpec => ImplementsJourney`: each step of station, server and phone is a step of `SampleJourney` or a stutter |
| `DecoderTypeCorrect` | `Spec => []TypeOK` of the decoder: delays and divisor positive, indices in range |
| `OnlyBadPicturesTrap` | `Spec => []TrapsOnBadPicture` |
| `DivisorIsGreatest` | `Spec => []GcdIsGreatest` |
| `DelaysKept` | `Spec => []EachShownForItsDelay` |
| `StreamInvariant` | `Spec => []StreamInv` |
| `StreamTypeCorrect` | `Spec => []TypeOK` of the stream |
| `NoAssertionFails` | `Spec => []AssertionsHold` of the stream |
| `DeletedSafely` | `Spec => []ReleasedSafely` |
| `FlowInvariant` | `Spec => []Flow` |
| `OneOperationAtATime` | `Spec => []OneAtATimeInOrder` |
| `NeverDeaf` | `Spec => []AlwaysReading` |
| `StreamRefinesObserver` | `Spec => KeepsPromise`: each step of the stream is a step of `StreamObserver` or a stutter |
| `HomeTypeCorrect` | `Spec => []TypeOK` of the home screen |
| `LabelsFollow` | `Spec => []LabelsFollowTemperature` |
| `ConnectionInvariant` | `Spec => []ConnInv` |
| `ConnectionTypeCorrect` | `Spec => []ConnectionTypeOK` |
| `AttemptGoesOn` | `Spec => []NeverGivesUp` |
| `OnlineStateIsHonest` | `Spec => []OnlineStateHonest` |
| `NoOtherAssertionFails` | `Spec => AssertionsHold` of the connection: only a close with status OK by the server fails one |
| `ConnectionRefinesClient` | `Spec => ImplementsClient`, edits and deletions included: each handler is a step of `FirestoreClient` or a stutter |

The first seven are in `FirebaseControllerProofs`, then eight in
`ScreensProofs`, five in `SensorStationProofs`, three in `EndToEndProofs`, four
in `GifDecoderProofs`, eight in `GrpcStreamProofs`, two in `HomeScreenProofs`
and six in `WatchConnectionProofs`.

`TypeOK` says that every event is finite. The proof needs it to know that a
snapshot's documents can be put in an order at all (`OrdersType`).
`RegisteredCurrent` and `NothingMissing` are inductive relative to it.

`ExactlyOnce` is not inductive. A snapshot could bring a document already
listed, or two queued events could bring the same one. `AppendOnlyInv`
excludes both: list, queued events and the rest of the server's collection
never overlap, because the list and the queue hold only what is in the view
and a new event holds only what is not (`OnlyAdded`, `FreshAppend`,
`FreshTail`). It also needs that ids are unique on the server and that the
persisted copy and the view trail it, which is where edits would break it.
`HistoryCorrect` is this invariant together with `NothingMissing`. The
refinement maps a snapshot to `Learn` for all registered screens, registration
to `Learn` for one, a relaunch to `Restart`, `add` to `Store`, and everything
else to a stutter.

`GaugesSettled` becomes inductive as `GaugesDue`, which drops the condition
that the app is alive and adds that the updates still to come are a number:
whatever changes the newest reading schedules an update.

What the screens show is the invariant `Arranged`: a screen that is registered
made it of some sorted order of the present list, because both a list that is
passed on and an appearance replace it, and a list cannot change without being
passed on (`ListSteps`). `SortedList` and `SortedTimes` say what a sorted order
holds and, among times of equally many digits, that it goes from new to old.
`Arranged` also says that a swatch with no reading for it is blank: the screen
fills the others and never clears one, so this needs that a list only grows
within a launch (`ListGrows`). `SwatchesAreNextNewest` counts readings and
therefore uses `ExactlyOnce` from the controller, which is where edits would
break it. `DiesOfTextOnly` becomes inductive as `Stored`: rows and the reading
the gauges will be set to come from the list, so no blank text is ever parsed.

The station's properties are none of them inductive: a step that appends a
sample must know that the sample is not stored yet. `StorageInv` adds where the
sample in hand is, by statement (`InHandIsNew`: the last one built, in no file
before it is stored, in one but not recorded before it is recorded), and that
the files hold built samples only and split what is stored (`Filed`).
`LossPerRun` is then kept because only a step that ends a run leaves a sample
unrecorded, and the next run counts one more start.

End to end, the station's and the controller's theorems hold of the whole,
whose steps conjoin theirs (`PartsUnchanged`; `ControllerInApp` is the same
for the screens); the second through an instance of `FirebaseControllerProofs`
with the constants of `EndToEnd`. What links them is `SameCollection`: the
documents hold the samples the station has stored, each in one document, which
needs `StorageInv` to know that an upload is of a new sample. From there
`SamplesListedOnce` follows from the controller's `ExactlyOnce` and
`FilesExplain` from `Filed` and `LossPerRun`. `WholeImplementsJourney` needs all
of them. That the sample in hand may be sent or parked is `InHandIsNew`, `Filed`
and `LossPerRun` at those statements (`InHandMayBeKept`); that it may be
recorded is `InHandIsNew` and `Filed`; and that a snapshot is a `Learn` follows
because it appends to the list (`SnapshotStep`) and because what is listed
afterwards is, by the controller's invariant and `SameCollection`, in the
station's collection (`ListedSent`).

The decoder computes a greatest common divisor by two nested loops, so its
proof is one of loop invariants: a round of Euclid's loop keeps the common
divisors of its pair (`EuclidStep`), hence at every step the divisors of what
is left to do are those of all delays (`CommonDivisorsKept`). That each picture
is repeated in proportion to its delay then needs what has been decoded and
expanded so far (`Decoded`, `Expanded`) and that the divisor divides each delay,
so that the integer division loses nothing.

A stream is safe to delete because of `StreamInv`. Every completion that may
call the stream is listed by it (`Held`, `Ended`); while the worker blocks in
`Shutdown` or for a failed call no listed one is left at gRPC or on the worker
queue (`QuietHeld`, `QuietEnded`); after the deletion gRPC holds nothing
(`Queues`). `died = FALSE` is kept with it, because whether an assertion fails
depends on which completions can still run.

What flows through a stream is `Flow`, on top of `StreamInv`. Its parts are that
no two completions of a type can call the stream, counted over gRPC and the
worker queue together (`Apart`); that a started, unfinished call has a live
read (`Started`); that the buffer continues what is on the wire, and waits only
while a write is out (`InTurn`); that at most one message is between gRPC and
the observer, and is the next one (`NoGap`); and when the observer is set
(`Ends`). `OneAtATimeInOrder` and `AlwaysReading` follow. The refinement needs
`NoGap` for the order of messages and `Ends` for the phases: `Start` opens,
a message that runs on the worker is the next one, `Released` tells of the end
unless the owner has ended the stream, and every other step leaves the observer
as it was.

The connection's methods are operators on records, so the proof follows the
code: one lemma for each method (`StartGood`, `CloseRestarts`, `UpdateReady`,
...) and one for each handler that composes theirs. Between handlers the
connection is `Good`, inside them only `Ready` or `Closed`. The hard part is
that the handle of a retry that has run is not cleared and names an address
that may be used again; `Cancel` would then cancel the other timer. `Sound`
says that the online timer is never at the address a retry's handle names:
a timer is started only by an attempt from a stream that was closed or never
started, and closing clears the handle. The refinement rests on `Copies`: what
the server has told is what the pending changes make of the persisted copy,
and the view is that copy, so raising the pending changes is
`SyncWithServer`, or a stutter when they change nothing (`NoChanges`).
With it, what is proved of the controller rests on a client that is shown to
behave as assumed in safety.

For the home screen, `LabelsFollowTemperature` is made inductive by `Follows`.
At most one answer is being handled, since the session's queue is serial; while
one is, its temperature is the stored one, and when it is done its block is the
last of the labels' blocks. `LabelsTell` names that block as a witness, and
`CHOOSE` in `LatestQueued` then denotes it (`LatestTold`). Blocks run in the
order queued, so the last one decides what the labels show. The type invariant
is needed to know that answers in the queue are not `None`.

Only model-checked is liveness, which is beyond the prover: `EventuallyListed`,
`RecordedIsListed`, `EveryGifShown`, `Terminates`, `FirstEventComes`,
`CatchesUp`, `NeverStuck` and `FailureReported`. Every other property of a
passing run is a theorem. `Digits` counts up to ten digits, so the
theorems about the sorted list are about times below ten thousand million
seconds, the year 2286.

## Not modelled

Drawing, layout and animation; the storyboard; the unused Core Data model; the
text of log messages; pods other than the query path and its connection. Those
pods are third-party libraries that this program calls through Firestore only;
they make up more than nine tenths of the repository's lines.

Inside modelled parts: the conversion of sensor registers to values, and the
parsing of stored texts other than whether it fails. Of the watch connection:
existence filters, limbo documents and target resets, the idle timer and
removing the listener (the app never removes it), the write stream, the jitter
of the backoff. Of the gRPC stream: the last write with a deadline beyond its
wait, one-shot calls and response headers. The home screen's icon is modelled,
but no run asks about it; reordered icon answers are the same hazard as the
pictures'.

## Plan

In this order:

1. `HomeScreen` below `Screens`: the reading `HomeChange` picks as the input of
   `OnDataListChange`, and the gauges' liveness.
2. The register conversions, the bands of the mood and the needle's angle as
   pure operators against reference definitions over bounded inputs.
3. Proofs about these: `EndToEnd` with the screens on top, and the conversions'
   ranges.
