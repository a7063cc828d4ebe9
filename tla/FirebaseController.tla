------------------------ MODULE FirebaseController -------------------------
(***************************************************************************)
(* FirebaseController: signs in, listens to the collection, appends every  *)
(* reported document to dataList and passes the whole list to the          *)
(* registered screens.  Everything here runs on the main queue, so each    *)
(* callback is one action; between two of them the server, the client's    *)
(* worker queue and the user's navigation do as they like.                 *)
(***************************************************************************)
EXTENDS FirestoreClient, Functions

CONSTANTS
    WellFormed,  \* contents with every field present and of the right type
    Listener,    \* objects that may register as DatabaseListener
    MaxLaunches  \* bound: launches of the app in one behaviour

ASSUME ControllerAssumption ==
    /\ WellFormed \subseteq Content
    /\ MaxLaunches \in Nat \ {0}

VARIABLES
    auth,        \* sign-in: pending, done, or failed, which ends the process
    dataList,    \* every document parsed so far, in order of arrival
    delegates,   \* registered listeners
    received,    \* the list last passed to onDataListChange, per listener
    launches     \* launches so far; bounds the model

controllerVars == <<auth, dataList, delegates, received, launches>>
vars == <<clientVars, controllerVars>>

TypeOK ==
    /\ ClientTypeOK
    /\ auth \in {"signingIn", "signedIn", "fatal"}
    /\ dataList \in Seq(Doc)
    /\ delegates \in SUBSET Listener
    /\ received \in [Listener -> Seq(Doc)]
    /\ launches \in 1..MaxLaunches

Init ==
    /\ ClientInit
    /\ auth = "signingIn"
    /\ dataList = <<>>
    /\ delegates = {}
    /\ received = [l \in Listener |-> <<>>]
    /\ launches = 1

----------------------------------------------------------------------------
(* Sign-in.                                                                 *)

SignInSucceeds ==
    /\ auth = "signingIn"
    /\ auth' = "signedIn"
    /\ StartListening
    /\ UNCHANGED <<dataList, delegates, received, launches>>

SignInFails ==
    /\ auth = "signingIn"
    /\ auth' = "fatal"
    /\ UNCHANGED <<clientVars, dataList, delegates, received, launches>>

----------------------------------------------------------------------------
(* Snapshots.                                                               *)

\* Mutant: no check, every document counts as readable.
CheckNothing(doc) == doc.content \in Content

DataChecker(doc) == doc.content \in WellFormed

\* Mutant: the first document that does not pass ends the whole snapshot.
ParsedUnlessMalformed(changes) ==
    IF \A c \in changes : DataChecker(c.doc) THEN {c.doc : c \in changes} ELSE {}

\* The documents of a change set that are appended: all that pass the
\* checker.  The type of the change is not looked at, and a document that
\* does not pass leaves only its own turn of the forEach.
Parsed(changes) == {c.doc : c \in {x \in changes : DataChecker(x.doc)}}

\* All orders in which the documents of a set may come.
Orders(docs) == Bijection(1..Cardinality(docs), docs)

Invoke(list) ==
    received' = [l \in Listener |-> IF l \in delegates THEN list ELSE received[l]]

\* Mutant: the screens get the documents of this snapshot alone.
ParseAndPassDelta(changes) ==
    \E new \in Orders(Parsed(changes)) :
        /\ dataList' = dataList \o new
        /\ Invoke(new)

\* Mutant: snapshots that arrive while no screen listens are not kept.
ParseWhileWatched(changes) ==
    IF delegates = {}
    THEN UNCHANGED <<dataList, received>>
    ELSE \E new \in Orders(Parsed(changes)) :
            /\ dataList' = dataList \o new
            /\ Invoke(dataList')

\* Mutant: the list starts anew with every snapshot.
ParseAnew(changes) ==
    \E new \in Orders(Parsed(changes)) :
        /\ dataList' = new
        /\ Invoke(dataList')

ParseHeroesSnapshot(changes) ==
    \E new \in Orders(Parsed(changes)) :
        /\ dataList' = dataList \o new
        /\ Invoke(dataList')

OnSnapshot ==
    /\ TakeEvent("snapshot")
    /\ ParseHeroesSnapshot(Head(events).changes)
    /\ UNCHANGED <<auth, delegates, launches>>

\* The error is printed and nothing else happens.
OnListenError ==
    /\ TakeEvent("error")
    /\ UNCHANGED controllerVars

----------------------------------------------------------------------------
(* Registration, called by the screens.                                     *)

\* Mutant: a screen that registers waits for the next snapshot.
AddWithoutReplay(l) ==
    /\ auth # "fatal"
    /\ delegates' = delegates \cup {l}
    /\ UNCHANGED <<clientVars, auth, dataList, received, launches>>

AddListener(l) ==
    /\ auth # "fatal"
    /\ delegates' = delegates \cup {l}
    /\ received' = [received EXCEPT ![l] = dataList]
    /\ UNCHANGED <<clientVars, auth, dataList, launches>>

RemoveListener(l) ==
    /\ auth # "fatal"
    /\ delegates' = delegates \ {l}
    /\ UNCHANGED <<clientVars, auth, dataList, received, launches>>

\* The process is killed or has died, and the user opens the app again.
Relaunch ==
    /\ launches < MaxLaunches
    /\ launches' = launches + 1
    /\ DropProcess
    /\ auth' = "signingIn"
    /\ dataList' = <<>>
    /\ delegates' = {}
    /\ received' = [l \in Listener |-> <<>>]

----------------------------------------------------------------------------

AppStep ==
    \/ SignInSucceeds
    \/ SignInFails
    \/ OnSnapshot
    \/ OnListenError
    \/ \E l \in Listener : AddListener(l) \/ RemoveListener(l)
    \/ Relaunch

Next ==
    \/ AppStep
    \/ (WriterStep \/ ListenerStep) /\ UNCHANGED controllerVars

Spec == Init /\ [][Next]_vars

\* The screens, the writers and the user owe nothing.  Sign-in answers, a
\* phone that has lost the network finds it again, and the main queue runs.
Fairness ==
    /\ WF_vars(SignInSucceeds \/ SignInFails)
    /\ WF_vars(SyncWithServer /\ UNCHANGED controllerVars)
    /\ WF_vars(OnSnapshot)

FairSpec == Spec /\ Fairness

----------------------------------------------------------------------------
(* Properties.                                                              *)

Known == Range(dataList)

\* Documents on their way to the main queue.
Pending == {c.doc : c \in UNION {Changed(k) : k \in DOMAIN events}}

OnlyWellFormed(docs) == {d \in docs : d.content \in WellFormed}

\* A registered screen holds exactly the controller's list, however its
\* registration, its removal and the snapshots were interleaved: addListener
\* replays the list and every snapshot is passed on after it is appended.
RegisteredCurrent == \A l \in delegates : received[l] = dataList

\* Whatever the query view has shown the client and still holds is listed or
\* on its way: no snapshot that is malformed in part, relaunch from the
\* persisted copy, or screen that came late makes a readable document vanish.
NothingMissing == OnlyWellFormed(view) \subseteq Known \cup Pending

\* While documents are only added, no document is listed twice, across the
\* snapshot taken from the phone's persisted copy and the later server's.
ExactlyOnce ==
    ~MayEdit => \A j, k \in DOMAIN dataList : dataList[j].id = dataList[k].id => j = k

\* Each event added but still waiting brings only documents that are in the
\* view, not yet listed, and in no other event.
FreshEvents ==
    /\ \A k \in DOMAIN events : \A c \in Changed(k) :
           c.type = "added" /\ c.doc \in view /\ c.doc \notin Known
    /\ \A j, k \in DOMAIN events :
           j # k => \A c \in Changed(j), d \in Changed(k) : c.doc # d.doc

\* The strengthening of ExactlyOnce, HistoryMatchesCollection and the
\* refinement that the steps preserve: ids identify documents, both copies
\* trail the server, nothing precedes the listener, and list and events
\* split what the view holds.
AppendOnlyInv ==
    ~MayEdit =>
        /\ \A c, d \in cloud : c.id = d.id => c = d
        /\ cache \subseteq cloud /\ view \subseteq cloud
        /\ listen = "off" => view = {}
        /\ Known \subseteq OnlyWellFormed(view)
        /\ FreshEvents
        /\ \A j, k \in DOMAIN dataList : dataList[j].id = dataList[k].id => j = k

\* Once the phone has caught up and the main queue is drained, the list is
\* the readable part of the collection: "the historical data from the
\* database" the history screen is there to display.
HistoryMatchesCollection ==
    (listen = "raised" /\ view = cloud /\ events = <<>>)
        => Known = OnlyWellFormed(cloud)

\* A readable document is listed in the end, also after a relaunch, unless
\* sign-in fails, which kills the app, or the server rejects the listener,
\* which the app never adds again.
EventuallyListed ==
    \A i \in DocId :
        i \in Ids(OnlyWellFormed(cloud))
            ~> (i \in Ids(Known) \/ listen = "failed" \/ auth = "fatal")

Live == INSTANCE LiveReadings WITH
    Reading <- Doc,
    Screen <- Listener,
    stored <- cloud,
    known <- Known,
    shown <- [l \in Listener |-> Range(received[l])]

\* While documents are only added, controller and client library together are
\* the live list of readings: every callback is a step of it or a stutter, so
\* screens show nested parts of the collection and shrink only at a restart.
ImplementsLiveReadings == Live!Spec
============================================================================
