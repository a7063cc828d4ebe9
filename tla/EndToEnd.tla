------------------------------ MODULE EndToEnd ------------------------------
(***************************************************************************)
(* From the sensors to the screens: the station's script and the app share *)
(* nothing but the collection.  What the script adds is what the app's     *)
(* listener hears of; the script's files stay on the Raspberry Pi, and are *)
(* what its owner has to judge by.                                         *)
(*                                                                         *)
(* SensorStation's collection is the sequence of samples it has stored,    *)
(* FirebaseController's the set of documents that hold them.               *)
(***************************************************************************)
EXTENDS SensorStation

CONSTANTS
    DocId,        \* document ids of the collection
    Listener,     \* the app's screens
    MaxLaunches   \* bound: launches of the app

ASSUME WholeAssumption == MaxLaunches \in Nat \ {0}

VARIABLES docs, writes, cache, view, listen, events,         \* FirestoreClient
          auth, dataList, delegates, received, launches      \* FirebaseController

\* A document's content is the sample it holds; the station writes all ten
\* fields, of the types the app expects.
App == INSTANCE FirebaseController WITH
    cloud <- docs,
    Content <- 1..MaxSamples,
    WellFormed <- 1..MaxSamples,
    MayEdit <- FALSE,
    MaxWrites <- MaxSamples

appVars == <<docs, writes, cache, view, listen, events,
             auth, dataList, delegates, received, launches>>

wholeVars == <<vars, appVars>>

WholeInit == Init /\ App!Init

\* add gives the sample a document with an id of its own.
AddSample ==
    /\ \E i \in DocId : App!AddDoc(i, current.n)
    /\ UNCHANGED <<auth, dataList, delegates, received, launches>>

\* The script runs, with faults and restarts.
StationStep ==
    \/ Next /\ cloud' = cloud /\ UNCHANGED appVars
    \/ Next /\ cloud' # cloud /\ AddSample

\* The app and its client library run; nobody but the station writes.
PhoneStep ==
    /\ \/ App!AppStep
       \/ App!ListenerStep /\ UNCHANGED <<auth, dataList, delegates, received, launches>>
    /\ UNCHANGED vars

WholeNext == StationStep \/ PhoneStep

WholeSpec == WholeInit /\ [][WholeNext]_wholeVars

\* The station owes nothing; the phone what FirebaseController says it does.
SignIn == (App!SignInSucceeds \/ App!SignInFails) /\ UNCHANGED vars
Sync == App!SyncWithServer /\ UNCHANGED <<auth, dataList, delegates, received, launches, vars>>
Show == App!OnSnapshot /\ UNCHANGED vars

FairWholeSpec ==
    /\ WholeSpec
    /\ WF_wholeVars(SignIn) /\ WF_wholeVars(Sync) /\ WF_wholeVars(Show)

----------------------------------------------------------------------------
(* Properties.                                                              *)

\* Samples the app lists.
Listed == {dataList[k].content : k \in DOMAIN dataList}

\* No sample is listed twice, though add may fail after the server has stored
\* the sample, the script be started again, and the phone hear of a document
\* from its own copy and from the server.
SampleListedOnce ==
    \A j, k \in DOMAIN dataList : dataList[j].content = dataList[k].content => j = k

\* The Raspberry Pi's files tell which samples the app may list: none that was
\* parked offline, and besides those recorded at most one of each run.
FilesExplainList ==
    /\ Listed \cap Numbers(offlineFile) = {}
    /\ Cardinality(Listed \ Numbers(dataFile)) <= starts

\* A sample that the station has recorded and not parked reaches the app's list,
\* unless sign-in fails or the server rejects the listener.
RecordedIsListed ==
    \A n \in 1..MaxSamples :
        n \in Numbers(dataFile) \ Numbers(offlineFile)
            ~> (n \in Listed \/ listen = "failed" \/ auth = "fatal")

Journey == INSTANCE SampleJourney WITH
    Last <- MaxSamples,
    sent <- Numbers(cloud),
    parked <- Numbers(offlineFile),
    recorded <- Numbers(dataFile),
    listed <- Listed,
    runs <- starts

\* Station, server and phone together are the journey of the samples: each is
\* sent or parked in the order of measurement, the newest alone can still be
\* recorded, and between two launches the app's list only grows, by samples
\* that were sent, wherever script and phone were interrupted.
ImplementsJourney == Journey!Spec
=============================================================================
