--------------------------- MODULE EndToEndProofs ---------------------------
(***************************************************************************)
(* Proofs about station and app together.  What is proved of each holds of *)
(* the whole; the collection between them ties the app's list to the       *)
(* station's files; and the whole implements the journey of the samples.   *)
(***************************************************************************)
EXTENDS EndToEnd, SensorStationProofs

\* The theorems about the controller, for this collection.
Proved == INSTANCE FirebaseControllerProofs WITH
    cloud <- docs,
    Content <- 1..MaxSamples,
    WellFormed <- 1..MaxSamples,
    MayEdit <- FALSE,
    MaxWrites <- MaxSamples

\* The assumptions of the app's modules hold of the constants given to them.
LEMMA AppAssumptions ==
    /\ FALSE \in BOOLEAN /\ MaxSamples \in Nat
    /\ 1..MaxSamples \subseteq 1..MaxSamples /\ MaxLaunches \in Nat \ {0}
BY StationAssumption, WholeAssumption

----------------------------------------------------------------------------
(* The parts in the whole.                                                  *)

\* The station's steps are those of its own specification.
LEMMA StationSteps ==
    ASSUME [WholeNext]_wholeVars
    PROVE  [Next]_vars
BY DEF WholeNext, StationStep, PhoneStep, wholeVars

\* The collection grows only by the sample in hand, in an upload.
LEMMA SampleAdded ==
    ASSUME StorageInv, Next, cloud' # cloud
    PROVE  /\ cloud' = Append(cloud, current)
           /\ current \in Sample /\ current.n = taken /\ taken \notin Numbers(cloud)
           /\ Numbers(cloud)' = Numbers(cloud) \cup {current.n}
<1>1. pc = "upload" /\ cloud' = Append(cloud, current)
  BY DEF Next, ScriptStep, Startup, ReadAltitude, ReadPressure, ReadColour, NoColour,
         CheckConnectivity, Upload, UploadFails, Park, Record, Fault, Restart, stores
<1>2. current \in Sample /\ current.n = taken /\ taken \notin Stored /\ cloud \in Seq(Sample)
  BY <1>1 DEF StorageInv, TypeInv, TypeOK, InHand, InHandIsNew
<1>3. Numbers(Append(cloud, current)) = Numbers(cloud) \cup {current.n}
  BY <1>2, NumbersOfAppend
<1> QED
  BY <1>1, <1>2, <1>3 DEF Numbers, Stored

\* A step of the phone is one of the controller's, and so is an add.
LEMMA AppSteps ==
    ASSUME StorageInv, [WholeNext]_wholeVars
    PROVE  [App!Next]_appVars
<1>1. CASE PhoneStep
  BY <1>1 DEF PhoneStep, App!Next, App!controllerVars
<1>2. CASE Next /\ cloud' # cloud /\ AddSample
  <2>1. PICK i \in DocId : App!AddDoc(i, current.n)
    BY <1>2 DEF AddSample
  <2>2. current.n \in 1..MaxSamples
    BY <1>2, SampleAdded DEF Sample
  <2>3. App!WriterStep
    BY <2>1, <2>2 DEF App!WriterStep
  <2> QED
    BY <1>2, <2>3 DEF AddSample, App!Next, App!controllerVars
<1>3. CASE UNCHANGED appVars
  BY <1>3
<1> QED
  BY <1>1, <1>2, <1>3 DEF WholeNext, StationStep, wholeVars

\* So the theorems about station and controller hold of the whole, whose steps
\* conjoin theirs.
LEMMA PartsUnchanged == WholeSpec => Spec /\ App!Spec
<1>1. WholeInit => Init /\ App!Init
  BY DEF WholeInit
<1>2. [WholeNext]_wholeVars => [Next]_vars
  BY StationSteps
<1>3. StorageInv /\ [WholeNext]_wholeVars => [App!Next]_appVars
  BY AppSteps
<1>4. WholeSpec => Spec
  BY <1>1, <1>2, PTL DEF WholeSpec, Spec
<1>5. [App!Next]_appVars => [App!Next]_(App!vars)
  BY DEF appVars, App!vars, App!clientVars, App!controllerVars
<1> QED
  BY <1>1, <1>3, <1>4, <1>5, StorageInvariant, PTL DEF WholeSpec, App!Spec
----------------------------------------------------------------------------
(* What is proved of the controller, here.                                  *)

\* The controller's specification is the one its theorems are about.
LEMMA SameInit == App!Init => Proved!Init
BY DEF App!Init, Proved!Init, App!ClientInit, Proved!ClientInit

\* So are its steps.
LEMMA SameNext == App!Next => Proved!Next
BY DEF App!Next, Proved!Next, App!AppStep, Proved!AppStep, App!SignInSucceeds,
       Proved!SignInSucceeds, App!SignInFails, Proved!SignInFails, App!OnSnapshot,
       Proved!OnSnapshot, App!OnListenError, Proved!OnListenError, App!AddListener,
       Proved!AddListener, App!RemoveListener, Proved!RemoveListener, App!Relaunch,
       Proved!Relaunch, App!WriterStep, Proved!WriterStep, App!ListenerStep,
       Proved!ListenerStep, App!clientVars, Proved!clientVars, App!controllerVars,
       Proved!controllerVars, App!Write, Proved!Write, App!AddDoc, Proved!AddDoc,
       App!EditDoc, Proved!EditDoc, App!RemoveDoc, Proved!RemoveDoc, App!StartListening,
       Proved!StartListening, App!RaiseEmptyOffline, Proved!RaiseEmptyOffline,
       App!SyncWithServer, Proved!SyncWithServer, App!RejectListen, Proved!RejectListen,
       App!TakeEvent, Proved!TakeEvent, App!DropProcess, Proved!DropProcess, App!Snapshot,
       Proved!Snapshot, App!ListenFailed, Proved!ListenFailed, App!Ids, Proved!Ids,
       App!Changes, Proved!Changes, App!ParseHeroesSnapshot, Proved!ParseHeroesSnapshot,
       App!Parsed, Proved!Parsed, App!DataChecker, Proved!DataChecker, App!Invoke,
       Proved!Invoke, App!Orders, Proved!Orders, App!Cardinality, Proved!Cardinality,
       App!Bijection, Proved!Bijection, App!Injection, Proved!Injection, App!Surjection,
       Proved!Surjection, App!IsInjective, Proved!IsInjective

\* What the controller's theorems say, of the app that listens to the station.
LEMMA ControllerProved ==
    WholeSpec => [](Proved!AppendOnlyInv /\ Proved!TypeOK)
<1>1. [App!Next]_(App!vars) => [Proved!Next]_(Proved!vars)
  BY SameNext DEF App!vars, App!clientVars, App!controllerVars,
                  Proved!vars, Proved!clientVars, Proved!controllerVars
<1>2. App!Spec => Proved!Spec
  BY <1>1, SameInit, PTL DEF App!Spec, Proved!Spec
<1>3. Proved!Spec => []Proved!AppendOnlyInv
  BY AppAssumptions, Proved!AppendOnlyInvariant
<1>4. Proved!Spec => []Proved!TypeOK
  BY AppAssumptions, Proved!TypeCorrect
<1> QED
  BY <1>2, <1>3, <1>4, PartsUnchanged, PTL
----------------------------------------------------------------------------
(* The collection, as the station and as the app know it.                   *)

\* The documents hold the samples the station has stored, one each.
SameCollection ==
    /\ {d.content : d \in docs} = Numbers(cloud)
    /\ \A c, d \in docs : c.content = d.content => c = d

\* An add keeps both views of the collection alike; nothing else touches it.
LEMMA SameCollectionStep ==
    ASSUME SameCollection, StorageInv, [WholeNext]_wholeVars
    PROVE  SameCollection'
<1>1. CASE UNCHANGED <<docs, cloud>>
  BY <1>1 DEF SameCollection, Numbers
<1>2. CASE Next /\ cloud' # cloud /\ AddSample
  <2>1. PICK i \in DocId : docs' = docs \cup {[id |-> i, content |-> current.n]}
    BY <1>2 DEF AddSample, App!AddDoc
  <2>2. /\ Numbers(cloud)' = Numbers(cloud) \cup {current.n}
        /\ current.n \notin Numbers(cloud)
    BY <1>2, SampleAdded
  <2>3. \A d \in docs : d.content # current.n
    BY <2>2 DEF SameCollection
  <2> DEFINE added == [id |-> i, content |-> current.n]
  <2>a. added.content = current.n
    OBVIOUS
  <2> HIDE DEF added
  <2>4. {d.content : d \in docs \cup {added}} = {d.content : d \in docs} \cup {current.n}
    BY <2>a
  <2>5. \A c, d \in docs' : c.content = d.content => c = d
    BY <2>1, <2>3, <2>a DEF SameCollection, added
  <2>6. {d.content : d \in docs'} = {d.content : d \in docs} \cup {current.n}
    BY <2>1, <2>4 DEF added
  <2> QED
    BY <2>2, <2>5, <2>6 DEF SameCollection
<1>3. CASE Next /\ cloud' = cloud /\ UNCHANGED appVars
  BY <1>1, <1>3 DEF appVars
<1>4. CASE PhoneStep
  <2>1. UNCHANGED docs
    BY <1>4
    DEF PhoneStep, App!AppStep, App!SignInSucceeds, App!SignInFails, App!OnSnapshot,
        App!OnListenError, App!AddListener, App!RemoveListener, App!Relaunch, App!ListenerStep,
        App!StartListening, App!TakeEvent, App!DropProcess, App!RaiseEmptyOffline,
        App!SyncWithServer, App!RejectListen, App!clientVars
  <2> QED
    BY <1>1, <1>4, <2>1 DEF PhoneStep, vars, stores
<1>5. CASE UNCHANGED wholeVars
  BY <1>1, <1>5 DEF wholeVars, vars, stores, appVars
<1> QED
  BY <1>2, <1>3, <1>4, <1>5 DEF WholeNext, StationStep

\* The documents are always the samples that the station has stored.
LEMMA SameCollectionInvariant == WholeSpec => []SameCollection
<1>1. WholeInit => SameCollection
  BY DEF WholeInit, Init, App!Init, App!ClientInit, SameCollection, Numbers
<1>2. SameCollection /\ StorageInv /\ [WholeNext]_wholeVars => SameCollection'
  BY SameCollectionStep
<1>3. WholeSpec => []StorageInv
  BY PartsUnchanged, StorageInvariant, PTL
<1> QED
  BY <1>1, <1>2, <1>3, PTL DEF WholeSpec

\* What the app lists is in the collection, and an id is listed once.
LEMMA ListedIsStored ==
    ASSUME Proved!AppendOnlyInv, SameCollection
    PROVE  /\ \A k \in DOMAIN dataList : dataList[k] \in docs
           /\ \A j, k \in DOMAIN dataList : dataList[j].id = dataList[k].id => j = k
           /\ Listed \subseteq Numbers(cloud)
<1>1. /\ Proved!Known \subseteq docs
      /\ \A j, k \in DOMAIN dataList : dataList[j].id = dataList[k].id => j = k
  BY DEF Proved!AppendOnlyInv, Proved!OnlyWellFormed
<1>2. \A k \in DOMAIN dataList : dataList[k] \in docs
  BY <1>1 DEF Proved!Known, Proved!Range
<1>3. Listed \subseteq Numbers(cloud)
  BY <1>2 DEF Listed, SameCollection
<1> QED
  BY <1>1, <1>2, <1>3

\* No sample is listed twice by the app, whatever station, server and phone
\* went through.
THEOREM SamplesListedOnce == WholeSpec => []SampleListedOnce
<1>1. Proved!AppendOnlyInv /\ SameCollection => SampleListedOnce
  <2> SUFFICES ASSUME Proved!AppendOnlyInv, SameCollection,
                      NEW j \in DOMAIN dataList, NEW k \in DOMAIN dataList,
                      dataList[j].content = dataList[k].content
               PROVE  j = k
    BY DEF SampleListedOnce
  <2>1. dataList[j] = dataList[k]
    BY ListedIsStored DEF SameCollection
  <2> QED
    BY <2>1, ListedIsStored
<1> QED
  BY <1>1, ControllerProved, SameCollectionInvariant, PTL

\* The station's files tell which samples the app may list.
THEOREM FilesExplain == WholeSpec => []FilesExplainList
<1>1. ASSUME Proved!AppendOnlyInv, SameCollection, StorageInv, LossPerRun
      PROVE  FilesExplainList
  <2>1. Listed \subseteq Numbers(cloud)
    BY <1>1, ListedIsStored
  <2>2. Listed \cap Numbers(offlineFile) = {} /\ Listed \subseteq 1..taken
    BY <1>1, <2>1 DEF StorageInv, Filed, Stored
  <2>3. taken \in Nat /\ starts \in Nat
    BY <1>1, StationAssumption DEF StorageInv, TypeInv, TypeOK
  <2>4. IsFiniteSet(Unrecorded)
    <3>1. IsFiniteSet(1..taken)
      BY <2>3, FS_Interval
    <3> QED
      BY <3>1, FS_Difference DEF Unrecorded
  <2>5. Cardinality(Unrecorded) <= starts /\ Cardinality(Unrecorded) \in Nat
    BY <1>1, <2>3, <2>4, FS_CardinalityType DEF LossPerRun, Unrecorded
  <2>6. Listed \ Numbers(dataFile) \in SUBSET Unrecorded
    BY <2>2 DEF Unrecorded
  <2>7. /\ Cardinality(Listed \ Numbers(dataFile)) <= Cardinality(Unrecorded)
        /\ Cardinality(Listed \ Numbers(dataFile)) \in Nat
    BY <2>4, <2>6, FS_Subset, FS_CardinalityType
  <2> QED
    BY <2>2, <2>3, <2>5, <2>7 DEF FilesExplainList
<1>2. WholeSpec => []StorageInv /\ []LossPerRun
  BY PartsUnchanged, StorageInvariant, LossBounded, PTL
<1> QED
  BY <1>1, <1>2, ControllerProved, SameCollectionInvariant, PTL
----------------------------------------------------------------------------
(* The journey of the samples.                                              *)

\* The app lists only what was sent.
ListedSent == Listed \subseteq Numbers(cloud)

LEMMA ListedSentInvariant == WholeSpec => []ListedSent
<1>1. Proved!AppendOnlyInv /\ SameCollection => ListedSent
  BY ListedIsStored DEF ListedSent
<1> QED
  BY <1>1, ControllerProved, SameCollectionInvariant, PTL

\* The sample in hand may be kept until it is: it is newer than all kept, and
\* the runs so far bound what is missing behind it.
LEMMA InHandMayBeKept ==
    ASSUME StorageInv, LossPerRun, pc \in {"upload", "park"}
    PROVE  taken \in 1..MaxSamples /\ current.n = taken /\ Journey!MayKeep(taken)
<1>1. taken \in Nat /\ starts \in Nat /\ current \in Sample
  BY StationAssumption DEF StorageInv, TypeInv, TypeOK, InHand
<1>2. current.n = taken /\ taken \notin Stored /\ Stored \subseteq 1..taken
  BY DEF StorageInv, InHandIsNew, Filed
<1>3. taken \in 1..MaxSamples
  BY <1>1, <1>2 DEF Sample
<1>4. \A k \in Numbers(cloud) \cup Numbers(offlineFile) : k < taken
  BY <1>1, <1>2 DEF Stored
<1>5. Cardinality((1..taken) \ Numbers(dataFile)) <= starts
  BY DEF LossPerRun
<1> QED
  BY <1>2, <1>3, <1>4, <1>5
  DEF Journey!MayKeep, Journey!Kept, Journey!Cardinality, Cardinality

\* Each statement of the script, fault and restart is a step of the journey.
LEMMA StationJourney ==
    ASSUME StorageInv, LossPerRun, Next, UNCHANGED <<Listed, launches>>
    PROVE  [Journey!Next]_Journey!vars
<1>1. CASE (Upload \/ UploadFails) /\ cloud' = Append(cloud, current)
  <2>1. /\ pc = "upload" /\ UNCHANGED <<offlineFile, dataFile, starts>>
        /\ Numbers(offlineFile)' = Numbers(offlineFile)
        /\ Numbers(dataFile)' = Numbers(dataFile)
    BY <1>1 DEF Upload, UploadFails, bounds, Numbers
  <2>2. taken \in 1..MaxSamples /\ current.n = taken /\ Journey!MayKeep(taken)
    BY <2>1, InHandMayBeKept
  <2>3. Numbers(cloud)' = Numbers(cloud) \cup {taken}
    BY <1>1, <2>1, <2>2, FilesStep DEF StorageInv, TypeInv, TypeOK
  <2>4. Journey!Send(taken)
    BY <2>1, <2>2, <2>3 DEF Journey!Send
  <2> QED
    BY <2>2, <2>4 DEF Journey!Next
<1>2. CASE Park
  <2>1. /\ pc = "park" /\ offlineFile' = Append(offlineFile, current) /\ starts' = starts
        /\ Numbers(cloud)' = Numbers(cloud)
        /\ Numbers(dataFile)' = Numbers(dataFile)
    BY <1>2 DEF Park, bounds, Numbers
  <2>2. taken \in 1..MaxSamples /\ current.n = taken /\ Journey!MayKeep(taken)
    BY <2>1, InHandMayBeKept
  <2>3. Numbers(offlineFile)' = Numbers(offlineFile) \cup {taken}
    BY <2>1, <2>2, FilesStep DEF StorageInv, TypeInv, TypeOK
  <2>4. Journey!Park(taken)
    BY <2>1, <2>2, <2>3 DEF Journey!Park
  <2> QED
    BY <2>2, <2>4 DEF Journey!Next
<1>3. CASE Record
  <2>1. /\ pc = "record" /\ dataFile' = Append(dataFile, current) /\ starts' = starts
        /\ Numbers(cloud)' = Numbers(cloud)
        /\ Numbers(offlineFile)' = Numbers(offlineFile)
    BY <1>3 DEF Record, bounds, Numbers
  <2>2. current.n = taken /\ taken \in Stored \ Numbers(dataFile) /\ Stored \subseteq 1..taken
    BY <2>1 DEF StorageInv, InHandIsNew, Filed
  <2>3. taken \in Nat /\ taken \in 1..MaxSamples /\ \A k \in Stored : k <= taken
    BY <2>1, <2>2, StationAssumption DEF StorageInv, TypeInv, TypeOK, InHand, Sample
  <2>4. Numbers(dataFile)' = Numbers(dataFile) \cup {taken}
    BY <2>1, <2>2, FilesStep DEF StorageInv, TypeInv, TypeOK
  <2>5. Journey!Record(taken)
    BY <2>1, <2>2, <2>3, <2>4 DEF Journey!Record, Journey!Kept, Stored
  <2> QED
    BY <2>3, <2>5 DEF Journey!Next
<1>4. CASE Restart
  <2>1. Journey!RunAgain
    BY <1>4 DEF Restart, stores, Numbers, Journey!RunAgain
  <2> QED
    BY <2>1 DEF Journey!Next
<1>5. CASE UNCHANGED <<stores, starts>>
  BY <1>5 DEF stores, Numbers, Journey!vars
<1>6. CASE UploadFails /\ cloud' = cloud
  BY <1>5, <1>6 DEF UploadFails, stores, bounds
<1>7. CASE Startup \/ ReadAltitude \/ ReadPressure \/ ReadColour \/ NoColour
           \/ CheckConnectivity \/ Fault
  BY <1>5, <1>7 DEF Startup, ReadAltitude, ReadPressure, ReadColour, NoColour,
                    CheckConnectivity, Fault, bounds
<1> QED
  BY <1>1, <1>2, <1>3, <1>4, <1>6, <1>7 DEF Next, ScriptStep, Upload, UploadFails

\* Whatever the phone does, its list grows by samples that were sent, or a new
\* launch begins with an empty one.
LEMMA PhoneJourney ==
    ASSUME Proved!TypeOK, ListedSent', PhoneStep
    PROVE  [Journey!Next]_Journey!vars
<1>1. /\ Numbers(cloud)' = Numbers(cloud)
      /\ Numbers(offlineFile)' = Numbers(offlineFile)
      /\ Numbers(dataFile)' = Numbers(dataFile)
      /\ starts' = starts
  BY DEF PhoneStep, vars, stores, bounds, Numbers
<1>2. CASE App!OnSnapshot
  <2>1. Proved!OnSnapshot
    BY <1>2
    DEF App!OnSnapshot, Proved!OnSnapshot, App!TakeEvent, Proved!TakeEvent,
        App!ParseHeroesSnapshot, Proved!ParseHeroesSnapshot, App!Parsed, Proved!Parsed,
        App!DataChecker, Proved!DataChecker, App!Invoke, Proved!Invoke, App!Orders,
        Proved!Orders, App!Cardinality, Proved!Cardinality, App!Bijection,
        Proved!Bijection, App!Injection, Proved!Injection, App!Surjection,
        Proved!Surjection, App!IsInjective, Proved!IsInjective
  <2>2. PICK new \in Seq(Proved!Doc) : dataList' = dataList \o new
    BY <2>1, AppAssumptions, Proved!SnapshotStep
  <2>3. dataList \in Seq(Proved!Doc) /\ launches' = launches
    BY <1>2 DEF Proved!TypeOK, App!OnSnapshot
  <2>4. \A k \in DOMAIN dataList : k \in DOMAIN dataList' /\ dataList'[k] = dataList[k]
    BY <2>2, <2>3
  <2>5. Listed \subseteq Listed'
    BY <2>4 DEF Listed
  <2>6. Journey!Learn
    BY <1>1, <2>3, <2>5 DEF Journey!Learn, ListedSent
  <2> QED
    BY <2>6 DEF Journey!Next
<1>3. CASE App!Relaunch
  <2>1. launches' = launches + 1 /\ dataList' = <<>>
    BY <1>3 DEF App!Relaunch
  <2>2. Listed' = {}
    BY <2>1 DEF Listed
  <2>3. Journey!Forget
    BY <1>1, <2>1, <2>2 DEF Journey!Forget
  <2> QED
    BY <2>3 DEF Journey!Next
<1>4. CASE UNCHANGED <<dataList, launches>>
  <2>1. Listed' = Listed
    BY <1>4 DEF Listed
  <2> QED
    BY <1>1, <1>4, <2>1 DEF Journey!vars
<1> QED
  BY <1>2, <1>3, <1>4
  DEF PhoneStep, App!AppStep, App!SignInSucceeds, App!SignInFails, App!OnListenError,
      App!AddListener, App!RemoveListener, App!controllerVars

\* A step of the whole is a step of the journey or goes unnoticed.
LEMMA JourneyStep ==
    ASSUME StorageInv, LossPerRun, Proved!TypeOK, ListedSent', [WholeNext]_wholeVars
    PROVE  [Journey!Next]_Journey!vars
<1>1. CASE StationStep
  <2>1. Next /\ UNCHANGED <<dataList, launches>>
    BY <1>1 DEF StationStep, AddSample, appVars
  <2>2. UNCHANGED <<Listed, launches>>
    BY <2>1 DEF Listed
  <2> QED
    BY <2>1, <2>2, StationJourney
<1>2. CASE PhoneStep
  BY <1>2, PhoneJourney
<1>3. CASE UNCHANGED wholeVars
  BY <1>3 DEF wholeVars, vars, stores, bounds, appVars, Numbers, Listed, Journey!vars
<1> QED
  BY <1>1, <1>2, <1>3 DEF WholeNext

\* For any number of samples, starts, faults, launches and screens, station,
\* server and phone together are the journey of the samples.
THEOREM WholeImplementsJourney == WholeSpec => ImplementsJourney
<1>1. WholeInit => Journey!Init
  BY DEF WholeInit, Init, App!Init, Numbers, Listed, Journey!Init
<1>2. StorageInv /\ LossPerRun /\ Proved!TypeOK /\ ListedSent' /\ [WholeNext]_wholeVars
          => [Journey!Next]_Journey!vars
  BY JourneyStep
<1>3. WholeSpec => []StorageInv /\ []LossPerRun
  BY PartsUnchanged, StorageInvariant, LossBounded, PTL
<1> QED
  BY <1>1, <1>2, <1>3, ControllerProved, ListedSentInvariant, PTL
  DEF WholeSpec, ImplementsJourney, Journey!Spec
=============================================================================
