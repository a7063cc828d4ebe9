------------------------ MODULE SensorStationProofs -------------------------
(***************************************************************************)
(* Proofs about the station's script, for any number of samples, starts    *)
(* and faults.                                                             *)
(***************************************************************************)
EXTENDS SensorStation, FiniteSetTheorems, TLAPS

----------------------------------------------------------------------------
(* Lemmas on files.                                                         *)

\* A sample appended to a file adds its number to those in the file.
LEMMA NumbersOfAppend ==
    ASSUME NEW file \in Seq(Sample), NEW s \in Sample
    PROVE  Numbers(Append(file, s)) = Numbers(file) \cup {s.n}
<1> DEFINE longer == Append(file, s)
<1>1. /\ DOMAIN longer = 1..(Len(file) + 1) /\ DOMAIN file = 1..Len(file)
      /\ Len(file) \in Nat
      /\ longer[Len(file) + 1] = s
      /\ \A k \in 1..Len(file) : longer[k] = file[k]
  OBVIOUS
<1>2. ASSUME NEW n \in Numbers(longer)
      PROVE  n \in Numbers(file) \cup {s.n}
  BY <1>1, <1>2 DEF Numbers
<1>3. s.n \in Numbers(longer)
  BY <1>1 DEF Numbers
<1>4. ASSUME NEW n \in Numbers(file)
      PROVE  n \in Numbers(longer)
  BY <1>1, <1>4 DEF Numbers
<1> QED
  BY <1>2, <1>3, <1>4

\* A sample newer than all in a file goes to its end in order.
LEMMA IncreasingAppend ==
    ASSUME NEW file \in Seq(Sample), NEW s \in Sample,
           Increasing(file), \A n \in Numbers(file) : n < s.n
    PROVE  Increasing(Append(file, s))
<1> DEFINE longer == Append(file, s)
<1>1. /\ DOMAIN longer = 1..(Len(file) + 1) /\ DOMAIN file = 1..Len(file)
      /\ Len(file) \in Nat
      /\ longer[Len(file) + 1] = s
      /\ \A k \in 1..Len(file) : longer[k] = file[k]
  OBVIOUS
<1>2. \A k \in 1..Len(file) : file[k].n < s.n
  BY <1>1 DEF Numbers
<1>3. ASSUME NEW j \in DOMAIN longer, NEW k \in DOMAIN longer, j < k
      PROVE  longer[j].n < longer[k].n
  <2>1. j \in 1..Len(file)
    BY <1>1, <1>3
  <2>2. CASE k \in 1..Len(file)
    BY <1>1, <1>3, <2>1, <2>2 DEF Increasing
  <2>3. CASE k = Len(file) + 1
    BY <1>1, <1>2, <2>1, <2>3
  <2> QED
    BY <1>1, <2>2, <2>3
<1> QED
  BY <1>3 DEF Increasing

----------------------------------------------------------------------------
(* Type correctness.                                                        *)

\* The sample in hand is one that was built.
InHand == pc \in {"connect", "upload", "park", "record"} => current \in Sample

TypeInv == TypeOK /\ InHand

\* Each statement of the script, fault and restart keeps the types.
LEMMA TypeStep ==
    ASSUME TypeInv, [Next]_vars
    PROVE  TypeInv'
<1> USE StationAssumption DEF TypeInv, TypeOK, InHand, Mode, Loop
<1>1. CASE Startup
  BY <1>1 DEF Startup, stores, bounds
<1>2. CASE ReadAltitude
  BY <1>2 DEF ReadAltitude, stores, bounds
<1>3. CASE ReadPressure
  BY <1>3 DEF ReadPressure, sensors, stores, bounds
<1>4. CASE ReadColour
  <2>1. taken' \in 1..MaxSamples /\ current' \in Sample
    BY <1>4 DEF ReadColour, Sample
  <2> QED
    BY <1>4, <2>1 DEF ReadColour, sensors, stores, bounds
<1>5. CASE NoColour
  BY <1>5 DEF NoColour, sensors, stores, bounds
<1>6. CASE CheckConnectivity
  BY <1>6 DEF CheckConnectivity, sensors, stores, bounds
<1>7. CASE Upload
  <2>1. cloud' \in Seq(Sample)
    BY <1>7 DEF Upload
  <2> QED
    BY <1>7, <2>1 DEF Upload, sensors, bounds
<1>8. CASE UploadFails
  <2>1. cloud' \in Seq(Sample)
    BY <1>8 DEF UploadFails
  <2> QED
    BY <1>8, <2>1 DEF UploadFails, sensors, bounds
<1>9. CASE Park
  <2>1. offlineFile' \in Seq(Sample)
    BY <1>9 DEF Park
  <2> QED
    BY <1>9, <2>1 DEF Park, sensors, bounds
<1>10. CASE Record
  <2>1. dataFile' \in Seq(Sample)
    BY <1>10 DEF Record
  <2> QED
    BY <1>10, <2>1 DEF Record, sensors, bounds
<1>11. CASE Fault
  BY <1>11 DEF Fault, sensors, stores
<1>12. CASE Restart
  BY <1>12 DEF Restart, sensors, stores
<1>13. CASE UNCHANGED vars
  BY <1>13 DEF vars, sensors, stores, bounds
<1> QED
  BY <1>1, <1>2, <1>3, <1>4, <1>5, <1>6, <1>7, <1>8, <1>9, <1>10, <1>11, <1>12, <1>13
  DEF Next, ScriptStep

\* They hold when the script is first started.
LEMMA StationTypeInit == Init => TypeInv
<1>1. <<>> \in Seq(Sample)
  OBVIOUS
<1>2. 0 \in 0..MaxSamples /\ 1 \in 1..MaxStarts /\ 0 \in 0..MaxFaults
  BY StationAssumption
<1> QED
  BY <1>1, <1>2 DEF Init, TypeInv, TypeOK, InHand, Mode, Loop

\* Every reachable state of the script is well typed.
THEOREM StationTypeCorrect == Spec => []TypeOK
<1>1. Init => TypeInv
  BY StationTypeInit
<1>2. TypeInv /\ [Next]_vars => TypeInv'
  BY TypeStep
<1>3. TypeInv => TypeOK
  BY DEF TypeInv
<1> QED
  BY <1>1, <1>2, <1>3, PTL DEF Spec
----------------------------------------------------------------------------
(* Storage.                                                                 *)

Stored == Numbers(cloud) \cup Numbers(offlineFile)

\* What is in the files and the collection has been built; cloud and offline
\* file split what is stored, and only what is stored is recorded.
Filed ==
    /\ Stored \subseteq 1..taken
    /\ Numbers(cloud) \cap Numbers(offlineFile) = {}
    /\ Numbers(dataFile) \subseteq Stored

\* The sample in hand is the last one built.  Before it is stored it is in no
\* file, and before it is recorded not in the file of all samples.
InHandIsNew ==
    /\ pc \in {"connect", "upload", "park", "record"} => current.n = taken
    /\ pc \in {"connect", "upload", "park"} => taken \notin Stored
    /\ pc = "record" => taken \in Stored \ Numbers(dataFile)

StorageInv == TypeInv /\ Filed /\ InHandIsNew /\ StoredOnceInOrder

\* The numbers in the stores, before and after a step that appends to one.
LEMMA FilesStep ==
    ASSUME TypeInv, NEW file \in Seq(Sample), pc \in {"upload", "park", "record"}
    PROVE  /\ current \in Sample
           /\ Numbers(Append(file, current)) = Numbers(file) \cup {current.n}
           /\ Increasing(file) /\ (\A n \in Numbers(file) : n < current.n)
                  => Increasing(Append(file, current))
<1>1. current \in Sample
  BY DEF TypeInv, InHand
<1> QED
  BY <1>1, NumbersOfAppend, IncreasingAppend

\* A step that leaves the stores alone keeps what is said of them.
LEMMA StoresKept ==
    ASSUME Filed, StoredOnceInOrder, UNCHANGED stores, UNCHANGED taken
    PROVE  Filed' /\ StoredOnceInOrder' /\ Stored' = Stored
               /\ Numbers(dataFile)' = Numbers(dataFile)
BY DEF Filed, StoredOnceInOrder, stores, Stored, Numbers, Increasing

\* Each step keeps the stores in order and disjoint, with the sample in hand in
\* none of them before it is stored.
LEMMA StorageStep ==
    ASSUME StorageInv, [Next]_vars
    PROVE  StorageInv'
<1>0. TypeInv' /\ TypeInv /\ Filed /\ InHandIsNew /\ StoredOnceInOrder
  BY TypeStep DEF StorageInv
<1>n. taken \in Nat /\ \A n \in Stored : n \in Nat /\ n <= taken
  BY <1>0, StationAssumption DEF TypeInv, TypeOK, Filed
<1>1. CASE /\ UNCHANGED stores /\ UNCHANGED taken
           /\ pc' \notin {"connect", "upload", "park", "record"}
  BY <1>0, <1>1, StoresKept DEF StorageInv, InHandIsNew
<1>2. CASE ReadColour
  <2>1. UNCHANGED stores /\ taken' = taken + 1 /\ pc' = "connect" /\ current'.n = taken + 1
    BY <1>2 DEF ReadColour
  <2>2. UNCHANGED <<Numbers(cloud), Numbers(offlineFile), Numbers(dataFile), Stored>>
    BY <2>1 DEF stores, Numbers, Stored
  <2>3. Filed' /\ StoredOnceInOrder'
    BY <1>0, <1>n, <2>1, <2>2 DEF Filed, StoredOnceInOrder, stores, Increasing
  <2>4. taken' \notin Stored'
    BY <1>n, <2>1, <2>2
  <2> QED
    BY <1>0, <2>1, <2>3, <2>4 DEF StorageInv, InHandIsNew
<1>3. CASE CheckConnectivity
  <2>1. UNCHANGED <<stores, taken, current>> /\ pc = "connect"
        /\ pc' \in {"upload", "park", "ended"}
    BY <1>3 DEF CheckConnectivity
  <2> QED
    BY <1>0, <2>1, StoresKept DEF StorageInv, InHandIsNew
<1>4. CASE (Upload \/ UploadFails) /\ cloud' = Append(cloud, current)
  <2>1. /\ pc = "upload" /\ pc' \in {"record", "ended"}
        /\ UNCHANGED <<offlineFile, dataFile, taken, current>>
    BY <1>4 DEF Upload, UploadFails
  <2>2. current.n = taken /\ taken \notin Stored
    BY <1>0, <2>1 DEF InHandIsNew
  <2>3. cloud \in Seq(Sample) /\ \A n \in Numbers(cloud) : n < current.n
    BY <1>0, <1>n, <2>2 DEF TypeInv, TypeOK, Stored
  <2>4. Numbers(cloud)' = Numbers(cloud) \cup {taken} /\ Increasing(cloud)'
    BY <1>0, <1>4, <2>1, <2>2, <2>3, FilesStep DEF StoredOnceInOrder
  <2>5. /\ Numbers(offlineFile)' = Numbers(offlineFile)
        /\ Numbers(dataFile)' = Numbers(dataFile)
        /\ Increasing(offlineFile)' /\ Increasing(dataFile)'
    BY <1>0, <2>1 DEF Numbers, Increasing, StoredOnceInOrder
  <2>6. taken \in 1..taken
    <3>1. current \in Sample
      BY <1>0, <2>1 DEF TypeInv, InHand
    <3> QED
      BY <3>1, <2>2, <1>n DEF Sample
  <2>7. Filed' /\ InHandIsNew'
    BY <1>0, <2>1, <2>2, <2>4, <2>5, <2>6 DEF Filed, InHandIsNew, Stored
  <2> QED
    BY <1>0, <2>4, <2>5, <2>7 DEF StorageInv, StoredOnceInOrder
<1>5. CASE Park
  <2>1. /\ pc = "park" /\ pc' = "record" /\ offlineFile' = Append(offlineFile, current)
        /\ UNCHANGED <<cloud, dataFile, taken, current>>
    BY <1>5 DEF Park
  <2>2. current.n = taken /\ taken \notin Stored
    BY <1>0, <2>1 DEF InHandIsNew
  <2>3. offlineFile \in Seq(Sample) /\ \A n \in Numbers(offlineFile) : n < current.n
    BY <1>0, <1>n, <2>2 DEF TypeInv, TypeOK, Stored
  <2>4. Numbers(offlineFile)' = Numbers(offlineFile) \cup {taken} /\ Increasing(offlineFile)'
    BY <1>0, <2>1, <2>2, <2>3, FilesStep DEF StoredOnceInOrder
  <2>5. /\ Numbers(cloud)' = Numbers(cloud)
        /\ Numbers(dataFile)' = Numbers(dataFile)
        /\ Increasing(cloud)' /\ Increasing(dataFile)'
    BY <1>0, <2>1 DEF Numbers, Increasing, StoredOnceInOrder
  <2>6. taken \in 1..taken
    <3>1. current \in Sample
      BY <1>0, <2>1 DEF TypeInv, InHand
    <3> QED
      BY <3>1, <2>2, <1>n DEF Sample
  <2>7. Filed' /\ InHandIsNew'
    BY <1>0, <2>1, <2>2, <2>4, <2>5, <2>6 DEF Filed, InHandIsNew, Stored
  <2> QED
    BY <1>0, <2>4, <2>5, <2>7 DEF StorageInv, StoredOnceInOrder
<1>6. CASE Record
  <2>1. /\ pc = "record" /\ pc' = "altitude" /\ dataFile' = Append(dataFile, current)
        /\ UNCHANGED <<cloud, offlineFile, taken, current>>
    BY <1>6 DEF Record
  <2>2. current.n = taken /\ taken \in Stored \ Numbers(dataFile)
    BY <1>0, <2>1 DEF InHandIsNew
  <2>3. dataFile \in Seq(Sample) /\ \A n \in Numbers(dataFile) : n < current.n
    <3>1. ASSUME NEW n \in Numbers(dataFile)
          PROVE  n < current.n
      <4>1. n \in Stored /\ n # taken
        BY <1>0, <2>2 DEF Filed
      <4> QED
        BY <1>n, <2>2, <4>1
    <3> QED
      BY <1>0, <3>1 DEF TypeInv, TypeOK
  <2>4. Numbers(dataFile)' = Numbers(dataFile) \cup {taken} /\ Increasing(dataFile)'
    BY <1>0, <2>1, <2>2, <2>3, FilesStep DEF StoredOnceInOrder
  <2>5. /\ Numbers(cloud)' = Numbers(cloud)
        /\ Numbers(offlineFile)' = Numbers(offlineFile)
        /\ Increasing(cloud)' /\ Increasing(offlineFile)'
    BY <1>0, <2>1 DEF Numbers, Increasing, StoredOnceInOrder
  <2>6. Filed' /\ InHandIsNew'
    BY <1>0, <2>1, <2>2, <2>4, <2>5 DEF Filed, InHandIsNew, Stored
  <2> QED
    BY <1>0, <2>4, <2>5, <2>6 DEF StorageInv, StoredOnceInOrder
<1>7. CASE UploadFails /\ cloud' = cloud
  BY <1>1, <1>7 DEF UploadFails, stores
<1>8. CASE Startup \/ ReadAltitude \/ ReadPressure \/ NoColour \/ Fault \/ Restart
  BY <1>1, <1>8 DEF Startup, ReadAltitude, ReadPressure, NoColour, Fault, Restart
<1>9. CASE UNCHANGED vars
  BY <1>0, <1>9, StoresKept DEF vars, StorageInv, InHandIsNew
<1> QED
  BY <1>2, <1>3, <1>4, <1>5, <1>6, <1>7, <1>8, <1>9
  DEF Next, ScriptStep, Upload, UploadFails

\* The inductive invariant of the stores: what each holds, and what is still to
\* be done with the sample in hand, for any number of samples, starts and faults.
THEOREM StorageInvariant == Spec => []StorageInv
<1>1. Init => StorageInv
  <2>1. Init => TypeInv
    BY StationTypeInit
  <2>2. Init => Filed /\ InHandIsNew /\ StoredOnceInOrder
    <3>1. Init => /\ Numbers(cloud) = {} /\ Numbers(offlineFile) = {} /\ Numbers(dataFile) = {}
                  /\ StoredOnceInOrder /\ pc = "startup"
      BY DEF Init, StoredOnceInOrder, Numbers, Increasing
    <3> QED
      BY <3>1 DEF Filed, InHandIsNew, Stored
  <2> QED
    BY <2>1, <2>2 DEF StorageInv
<1>2. StorageInv /\ [Next]_vars => StorageInv'
  BY StorageStep
<1> QED
  BY <1>1, <1>2, PTL DEF Spec

\* No sample is stored or recorded twice, and each store keeps the order of
\* measurement, wherever the script ended and however often it was started.
THEOREM StoredInOrder == Spec => []StoredOnceInOrder
<1>1. StorageInv => StoredOnceInOrder
  BY DEF StorageInv
<1> QED
  BY <1>1, StorageInvariant, PTL

----------------------------------------------------------------------------
(* Loss.                                                                    *)

Unrecorded == (1..taken) \ Numbers(dataFile)

Measuring == pc \in {"startup", "altitude", "pressure", "colour"}

LossInv == StorageInv /\ LossPerRun

\* A step loses a sample only by ending a run.
LEMMA LossStep ==
    ASSUME LossInv, [Next]_vars
    PROVE  LossPerRun'
<1>0. /\ TypeInv /\ InHandIsNew /\ taken \in Nat /\ starts \in Nat
      /\ LossPerRun <=> Cardinality(Unrecorded) <= IF Measuring THEN starts - 1 ELSE starts
      /\ LossPerRun' <=> Cardinality(Unrecorded)' <= (IF Measuring THEN starts - 1 ELSE starts)'
      /\ LossPerRun
  BY StationAssumption
  DEF LossInv, StorageInv, TypeInv, TypeOK, LossPerRun, Unrecorded, Measuring
<1>f. IsFiniteSet(Unrecorded) /\ Cardinality(Unrecorded) \in Nat
  <2>1. IsFiniteSet(1..taken)
    BY <1>0, FS_Interval
  <2>2. IsFiniteSet(Unrecorded)
    BY <2>1, FS_Difference DEF Unrecorded
  <2> QED
    BY <2>2, FS_CardinalityType
<1>1. CASE UNCHANGED <<taken, dataFile>> /\ starts' >= starts /\ starts' \in Nat
           /\ (Measuring' => Measuring \/ starts' = starts + 1)
  <2>1. Unrecorded' = Unrecorded
    BY <1>1 DEF Unrecorded, Numbers
  <2> QED
    BY <1>0, <1>f, <1>1, <2>1
<1>2. CASE ReadColour
  <2>1. taken' = taken + 1 /\ UNCHANGED <<dataFile, starts>> /\ Measuring /\ ~Measuring'
    BY <1>2 DEF ReadColour, stores, bounds, Measuring
  <2>2. Unrecorded' \subseteq Unrecorded \cup {taken + 1}
    BY <1>0, <2>1 DEF Unrecorded, Numbers
  <2>3. Cardinality(Unrecorded)' <= Cardinality(Unrecorded) + 1
        /\ Cardinality(Unrecorded)' \in Nat
    <3>1. /\ IsFiniteSet(Unrecorded \cup {taken + 1})
          /\ Cardinality(Unrecorded \cup {taken + 1}) <= Cardinality(Unrecorded) + 1
      BY <1>f, FS_AddElement
    <3>2. /\ IsFiniteSet(Unrecorded')
          /\ Cardinality(Unrecorded') <= Cardinality(Unrecorded \cup {taken + 1})
      BY <2>2, <3>1, FS_Subset
    <3>3. Cardinality(Unrecorded') \in Nat /\ Cardinality(Unrecorded \cup {taken + 1}) \in Nat
      BY <3>1, <3>2, FS_CardinalityType
    <3> QED
      BY <1>f, <3>1, <3>2, <3>3
  <2> QED
    BY <1>0, <1>f, <2>1, <2>3
<1>3. CASE Record
  <2>1. /\ pc = "record" /\ ~Measuring /\ UNCHANGED <<taken, starts>>
        /\ dataFile' = Append(dataFile, current)
    BY <1>3 DEF Record, Measuring, bounds
  <2>2. current.n = taken /\ taken \notin Numbers(dataFile)
    BY <1>0, <2>1 DEF InHandIsNew
  <2>3. dataFile \in Seq(Sample) /\ current \in Sample /\ taken \in 1..taken
    BY <1>0, <2>1, <2>2 DEF TypeInv, TypeOK, InHand, Sample
  <2>4. Numbers(dataFile)' = Numbers(dataFile) \cup {taken}
    BY <2>1, <2>2, <2>3, NumbersOfAppend DEF Numbers
  <2>5. Unrecorded' = Unrecorded \ {taken} /\ taken \in Unrecorded
    BY <2>1, <2>2, <2>3, <2>4 DEF Unrecorded
  <2>6. Cardinality(Unrecorded)' = Cardinality(Unrecorded) - 1
    BY <1>f, <2>5, FS_RemoveElement
  <2> QED
    BY <1>0, <1>f, <2>1, <2>6
<1>4. CASE Startup \/ ReadAltitude \/ ReadPressure \/ NoColour \/ CheckConnectivity
           \/ Upload \/ UploadFails \/ Park
  <2>1. UNCHANGED <<taken, dataFile, starts>> /\ (Measuring' => Measuring)
    BY <1>4 DEF Startup, ReadAltitude, ReadPressure, NoColour, CheckConnectivity, Upload,
                UploadFails, Park, stores, bounds, Measuring
  <2> QED
    BY <1>0, <1>1, <2>1
<1>5. CASE Fault
  BY <1>0, <1>1, <1>5 DEF Fault, stores, Measuring
<1>6. CASE Restart
  BY <1>0, <1>1, <1>6 DEF Restart, stores, Measuring
<1>7. CASE UNCHANGED vars
  BY <1>0, <1>1, <1>7 DEF vars, stores, bounds, Measuring
<1> QED
  BY <1>2, <1>3, <1>4, <1>5, <1>6, <1>7 DEF Next, ScriptStep

\* Each run of the script fails to record at most the sample it ended in.
THEOREM LossBounded == Spec => []LossPerRun
<1>1. Init => LossPerRun
  <2>1. Init => (1..taken) \ Numbers(dataFile) = {} /\ starts = 1 /\ pc = "startup"
    BY DEF Init, Numbers
  <2> QED
    BY <2>1, FS_EmptySet DEF LossPerRun
<1>2. StorageInv /\ LossPerRun /\ [Next]_vars => LossPerRun'
  BY LossStep DEF LossInv
<1> QED
  BY <1>1, <1>2, StorageInvariant, PTL DEF Spec

----------------------------------------------------------------------------

\* What the file of all samples holds is in the collection or in the offline
\* file, never in both.
THEOREM RecordedStored == Spec => []RecordedIsStored
<1>1. StorageInv => RecordedIsStored
  BY DEF StorageInv, Filed, Stored, RecordedIsStored
<1> QED
  BY <1>1, StorageInvariant, PTL
=============================================================================
