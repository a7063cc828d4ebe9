--------------------------- MODULE SensorStation ----------------------------
(***************************************************************************)
(* The Raspberry Pi script: one loop that reads the barometer and the      *)
(* colour sensor, builds a sample, asks the network whether it is there,   *)
(* and writes the sample to the "Sensor" collection or to a file for       *)
(* samples taken offline, and then to a file of all samples.               *)
(*                                                                         *)
(* The script is sequential; what makes it hard is that it may end after   *)
(* any statement: most exceptions are not caught, an interrupt is caught   *)
(* outside the loop, and the power may go.  Only the collection and the    *)
(* two files outlive it.                                                   *)
(***************************************************************************)
EXTENDS Naturals, Sequences, FiniteSets, Functions

CONSTANTS
    MaxSamples,  \* bound: samples built in one behaviour
    MaxStarts,   \* bound: times the script is started
    MaxFaults    \* bound: interrupts, bus errors and power cuts

ASSUME StationAssumption ==
    MaxSamples \in Nat \ {0} /\ MaxStarts \in Nat \ {0} /\ MaxFaults \in Nat

VARIABLES
    pc,          \* next statement of the script
    mode,        \* mode of the barometer chip, and so what its registers hold
    rgbEnabled,  \* did the colour sensor answer with its version?
    altitudeMode, \* mode the chip was in when the altitude was last read
    current,     \* the sample being handled
    cloud,       \* samples in the collection
    offlineFile, \* sensorDataNoInternet.txt
    dataFile,    \* sensorData.txt
    taken,       \* samples built so far; identifies them, the code has no such counter
    starts,      \* starts so far; bounds the model
    faults       \* faults so far; bounds the model

stores == <<cloud, offlineFile, dataFile>>
sensors == <<mode, rgbEnabled, altitudeMode>>
bounds == <<starts, faults>>
vars == <<pc, sensors, current, stores, taken, bounds>>

Mode == {"altimeter", "barometer"}

Loop == {"altitude", "pressure", "colour", "connect", "upload", "park", "record"}

Sample == [n : 1..MaxSamples, altitudeIn : Mode]

NoSample == [n |-> 0, altitudeIn |-> "none"]

TypeOK ==
    /\ pc \in Loop \cup {"startup", "ended"}
    /\ mode \in Mode /\ altitudeMode \in Mode
    /\ rgbEnabled \in BOOLEAN
    /\ current \in Sample \cup {NoSample}
    /\ cloud \in Seq(Sample) /\ offlineFile \in Seq(Sample) /\ dataFile \in Seq(Sample)
    /\ taken \in 0..MaxSamples
    /\ starts \in 1..MaxStarts
    /\ faults \in 0..MaxFaults

Init ==
    /\ pc = "startup"
    /\ mode \in Mode /\ altitudeMode = "altimeter"
    /\ rgbEnabled = FALSE
    /\ current = NoSample
    /\ cloud = <<>> /\ offlineFile = <<>> /\ dataFile = <<>>
    /\ taken = 0
    /\ starts = 1
    /\ faults = 0

----------------------------------------------------------------------------
(* Before the loop.                                                         *)

\* The chip is put in altimeter mode and the collection is printed if the
\* network is there.  Of the exceptions only NotFound is caught.
Startup ==
    /\ pc = "startup"
    /\ mode' = "altimeter"
    /\ rgbEnabled' \in BOOLEAN
    /\ pc' \in {"altitude", "ended"}
    /\ UNCHANGED <<altitudeMode, current, stores, taken, bounds>>

----------------------------------------------------------------------------
(* Measuring.                                                               *)

\* The altitude is read first; then the chip goes to barometer mode, for the
\* rest of the run.
ReadAltitude ==
    /\ pc = "altitude"
    /\ altitudeMode' = mode
    /\ mode' = "barometer"
    /\ pc' = "pressure"
    /\ UNCHANGED <<rgbEnabled, current, stores, taken, bounds>>

ReadPressure ==
    /\ pc = "pressure"
    /\ pc' = "colour"
    /\ UNCHANGED <<sensors, current, stores, taken, bounds>>

ReadColour ==
    /\ pc = "colour"
    /\ rgbEnabled
    /\ taken < MaxSamples
    /\ taken' = taken + 1
    /\ current' = [n |-> taken + 1, altitudeIn |-> altitudeMode]
    /\ pc' = "connect"
    /\ UNCHANGED <<sensors, stores, bounds>>

\* Without the colour sensor the loop is left.
NoColour ==
    /\ pc = "colour"
    /\ ~rgbEnabled
    /\ pc' = "ended"
    /\ UNCHANGED <<sensors, current, stores, taken, bounds>>

----------------------------------------------------------------------------
(* Storing.                                                                 *)

\* Mutant: an exception of the request is swallowed and the sample recorded.
SwallowNoNetwork ==
    /\ pc = "connect"
    /\ pc' \in {"upload", "park", "record"}
    /\ UNCHANGED <<sensors, current, stores, taken, bounds>>

\* A good answer leads to the collection and a bad one to the file; without a
\* network there is no answer but an exception, which ends the script.
CheckConnectivity ==
    /\ pc = "connect"
    /\ pc' \in {"upload", "park", "ended"}
    /\ UNCHANGED <<sensors, current, stores, taken, bounds>>

Upload ==
    /\ pc = "upload"
    /\ cloud' = Append(cloud, current)
    /\ pc' = "record"
    /\ UNCHANGED <<sensors, current, offlineFile, dataFile, taken, bounds>>

\* Mutant: a failed upload is tried again from the connectivity check.
RetryUpload ==
    /\ pc = "upload"
    /\ cloud' \in {cloud, Append(cloud, current)}
    /\ pc' = "connect"
    /\ UNCHANGED <<sensors, current, offlineFile, dataFile, taken, bounds>>

\* Mutant: an exception of add is caught and the sample written to the file.
ParkFailedUpload ==
    /\ pc = "upload"
    /\ cloud' \in {cloud, Append(cloud, current)}
    /\ pc' = "park"
    /\ UNCHANGED <<sensors, current, offlineFile, dataFile, taken, bounds>>

\* add raises, before or after the server has stored the sample.
UploadFails ==
    /\ pc = "upload"
    /\ cloud' \in {cloud, Append(cloud, current)}
    /\ pc' = "ended"
    /\ UNCHANGED <<sensors, current, offlineFile, dataFile, taken, bounds>>

\* Mutant: the offline branch goes on to the next sample.
ParkAndContinue ==
    /\ pc = "park"
    /\ offlineFile' = Append(offlineFile, current)
    /\ pc' = "altitude"
    /\ UNCHANGED <<sensors, current, cloud, dataFile, taken, bounds>>

Park ==
    /\ pc = "park"
    /\ offlineFile' = Append(offlineFile, current)
    /\ pc' = "record"
    /\ UNCHANGED <<sensors, current, cloud, dataFile, taken, bounds>>

Record ==
    /\ pc = "record"
    /\ dataFile' = Append(dataFile, current)
    /\ pc' = "altitude"
    /\ UNCHANGED <<sensors, current, cloud, offlineFile, taken, bounds>>

----------------------------------------------------------------------------
(* Faults.                                                                  *)

\* An interrupt, an exception of the bus, or a power cut.  The handler of the
\* interrupt closes the name "file": a file closed already, or, before the
\* first one was opened, no file at all, which raises.  Either way the script
\* ends and stores nothing more.
Fault ==
    /\ pc # "ended"
    /\ faults < MaxFaults
    /\ faults' = faults + 1
    /\ pc' = "ended"
    /\ UNCHANGED <<sensors, current, stores, taken, starts>>

Restart ==
    /\ pc = "ended"
    /\ starts < MaxStarts
    /\ starts' = starts + 1
    /\ pc' = "startup"
    /\ current' = NoSample
    /\ UNCHANGED <<sensors, stores, taken, faults>>

----------------------------------------------------------------------------

ScriptStep ==
    \/ Startup
    \/ ReadAltitude
    \/ ReadPressure
    \/ ReadColour
    \/ NoColour
    \/ CheckConnectivity
    \/ Upload
    \/ UploadFails
    \/ Park
    \/ Record

Next == ScriptStep \/ Fault \/ Restart

Spec == Init /\ [][Next]_vars

----------------------------------------------------------------------------
(* Properties.                                                              *)

Numbers(file) == {file[k].n : k \in DOMAIN file}

\* A sample in the file of all samples is in the collection or in the offline
\* file, and never in both: whichever statement the script ended after, what
\* was recorded had been stored, once.
RecordedIsStored ==
    \A n \in Numbers(dataFile) : n \in Numbers(cloud) <=> n \notin Numbers(offlineFile)

Increasing(file) == \A j, k \in DOMAIN file : j < k => file[j].n < file[k].n

\* No sample is stored twice and each store keeps the order of measurement,
\* also when add fails after the server has stored the sample.
StoredOnceInOrder == Increasing(cloud) /\ Increasing(offlineFile) /\ Increasing(dataFile)

\* Each run of the script fails to record at most the sample it ended in; a
\* run that is back to measuring has recorded all of its own.
LossPerRun ==
    Cardinality((1..taken) \ Numbers(dataFile))
        <= IF pc \in {"startup", "altitude", "pressure", "colour"}
           THEN starts - 1 ELSE starts

\* A sample that has been built is stored before the next is measured or the
\* script ends: "If yes then write to firebase", otherwise "preparing to
\* write to local file".  The connectivity check raises when there is no
\* network, so the branch meant for that case is not reached.
EverySampleStored ==
    pc \in {"altitude", "ended"} => 1..taken \subseteq Numbers(cloud) \cup Numbers(offlineFile)

\* Every altitude that is stored was read while the chip was, as the comments
\* at the two writes of 0xB9 say, in altimeter mode.
AltitudeFromAltimeter ==
    \A k \in DOMAIN dataFile : dataFile[k].altitudeIn = "altimeter"
=============================================================================
