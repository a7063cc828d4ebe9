---------------------- MODULE FirebaseControllerProofs ----------------------
(***************************************************************************)
(* Proofs about FirebaseController, for any ids, contents and screens.     *)
(***************************************************************************)
EXTENDS FirebaseController, FiniteSetTheorems, SequenceTheorems, TLAPS

----------------------------------------------------------------------------
(* Lemmas on the operators of the model.                                    *)

\* A change set speaks of documents of the two states it compares, so it is
\* as finite as they are.
LEMMA ChangesType ==
    ASSUME NEW old \in SUBSET Doc, IsFiniteSet(old),
           NEW new \in SUBSET Doc, IsFiniteSet(new)
    PROVE  /\ Changes(old, new) \in SUBSET Change
           /\ IsFiniteSet({c.doc : c \in Changes(old, new)})
<1>1. Changes(old, new) \in SUBSET Change
  BY DEF Changes, Change
<1>2. {c.doc : c \in Changes(old, new)} \in SUBSET (old \cup new)
  BY DEF Changes
<1>3. IsFiniteSet(old \cup new)
  BY FS_Union
<1> QED
  BY <1>1, <1>2, <1>3, FS_Subset

\* An order of a finite set of documents is a sequence with exactly these
\* documents, each once.
LEMMA OrdersType ==
    ASSUME NEW docs \in SUBSET Doc, IsFiniteSet(docs),
           NEW s \in Orders(docs)
    PROVE  /\ s \in Seq(Doc)
           /\ Range(s) = docs
           /\ \A j, k \in DOMAIN s : s[j] = s[k] => j = k
<1>1. Cardinality(docs) \in Nat
  BY FS_CardinalityType
<1>2. s \in [1..Cardinality(docs) -> docs]
  BY DEF Orders, Bijection, Injection
<1>3. s \in Seq(Doc)
  BY <1>1, <1>2
<1>4. Range(s) = docs
  BY <1>2 DEF Orders, Bijection, Surjection, Range
<1>5. \A j, k \in DOMAIN s : s[j] = s[k] => j = k
  BY <1>2 DEF Orders, Bijection, Injection, IsInjective
<1> QED
  BY <1>3, <1>4, <1>5

\* The readable documents of an event in the queue are finitely many.
LEMMA ParsedType ==
    ASSUME ClientTypeOK, NEW k \in DOMAIN events, events[k].kind = "snapshot"
    PROVE  /\ Parsed(events[k].changes) \in SUBSET Doc
           /\ IsFiniteSet(Parsed(events[k].changes))
<1>1. events[k] \in Event /\ Changed(k) = events[k].changes
  BY DEF ClientTypeOK, Changed
<1>2. events[k].changes \in SUBSET Change
  BY <1>1 DEF Event, ListenFailed
<1>3. Parsed(events[k].changes) \in SUBSET Doc
  BY <1>2 DEF Parsed, Change
<1>4. Parsed(events[k].changes) \in SUBSET {c.doc : c \in events[k].changes}
  BY DEF Parsed
<1>5. IsFiniteSet({c.doc : c \in events[k].changes})
  BY <1>1 DEF ClientTypeOK
<1> QED
  BY <1>3, <1>4, <1>5, FS_Subset

\* Appending to the list adds the appended documents to it and loses none.
LEMMA RangeOfConcat ==
    ASSUME NEW S, NEW s \in Seq(S), NEW t \in Seq(S)
    PROVE  Range(s \o t) = Range(s) \cup Range(t)
<1>1. \A i \in 1..Len(s) : i \in 1..Len(s \o t) /\ (s \o t)[i] = s[i]
  OBVIOUS
<1>2. \A i \in 1..Len(t) : i + Len(s) \in 1..Len(s \o t) /\ (s \o t)[i + Len(s)] = t[i]
  OBVIOUS
<1>3. \A i \in 1..Len(s \o t) :
          \/ i \in 1..Len(s) /\ (s \o t)[i] = s[i]
          \/ i - Len(s) \in 1..Len(t) /\ (s \o t)[i] = t[i - Len(s)]
  OBVIOUS
<1>4. DOMAIN s = 1..Len(s) /\ DOMAIN t = 1..Len(t) /\ DOMAIN (s \o t) = 1..Len(s \o t)
  OBVIOUS
<1>5. Range(s \o t) \subseteq Range(s) \cup Range(t)
  BY <1>3, <1>4 DEF Range
<1>6. Range(s) \subseteq Range(s \o t)
  BY <1>1, <1>4 DEF Range
<1>7. Range(t) \subseteq Range(s \o t)
  BY <1>2, <1>4, Zenon DEF Range
<1> QED
  BY <1>5, <1>6, <1>7

----------------------------------------------------------------------------
(* Type correctness.                                                        *)

\* Adding an event at the end of the queue keeps it well typed.
LEMMA QueueAppend ==
    ASSUME ClientTypeOK, NEW e \in Event,
           e.kind = "snapshot" => IsFiniteSet({c.doc : c \in e.changes}),
           events' = Append(events, e)
    PROVE  /\ events' \in Seq(Event)
           /\ \A k \in DOMAIN events' : IsFiniteSet({c.doc : c \in Changed(k)'})
<1>1. events \in Seq(Event)
  BY DEF ClientTypeOK
<1>2. events' \in Seq(Event)
  BY <1>1
<1>3. ASSUME NEW k \in DOMAIN events'
      PROVE  IsFiniteSet({c.doc : c \in Changed(k)'})
  <2>1. CASE k \in DOMAIN events
    <3>1. events'[k] = events[k]
      BY <1>1, <2>1
    <3>2. Changed(k)' = Changed(k)
      BY <3>1 DEF Changed
    <3> QED
      BY <2>1, <3>2 DEF ClientTypeOK
  <2>2. CASE k \notin DOMAIN events
    <3>1. events'[k] = e
      BY <1>1, <2>2
    <3>2. CASE e.kind = "snapshot"
      BY <3>1, <3>2 DEF Changed
    <3>3. CASE e.kind # "snapshot"
      <4>1. Changed(k)' = {}
        BY <3>1, <3>3 DEF Changed
      <4> QED
        BY <4>1, FS_EmptySet
    <3> QED
      BY <3>2, <3>3
  <2> QED
    BY <2>1, <2>2
<1> QED
  BY <1>2, <1>3

\* Taking the oldest event moves every other one a place forward.
LEMMA QueueTail ==
    ASSUME ClientTypeOK, NEW kind, TakeEvent(kind)
    PROVE  /\ events' \in Seq(Event)
           /\ 1 \in DOMAIN events /\ Head(events) = events[1]
           /\ \A k \in DOMAIN events' :
                  k + 1 \in DOMAIN events /\ k # 0 /\ Changed(k)' = Changed(k + 1)
<1>1. events \in Seq(Event) /\ events # <<>> /\ events' = Tail(events)
  BY DEF ClientTypeOK, TakeEvent
<1>2. \A k \in DOMAIN events' : k + 1 \in DOMAIN events /\ k # 0 /\ events'[k] = events[k + 1]
  BY <1>1
<1> QED
  BY <1>1, <1>2 DEF Changed

\* The writers of the collection keep the three copies finite sets of documents.
LEMMA WriterTypes ==
    ASSUME ClientTypeOK, WriterStep
    PROVE  ClientTypeOK'
<1> USE ClientAssumption
<1>0. Write
  BY DEF WriterStep, AddDoc, EditDoc, RemoveDoc
<1>1. writes' \in 0..MaxWrites
  BY <1>0 DEF ClientTypeOK, Write
<1>2. cloud' \in SUBSET Doc /\ IsFiniteSet(cloud')
  <2>1. ASSUME NEW i \in DocId, NEW c \in Content, AddDoc(i, c)
        PROVE  cloud' \in SUBSET Doc /\ IsFiniteSet(cloud')
    <3>1. [id |-> i, content |-> c] \in Doc
      BY DEF Doc
    <3>2. IsFiniteSet(cloud) /\ cloud \in SUBSET Doc
      BY DEF ClientTypeOK
    <3>3. IsFiniteSet(cloud \cup {[id |-> i, content |-> c]})
      BY <3>2, FS_AddElement
    <3> QED
      BY <2>1, <3>1, <3>2, <3>3 DEF AddDoc
  <2>2. ASSUME NEW d \in cloud, NEW c \in Content, EditDoc(d, c)
        PROVE  cloud' \in SUBSET Doc /\ IsFiniteSet(cloud')
    <3>1. [d EXCEPT !.content = c] \in Doc
      BY DEF Doc, ClientTypeOK
    <3>2. IsFiniteSet(cloud \ {d})
      BY FS_RemoveElement DEF ClientTypeOK
    <3> QED
      BY <2>2, <3>1, <3>2, FS_AddElement DEF EditDoc, ClientTypeOK
  <2>3. ASSUME NEW d \in cloud, RemoveDoc(d)
        PROVE  cloud' \in SUBSET Doc /\ IsFiniteSet(cloud')
    BY <2>3, FS_RemoveElement DEF RemoveDoc, ClientTypeOK
  <2> QED
    BY <2>1, <2>2, <2>3 DEF WriterStep
<1>3. \A k \in DOMAIN events' : Changed(k)' = Changed(k)
  BY <1>0 DEF Write, Changed
<1> QED
  BY <1>0, <1>1, <1>2, <1>3 DEF Write, ClientTypeOK

\* So do the query view and the listener, which only queue change sets.
LEMMA ListenerTypes ==
    ASSUME ClientTypeOK, StartListening \/ ListenerStep
    PROVE  ClientTypeOK'
<1>1. CASE StartListening
  <2>1. CASE cache = {}
    <3>1. \A k \in DOMAIN events' : Changed(k)' = Changed(k)
      BY <1>1, <2>1 DEF StartListening, Changed
    <3> QED
      BY <1>1, <2>1, <3>1 DEF StartListening, ClientTypeOK
  <2>2. CASE cache # {}
    <3> DEFINE e == Snapshot(Changes({}, cache))
    <3>1. e \in Event /\ IsFiniteSet({c.doc : c \in e.changes})
      BY ChangesType, FS_EmptySet DEF ClientTypeOK, Event, Snapshot
    <3>2. events' = Append(events, e)
      BY <1>1, <2>2 DEF StartListening
    <3> HIDE DEF e
    <3>3. /\ events' \in Seq(Event)
          /\ \A k \in DOMAIN events' : IsFiniteSet({c.doc : c \in Changed(k)'})
      BY <3>1, <3>2, QueueAppend
    <3> QED
      BY <1>1, <2>2, <3>3 DEF StartListening, ClientTypeOK
  <2> QED
    BY <2>1, <2>2
<1>2. CASE RaiseEmptyOffline
  <2> DEFINE e == Snapshot({})
  <2>1. {c.doc : c \in e.changes} = {}
    BY DEF Snapshot
  <2>2. e \in Event /\ IsFiniteSet({c.doc : c \in e.changes})
    BY <2>1, FS_EmptySet DEF Event, Snapshot
  <2>3. events' = Append(events, e)
    BY <1>2 DEF RaiseEmptyOffline
  <2> HIDE DEF e
  <2>4. /\ events' \in Seq(Event)
        /\ \A k \in DOMAIN events' : IsFiniteSet({c.doc : c \in Changed(k)'})
    BY <2>2, <2>3, QueueAppend
  <2> QED
    BY <1>2, <2>4 DEF RaiseEmptyOffline, ClientTypeOK
<1>3. CASE SyncWithServer
  <2> DEFINE e == Snapshot(Changes(view, cloud))
  <2>1. e \in Event /\ IsFiniteSet({c.doc : c \in e.changes})
    BY ChangesType DEF ClientTypeOK, Event, Snapshot
  <2>2. events' = Append(events, e)
    BY <1>3 DEF SyncWithServer
  <2> HIDE DEF e
  <2>3. /\ events' \in Seq(Event)
        /\ \A k \in DOMAIN events' : IsFiniteSet({c.doc : c \in Changed(k)'})
    BY <2>1, <2>2, QueueAppend
  <2> QED
    BY <1>3, <2>3 DEF SyncWithServer, ClientTypeOK
<1>4. CASE RejectListen
  <2>1. ListenFailed \in Event /\ ListenFailed.kind # "snapshot"
    BY DEF Event, ListenFailed
  <2>2. /\ events' \in Seq(Event)
        /\ \A k \in DOMAIN events' : IsFiniteSet({c.doc : c \in Changed(k)'})
    BY <1>4, <2>1, QueueAppend DEF RejectListen
  <2> QED
    BY <1>4, <2>2 DEF RejectListen, ClientTypeOK
<1> QED
  BY <1>1, <1>2, <1>3, <1>4 DEF ListenerStep

\* So does whatever else the app, the writers and the library do to them.
LEMMA ClientTypes ==
    ASSUME ClientTypeOK, [ClientNext]_clientVars
    PROVE  ClientTypeOK'
<1>1. ASSUME NEW kind, TakeEvent(kind)
      PROVE  ClientTypeOK'
  <2>1. /\ events' \in Seq(Event)
        /\ \A k \in DOMAIN events' : k + 1 \in DOMAIN events /\ Changed(k)' = Changed(k + 1)
    BY <1>1, QueueTail
  <2>2. \A k \in DOMAIN events' : IsFiniteSet({c.doc : c \in Changed(k)'})
    BY <2>1 DEF ClientTypeOK
  <2> QED
    BY <1>1, <2>1, <2>2 DEF TakeEvent, ClientTypeOK
<1>2. CASE DropProcess
  <2>1. events' = <<>> /\ view' = {} /\ IsFiniteSet(view')
    BY <1>2, FS_EmptySet DEF DropProcess
  <2>2. events' \in Seq(Event) /\ DOMAIN events' = {}
    BY <2>1
  <2> QED
    BY <1>2, <2>1, <2>2 DEF DropProcess, ClientTypeOK
<1>3. CASE UNCHANGED clientVars
  BY <1>3 DEF clientVars, ClientTypeOK, Changed
<1> QED
  BY <1>1, <1>2, <1>3, WriterTypes, ListenerTypes DEF ClientNext

\* Passing the list on gives every screen a sequence of documents.
LEMMA InvokeType ==
    ASSUME NEW list \in Seq(Doc), received \in [Listener -> Seq(Doc)], Invoke(list)
    PROVE  received' \in [Listener -> Seq(Doc)]
  BY DEF Invoke

\* One snapshot appends, in some order, exactly the documents it brings that
\* can be read, and leaves the other events in their place.
LEMMA SnapshotStep ==
    ASSUME TypeOK, OnSnapshot
    PROVE  \E new \in Seq(Doc) :
             /\ Range(new) = OnlyWellFormed({c.doc : c \in Changed(1)})
             /\ \A j, k \in DOMAIN new : new[j] = new[k] => j = k
             /\ dataList' = dataList \o new
             /\ dataList' \in Seq(Doc)
             /\ Invoke(dataList')
<1>1. /\ 1 \in DOMAIN events /\ Head(events) = events[1]
      /\ events[1].kind = "snapshot"
  BY QueueTail DEF OnSnapshot, TypeOK, TakeEvent
<1>2. Parsed(events[1].changes) \in SUBSET Doc /\ IsFiniteSet(Parsed(events[1].changes))
  BY <1>1, ParsedType DEF TypeOK
<1>3. PICK new \in Orders(Parsed(events[1].changes)) :
          dataList' = dataList \o new /\ Invoke(dataList')
  BY <1>1 DEF OnSnapshot, ParseHeroesSnapshot
<1>4. /\ new \in Seq(Doc)
      /\ Range(new) = Parsed(events[1].changes)
      /\ \A j, k \in DOMAIN new : new[j] = new[k] => j = k
  BY <1>2, <1>3, OrdersType
<1>5. Parsed(events[1].changes) = OnlyWellFormed({c.doc : c \in Changed(1)})
  BY <1>1 DEF Parsed, DataChecker, OnlyWellFormed, Changed
<1>6. dataList \o new \in Seq(Doc)
  BY <1>4 DEF TypeOK
<1> QED
  BY <1>3, <1>4, <1>5, <1>6

\* Every callback of the app, write and view update keeps the types.
LEMMA TypeStep ==
    ASSUME TypeOK, [Next]_vars
    PROVE  TypeOK'
<1> USE ControllerAssumption
<1>1. CASE SignInSucceeds
  <2>1. ClientTypeOK'
    BY <1>1, ListenerTypes DEF SignInSucceeds, TypeOK
  <2> QED
    BY <1>1, <2>1 DEF SignInSucceeds, TypeOK
<1>2. CASE SignInFails
  <2>1. ClientTypeOK'
    BY <1>2 DEF SignInFails, TypeOK, ClientTypeOK, clientVars, Changed
  <2> QED
    BY <1>2, <2>1 DEF SignInFails, TypeOK
<1>3. ASSUME NEW kind \in {"snapshot", "error"}, TakeEvent(kind)
      PROVE  ClientTypeOK'
  BY <1>3, ClientTypes DEF ClientNext, TypeOK
<1>4. CASE OnSnapshot
  <2>1. dataList' \in Seq(Doc) /\ received' \in [Listener -> Seq(Doc)]
    BY <1>4, SnapshotStep, InvokeType DEF TypeOK
  <2>2. ClientTypeOK'
    BY <1>3, <1>4 DEF OnSnapshot
  <2> QED
    BY <1>4, <2>1, <2>2 DEF OnSnapshot, TypeOK
<1>5. CASE OnListenError
  <2>1. ClientTypeOK'
    BY <1>3, <1>5 DEF OnListenError
  <2> QED
    BY <1>5, <2>1 DEF OnListenError, controllerVars, TypeOK
<1>6. ASSUME NEW l \in Listener, AddListener(l) \/ RemoveListener(l)
      PROVE  TypeOK'
  <2>1. ClientTypeOK'
    BY <1>6 DEF AddListener, RemoveListener, TypeOK, ClientTypeOK, clientVars, Changed
  <2>2. delegates' \in SUBSET Listener /\ received' \in [Listener -> Seq(Doc)]
    BY <1>6 DEF AddListener, RemoveListener, TypeOK
  <2> QED
    BY <1>6, <2>1, <2>2 DEF AddListener, RemoveListener, TypeOK
<1>7. CASE Relaunch
  <2>1. ClientTypeOK'
    BY <1>7, ClientTypes DEF Relaunch, ClientNext, TypeOK
  <2>2. dataList' \in Seq(Doc) /\ received' \in [Listener -> Seq(Doc)]
    BY <1>7 DEF Relaunch
  <2> QED
    BY <1>7, <2>1, <2>2 DEF Relaunch, TypeOK
<1>8. CASE (WriterStep \/ ListenerStep) /\ UNCHANGED controllerVars
  BY <1>8, WriterTypes, ListenerTypes DEF controllerVars, TypeOK
<1>9. CASE UNCHANGED vars
  <2>1. ClientTypeOK'
    BY <1>9, ClientTypes DEF vars, TypeOK
  <2> QED
    BY <1>9, <2>1 DEF vars, controllerVars, TypeOK
<1> QED
  BY <1>1, <1>2, <1>4, <1>5, <1>6, <1>7, <1>8, <1>9 DEF Next, AppStep

\* The app starts well typed, with nothing stored, listed or queued.
LEMMA TypeInit == Init => TypeOK
<1> SUFFICES ASSUME Init PROVE TypeOK
  OBVIOUS
<1> USE ControllerAssumption, ClientAssumption
<1>1. ClientTypeOK
  <2>1. IsFiniteSet({})
    BY FS_EmptySet
  <2>2. <<>> \in Seq(Event) /\ DOMAIN <<>> = {}
    OBVIOUS
  <2> QED
    BY <2>1, <2>2 DEF Init, ClientInit, ClientTypeOK
<1> QED
  BY <1>1 DEF Init, TypeOK

\* Every reachable state is well typed, whatever the ids and contents are; in
\* particular every snapshot is finite, so that it has an order to be
\* appended in.
THEOREM TypeCorrect == Spec => []TypeOK
<1>1. Init => TypeOK
  BY TypeInit
<1>2. TypeOK /\ [Next]_vars => TypeOK'
  BY TypeStep
<1> QED
  BY <1>1, <1>2, PTL DEF Spec

----------------------------------------------------------------------------
(* Registered screens are current.                                          *)

\* Every step leaves the registered screens with the controller's list.
LEMMA RegisteredStep ==
    ASSUME TypeOK, RegisteredCurrent, [Next]_vars
    PROVE  RegisteredCurrent'
<1>1. CASE OnSnapshot
  <2>1. Invoke(dataList') /\ delegates' = delegates
    BY <1>1, SnapshotStep DEF OnSnapshot
  <2> QED
    BY <2>1 DEF Invoke, RegisteredCurrent, TypeOK
<1>2. ASSUME NEW l \in Listener, AddListener(l)
      PROVE  RegisteredCurrent'
  <2>1. received' = [received EXCEPT ![l] = dataList] /\ dataList' = dataList
        /\ delegates' = delegates \cup {l}
    BY <1>2 DEF AddListener
  <2> QED
    BY <2>1 DEF RegisteredCurrent, TypeOK
<1>3. ASSUME NEW l \in Listener, RemoveListener(l)
      PROVE  RegisteredCurrent'
  BY <1>3 DEF RemoveListener, RegisteredCurrent
<1>4. CASE Relaunch
  BY <1>4 DEF Relaunch, RegisteredCurrent
<1>5. CASE \/ SignInSucceeds \/ SignInFails \/ OnListenError
           \/ UNCHANGED controllerVars
           \/ UNCHANGED vars
  BY <1>5 DEF SignInSucceeds, SignInFails, OnListenError, controllerVars, vars,
              RegisteredCurrent
<1> QED
  BY <1>1, <1>2, <1>3, <1>4, <1>5 DEF Next, AppStep

\* For any number of screens: addListener's replay and invoke together keep
\* every registered screen equal to the controller's list.
THEOREM ScreensCurrent == Spec => []RegisteredCurrent
<1>1. Init => RegisteredCurrent
  BY DEF Init, RegisteredCurrent
<1>2. TypeOK /\ RegisteredCurrent /\ [Next]_vars => RegisteredCurrent'
  BY RegisteredStep
<1> QED
  BY <1>1, <1>2, TypeCorrect, PTL DEF Spec

----------------------------------------------------------------------------
(* No readable document of the view gets lost.                              *)

\* What is pending after an event is added is what was pending and what the
\* new event brings.
LEMMA PendingAppend ==
    ASSUME ClientTypeOK, NEW e, events' = Append(events, e)
    PROVE  Pending' = Pending \cup
               (IF e.kind = "snapshot" THEN {c.doc : c \in e.changes} ELSE {})
<1>1. events \in Seq(Event)
  BY DEF ClientTypeOK
<1> PICK n : n = Len(events) + 1
  OBVIOUS
<1>2. /\ DOMAIN events = 1..Len(events) /\ DOMAIN events' = 1..n
      /\ Len(events) \in Nat
      /\ \A k \in DOMAIN events : events'[k] = events[k]
      /\ events'[n] = e
  BY <1>1
<1>3. \A k \in DOMAIN events : k \in DOMAIN events' /\ Changed(k)' = Changed(k)
  BY <1>2 DEF Changed
<1>4. \A k \in DOMAIN events' : k \in DOMAIN events \/ k = n
  BY <1>2
<1>5. Changed(n)' = IF e.kind = "snapshot" THEN e.changes ELSE {}
  BY <1>2 DEF Changed
<1>6. n \in DOMAIN events'
  BY <1>2
<1>7. Pending \subseteq Pending'
  BY <1>3 DEF Pending
<1>8. (IF e.kind = "snapshot" THEN {c.doc : c \in e.changes} ELSE {}) \subseteq Pending'
  BY <1>5, <1>6 DEF Pending
<1>9. Pending' \subseteq Pending \cup
          (IF e.kind = "snapshot" THEN {c.doc : c \in e.changes} ELSE {})
  BY <1>3, <1>4, <1>5 DEF Pending
<1> QED
  BY <1>7, <1>8, <1>9

\* Taking the oldest event leaves pending at least what the others bring.
LEMMA PendingTail ==
    ASSUME ClientTypeOK, NEW kind, TakeEvent(kind)
    PROVE  /\ Pending \subseteq Pending' \cup {c.doc : c \in Changed(1)}
           /\ Pending' \subseteq Pending
<1>1. events \in Seq(Event) /\ events # <<>> /\ events' = Tail(events)
  BY DEF ClientTypeOK, TakeEvent
<1>2. \A k \in DOMAIN events : k = 1 \/ k - 1 \in DOMAIN events'
  BY <1>1
<1>3. \A k \in DOMAIN events' : k + 1 \in DOMAIN events /\ Changed(k)' = Changed(k + 1)
  BY QueueTail
<1>4. \A k \in DOMAIN events : k - 1 \in DOMAIN events' => Changed(k - 1)' = Changed(k)
  <2>1. \A k \in DOMAIN events : (k - 1) + 1 = k
    BY <1>1
  <2> QED
    BY <1>3, <2>1
<1>5. Pending \subseteq Pending' \cup {c.doc : c \in Changed(1)}
  BY <1>2, <1>4 DEF Pending
<1>6. Pending' \subseteq Pending
  BY <1>3 DEF Pending
<1> QED
  BY <1>5, <1>6

\* A document new to the view is in the change set the view reports.
LEMMA ReportedAreChanged ==
    ASSUME NEW old, NEW new
    PROVE  new \subseteq old \cup {c.doc : c \in Changes(old, new)}
<1> SUFFICES ASSUME NEW d \in new, d \notin old
             PROVE  \E c \in Changes(old, new) : c.doc = d
  OBVIOUS
<1>1. CASE d.id \notin Ids(old)
  <2>1. [type |-> "added", doc |-> d] \in Changes(old, new)
    BY <1>1 DEF Changes
  <2> QED
    BY <2>1
<1>2. CASE d.id \in Ids(old)
  <2>1. [type |-> "modified", doc |-> d] \in Changes(old, new)
    BY <1>2 DEF Changes
  <2> QED
    BY <2>1
<1> QED
  BY <1>1, <1>2

\* A step that moves documents into the view queues them, and a step that
\* takes them from the queue lists them.
LEMMA NothingMissingStep ==
    ASSUME TypeOK, NothingMissing, [Next]_vars
    PROVE  NothingMissing'
<1> USE DEF OnlyWellFormed
<1>0. ClientTypeOK /\ dataList \in Seq(Doc)
  BY DEF TypeOK
<1>1. CASE StartListening /\ dataList' = dataList
  <2>1. CASE cache = {}
    BY <1>1, <2>1 DEF StartListening, NothingMissing
  <2>2. CASE cache # {}
    <3> DEFINE e == Snapshot(Changes({}, cache))
    <3>1. events' = Append(events, e) /\ view' = cache
      BY <1>1, <2>2 DEF StartListening
    <3>2. Pending' = Pending \cup {c.doc : c \in Changes({}, cache)}
      BY <1>0, <3>1, PendingAppend DEF Snapshot
    <3> QED
      BY <3>1, <3>2, ReportedAreChanged DEF NothingMissing
  <2> QED
    BY <2>1, <2>2
<1>2. CASE SyncWithServer /\ dataList' = dataList
  <2> DEFINE e == Snapshot(Changes(view, cloud))
  <2>1. events' = Append(events, e) /\ view' = cloud
    BY <1>2 DEF SyncWithServer
  <2>2. Pending' = Pending \cup {c.doc : c \in Changes(view, cloud)}
    BY <1>0, <2>1, PendingAppend DEF Snapshot
  <2> QED
    BY <1>2, <2>1, <2>2, ReportedAreChanged DEF NothingMissing, Known
<1>3. CASE (RaiseEmptyOffline \/ RejectListen) /\ dataList' = dataList
  <2>1. PICK e : events' = Append(events, e)
    BY <1>3 DEF RaiseEmptyOffline, RejectListen
  <2>2. Pending \subseteq Pending'
    BY <1>0, <2>1, PendingAppend
  <2>3. view' = view
    BY <1>3 DEF RaiseEmptyOffline, RejectListen
  <2> QED
    BY <1>3, <2>2, <2>3 DEF NothingMissing, Known
<1>4. CASE OnSnapshot
  <2>1. view' = view
    BY <1>4 DEF OnSnapshot, TakeEvent
  <2>2. PICK new \in Seq(Doc) :
            /\ Range(new) = OnlyWellFormed({c.doc : c \in Changed(1)})
            /\ dataList' = dataList \o new
    BY <1>4, SnapshotStep
  <2>3. Known' = Known \cup OnlyWellFormed({c.doc : c \in Changed(1)})
    BY <1>0, <2>2, RangeOfConcat DEF Known
  <2>4. Pending \subseteq Pending' \cup {c.doc : c \in Changed(1)}
    BY <1>0, <1>4, PendingTail DEF OnSnapshot
  <2> QED
    BY <2>1, <2>3, <2>4 DEF NothingMissing
<1>5. CASE OnListenError
  <2>1. view' = view /\ dataList' = dataList
    BY <1>5 DEF OnListenError, TakeEvent, controllerVars
  <2>2. Changed(1) = {}
    BY <1>0, <1>5, QueueTail DEF OnListenError, TakeEvent, Changed
  <2>3. Pending \subseteq Pending'
    BY <1>0, <1>5, <2>2, PendingTail DEF OnListenError
  <2> QED
    BY <2>1, <2>3 DEF NothingMissing, Known
<1>6. CASE Relaunch
  BY <1>6 DEF Relaunch, DropProcess, NothingMissing
<1>7. CASE UNCHANGED <<view, events, dataList>>
  BY <1>7 DEF NothingMissing, Known, Pending, Changed
<1>8. ASSUME NEW l \in Listener, AddListener(l) \/ RemoveListener(l)
      PROVE  UNCHANGED <<view, events, dataList>>
  BY <1>8 DEF AddListener, RemoveListener, clientVars
<1>9. CASE SignInFails \/ UNCHANGED vars \/ (WriterStep /\ UNCHANGED controllerVars)
  <2>1. UNCHANGED <<view, events, dataList>>
    BY <1>9 DEF SignInFails, vars, clientVars, controllerVars, WriterStep, AddDoc,
                EditDoc, RemoveDoc, Write
  <2> QED
    BY <1>7, <2>1
<1> QED
  BY <1>1, <1>2, <1>3, <1>4, <1>5, <1>6, <1>7, <1>8, <1>9
  DEF Next, AppStep, SignInSucceeds, ListenerStep, controllerVars

\* Whatever is written, edited or deleted, and however often the app is
\* relaunched, a readable document the client's view holds is listed or in an
\* event the main queue has still to run.
THEOREM NoneMissing == Spec => []NothingMissing
<1>1. Init => NothingMissing
  BY DEF Init, ClientInit, NothingMissing, OnlyWellFormed
<1>2. TypeOK /\ NothingMissing /\ [Next]_vars => NothingMissing'
  BY NothingMissingStep
<1> QED
  BY <1>1, <1>2, TypeCorrect, PTL DEF Spec

----------------------------------------------------------------------------
(* A collection that is only added to.                                      *)

IdsUnique(docs) == \A c, d \in docs : c.id = d.id => c = d

\* Between a state and a later one that only adds, every change is an added
\* document the older state does not have.
LEMMA OnlyAdded ==
    ASSUME NEW old, NEW new, old \subseteq new, IdsUnique(new),
           NEW c \in Changes(old, new)
    PROVE  c.type = "added" /\ c.doc \in new \ old
<1>1. CASE \E d \in new : d.id \notin Ids(old) /\ c = [type |-> "added", doc |-> d]
  BY <1>1 DEF Ids
<1>2. ASSUME NEW d \in new \ old, d.id \in Ids(old)
      PROVE  FALSE
  <2>1. PICK o \in old : o.id = d.id
    BY <1>2 DEF Ids
  <2> QED
    BY <2>1 DEF IdsUnique
<1>3. ASSUME NEW o \in old, o.id \notin Ids(new)
      PROVE  FALSE
  BY <1>3 DEF Ids
<1> QED
  BY <1>1, <1>2, <1>3 DEF Changes

\* A new event keeps the queue fresh when it brings only documents that were
\* not yet in the view.
LEMMA FreshAppend ==
    ASSUME ClientTypeOK, FreshEvents, Known \subseteq view,
           NEW e, events' = Append(events, e),
           view \subseteq view', UNCHANGED dataList,
           e.kind = "snapshot" =>
               \A c \in e.changes : c.type = "added" /\ c.doc \in view' \ view
    PROVE  FreshEvents'
<1>1. events \in Seq(Event)
  BY DEF ClientTypeOK
<1> PICK n : n = Len(events) + 1
  OBVIOUS
<1>2. /\ DOMAIN events = 1..Len(events) /\ DOMAIN events' = 1..n
      /\ Len(events) \in Nat
      /\ \A k \in DOMAIN events : events'[k] = events[k]
      /\ events'[n] = e
  BY <1>1
<1>3. \A k \in DOMAIN events : Changed(k)' = Changed(k)
  BY <1>2 DEF Changed
<1>4. \A k \in DOMAIN events' : k \in DOMAIN events \/ k = n
  BY <1>2
<1>5. \A c \in Changed(n)' : c.type = "added" /\ c.doc \in view' \ view
  BY <1>2 DEF Changed
<1>6. Known' = Known
  BY DEF Known
<1>7. ASSUME NEW k \in DOMAIN events', NEW c \in Changed(k)'
      PROVE  c.type = "added" /\ c.doc \in view' /\ c.doc \notin Known'
  <2>1. CASE k \in DOMAIN events
    BY <1>3, <1>6, <1>7, <2>1 DEF FreshEvents
  <2>2. CASE k = n
    BY <1>5, <1>6, <1>7, <2>2
  <2> QED
    BY <1>4, <2>1, <2>2
<1>8. ASSUME NEW j \in DOMAIN events', NEW k \in DOMAIN events', j # k,
             NEW c \in Changed(j)', NEW d \in Changed(k)'
      PROVE  c.doc # d.doc
  <2>1. \A i \in DOMAIN events : \A x \in Changed(i)' : x.doc \in view
    BY <1>3 DEF FreshEvents
  <2>2. CASE j \in DOMAIN events /\ k \in DOMAIN events
    BY <1>3, <1>8, <2>2 DEF FreshEvents
  <2>3. CASE j = n \/ k = n
    BY <1>4, <1>5, <1>8, <2>1, <2>3
  <2> QED
    BY <1>4, <2>2, <2>3
<1> QED
  BY <1>7, <1>8 DEF FreshEvents

\* The rest of the queue stays fresh when the oldest event leaves it and the
\* list grows by documents of that event alone.
LEMMA FreshTail ==
    ASSUME ClientTypeOK, FreshEvents, NEW kind, TakeEvent(kind),
           Known' \subseteq Known \cup {c.doc : c \in Changed(1)}
    PROVE  FreshEvents'
<1>1. view' = view
  BY DEF TakeEvent
<1>2. 1 \in DOMAIN events
  BY QueueTail
<1>3. \A k \in DOMAIN events' : k + 1 \in DOMAIN events /\ Changed(k)' = Changed(k + 1)
  BY QueueTail
<1>4. events' \in Seq(Event)
  BY QueueTail
<1>5. \A k \in DOMAIN events' : k + 1 # 1 /\ \A j \in DOMAIN events' : j # k => j + 1 # k + 1
  BY <1>4
<1>6. ASSUME NEW k \in DOMAIN events', NEW c \in Changed(k)'
      PROVE  c.type = "added" /\ c.doc \in view' /\ c.doc \notin Known'
  <2>1. c.type = "added" /\ c.doc \in view /\ c.doc \notin Known
    BY <1>3, <1>6 DEF FreshEvents
  <2>2. \A d \in Changed(1) : d.doc # c.doc
    BY <1>2, <1>3, <1>5, <1>6 DEF FreshEvents
  <2> QED
    BY <1>1, <2>1, <2>2
<1>7. ASSUME NEW j \in DOMAIN events', NEW k \in DOMAIN events', j # k,
             NEW c \in Changed(j)', NEW d \in Changed(k)'
      PROVE  c.doc # d.doc
  BY <1>3, <1>5, <1>7 DEF FreshEvents
<1> QED
  BY <1>6, <1>7 DEF FreshEvents

\* What AppendOnlyInv says of a collection that is only added to.
AddOnly ==
    /\ IdsUnique(cloud)
    /\ cache \subseteq cloud /\ view \subseteq cloud
    /\ listen = "off" => view = {}
    /\ Known \subseteq OnlyWellFormed(view)
    /\ FreshEvents
    /\ \A j, k \in DOMAIN dataList : dataList[j].id = dataList[k].id => j = k

\* AppendOnlyInv is AddOnly under its condition.
LEMMA AddOnlyIsInv == AppendOnlyInv <=> (~MayEdit => AddOnly)
  BY DEF AppendOnlyInv, AddOnly, IdsUnique

\* While documents are only added, every step keeps list, queue, view and
\* collection in line.
LEMMA AddOnlyStep ==
    ASSUME ~MayEdit, TypeOK, AddOnly, [Next]_vars
    PROVE  AddOnly'
<1> USE DEF OnlyWellFormed
<1>0. ClientTypeOK /\ dataList \in Seq(Doc) /\ Known \subseteq view
  BY DEF TypeOK, AddOnly
<1>1. CASE UNCHANGED <<cloud, cache, view, events, dataList>> /\ (listen' = "off" => listen = "off")
  BY <1>1 DEF AddOnly, Known, FreshEvents, Changed
<1>2. CASE StartListening /\ dataList' = dataList
  <2>1. view = {} /\ cache \subseteq cloud /\ IdsUnique(cloud)
    BY <1>2 DEF StartListening, AddOnly
  <2>2. Known' = Known /\ view' = cache /\ cloud' = cloud /\ cache' = cache /\ listen' # "off"
    BY <1>2 DEF StartListening, Known
  <2>3. CASE cache = {}
    <3>1. UNCHANGED <<cloud, cache, view, events, dataList>>
      BY <1>2, <2>1, <2>3 DEF StartListening
    <3> QED
      BY <1>1, <2>2, <3>1
  <2>4. CASE cache # {}
    <3> DEFINE e == Snapshot(Changes({}, cache))
    <3>1. events' = Append(events, e)
      BY <1>2, <2>4 DEF StartListening
    <3>2. IdsUnique(cache)
      BY <2>1 DEF IdsUnique
    <3>3. \A c \in e.changes : c.type = "added" /\ c.doc \in view' \ view
      BY <2>1, <2>2, <3>2, OnlyAdded DEF Snapshot
    <3> HIDE DEF e
    <3>4. FreshEvents'
      BY <1>0, <1>2, <2>1, <3>1, <3>3, FreshAppend DEF AddOnly
    <3> QED
      BY <1>0, <1>2, <2>1, <2>2, <3>4 DEF AddOnly
  <2> QED
    BY <2>3, <2>4
<1>3. CASE SyncWithServer /\ dataList' = dataList
  <2> DEFINE e == Snapshot(Changes(view, cloud))
  <2>1. /\ events' = Append(events, e) /\ view' = cloud
        /\ cache' = cloud /\ cloud' = cloud /\ listen' # "off"
    BY <1>3 DEF SyncWithServer
  <2>2. \A c \in e.changes : c.type = "added" /\ c.doc \in view' \ view
    BY <2>1, OnlyAdded DEF Snapshot, AddOnly
  <2> HIDE DEF e
  <2>3. FreshEvents'
    BY <1>0, <1>3, <2>1, <2>2, FreshAppend DEF AddOnly
  <2>4. Known' \subseteq OnlyWellFormed(view')
    BY <1>3, <2>1 DEF AddOnly, Known
  <2> QED
    BY <1>3, <2>1, <2>3, <2>4 DEF AddOnly
<1>4. CASE (RaiseEmptyOffline \/ RejectListen) /\ dataList' = dataList
  <2>1. PICK e \in {Snapshot({}), ListenFailed} : events' = Append(events, e)
    BY <1>4 DEF RaiseEmptyOffline, RejectListen
  <2>2. UNCHANGED <<cloud, cache, view>> /\ listen' # "off"
    BY <1>4 DEF RaiseEmptyOffline, RejectListen
  <2>3. e.kind = "snapshot" => e.changes = {}
    BY <2>1 DEF Snapshot, ListenFailed
  <2>4. FreshEvents'
    BY <1>0, <1>4, <2>1, <2>2, <2>3, FreshAppend DEF AddOnly
  <2> QED
    BY <1>4, <2>2, <2>4 DEF AddOnly, Known
<1>5. CASE OnSnapshot
  <2>1. UNCHANGED <<cloud, cache, view, listen>> /\ TakeEvent("snapshot")
    BY <1>5 DEF OnSnapshot, TakeEvent
  <2>2. PICK new \in Seq(Doc) :
            /\ Range(new) = OnlyWellFormed({c.doc : c \in Changed(1)})
            /\ \A j, k \in DOMAIN new : new[j] = new[k] => j = k
            /\ dataList' = dataList \o new
    BY <1>5, SnapshotStep
  <2>3. Known' = Known \cup Range(new)
    BY <1>0, <2>2, RangeOfConcat DEF Known
  <2>4. FreshEvents'
    BY <1>0, <2>1, <2>2, <2>3, FreshTail DEF AddOnly
  <2>5. \A c \in Changed(1) : c.doc \in view /\ c.doc \notin Known
    BY <1>0, <2>1, QueueTail DEF AddOnly, FreshEvents
  <2>6. Range(new) \subseteq OnlyWellFormed(view) /\ Range(new) \cap Known = {}
    BY <2>2, <2>5
  <2>7. Known' \subseteq OnlyWellFormed(view')
    BY <2>1, <2>3, <2>6 DEF AddOnly
  <2>8. \A j, k \in DOMAIN dataList' : dataList'[j].id = dataList'[k].id => j = k
    <3>1. SUFFICES ASSUME NEW j \in DOMAIN dataList', NEW k \in DOMAIN dataList',
                          dataList'[j].id = dataList'[k].id
                   PROVE  j = k
      OBVIOUS
    <3>2. dataList'[j] \in cloud /\ dataList'[k] \in cloud
      BY <2>1, <2>7, <3>1 DEF AddOnly, Known, Range
    <3>3. dataList'[j] = dataList'[k]
      BY <3>1, <3>2 DEF AddOnly, IdsUnique
    <3>4. \A i \in DOMAIN dataList' :
              \/ i \in DOMAIN dataList /\ dataList'[i] = dataList[i]
              \/ i \notin DOMAIN dataList /\ i - Len(dataList) \in DOMAIN new
                 /\ dataList'[i] = new[i - Len(dataList)]
      BY <1>0, <2>2
    <3>5. CASE j \in DOMAIN dataList /\ k \in DOMAIN dataList
      BY <3>1, <3>4, <3>5 DEF AddOnly
    <3>6. CASE j \notin DOMAIN dataList /\ k \notin DOMAIN dataList
      <4>1. j - Len(dataList) = k - Len(dataList)
        BY <2>2, <3>3, <3>4, <3>6
      <4> QED
        BY <1>0, <2>2, <4>1
    <3>7. CASE j \in DOMAIN dataList <=> k \notin DOMAIN dataList
      <4>1. \A i \in DOMAIN dataList : dataList[i] \in Known
        BY DEF Known, Range
      <4>2. \A i \in DOMAIN new : new[i] \in Range(new)
        BY DEF Range
      <4> QED
        BY <2>6, <3>3, <3>4, <3>7, <4>1, <4>2
    <3> QED
      BY <3>5, <3>6, <3>7
  <2> QED
    BY <2>1, <2>4, <2>7, <2>8 DEF AddOnly
<1>6. CASE OnListenError
  <2>1. UNCHANGED <<cloud, cache, view, listen, dataList>> /\ TakeEvent("error")
    BY <1>6 DEF OnListenError, TakeEvent, controllerVars
  <2>2. FreshEvents'
    BY <1>0, <2>1, FreshTail DEF AddOnly, Known
  <2> QED
    BY <2>1, <2>2 DEF AddOnly, Known
<1>7. CASE Relaunch
  <2>1. /\ cloud' = cloud /\ cache' = cache /\ view' = {}
        /\ DOMAIN events' = {} /\ DOMAIN dataList' = {}
    BY <1>7 DEF Relaunch, DropProcess
  <2> QED
    BY <2>1 DEF AddOnly, Known, Range, FreshEvents
<1>8. CASE WriterStep /\ UNCHANGED controllerVars
  <2>1. UNCHANGED <<cache, view, events, listen, dataList>>
    BY <1>8 DEF WriterStep, AddDoc, EditDoc, RemoveDoc, Write, controllerVars
  <2>2. PICK i, c : i \notin Ids(cloud) /\ cloud' = cloud \cup {[id |-> i, content |-> c]}
    BY <1>8 DEF WriterStep, AddDoc, EditDoc, RemoveDoc
  <2>3. \A d \in cloud : d.id # i
    BY <2>2 DEF Ids
  <2>4. IdsUnique(cloud')
    BY <2>2, <2>3 DEF IdsUnique, AddOnly
  <2> QED
    BY <2>1, <2>2, <2>4 DEF AddOnly, Known, FreshEvents, Changed
<1>9. CASE SignInFails \/ UNCHANGED vars \/ \E l \in Listener : AddListener(l) \/ RemoveListener(l)
  <2>1. UNCHANGED <<cloud, cache, view, events, listen, dataList>>
    BY <1>9 DEF SignInFails, AddListener, RemoveListener, vars, clientVars, controllerVars
  <2> QED
    BY <1>1, <2>1
<1> QED
  BY <1>2, <1>3, <1>4, <1>5, <1>6, <1>7, <1>8, <1>9
  DEF Next, AppStep, SignInSucceeds, ListenerStep, controllerVars

\* An empty collection with nothing listed is in line.
LEMMA AddOnlyInit == Init => AddOnly
  BY DEF Init, ClientInit, AddOnly, IdsUnique, Known, Range, OnlyWellFormed, FreshEvents

\* While documents are only added, the list and the waiting events split what
\* the view holds and the view trails the server, in every reachable state:
\* the inductive invariant behind the results that follow.
THEOREM AppendOnlyInvariant == Spec => []AppendOnlyInv
<1>1. Init => AppendOnlyInv
  BY AddOnlyInit, AddOnlyIsInv
<1>2. AddOnly' /\ ~MayEdit => AppendOnlyInv'
  BY DEF AppendOnlyInv, AddOnly, IdsUnique
<1>3. TypeOK /\ AppendOnlyInv /\ [Next]_vars => AppendOnlyInv'
  <2>1. CASE MayEdit
    BY <2>1 DEF AppendOnlyInv
  <2>2. CASE ~MayEdit
    BY <1>2, <2>2, AddOnlyStep, AddOnlyIsInv
  <2> QED
    BY <2>1, <2>2
<1> QED
  BY <1>1, <1>3, TypeCorrect, PTL DEF Spec

\* While documents are only added, no document is ever listed twice: the copy
\* the phone persisted and the server's copy are not both reported.
THEOREM ListedOnce == Spec => []ExactlyOnce
<1>1. AppendOnlyInv => ExactlyOnce
  BY DEF AppendOnlyInv, ExactlyOnce
<1> QED
  BY <1>1, AppendOnlyInvariant, PTL

\* While documents are only added, a phone that has caught up lists exactly
\* the readable part of the collection.
THEOREM HistoryCorrect ==
    ASSUME ~MayEdit
    PROVE  Spec => []HistoryMatchesCollection
<1>1. AppendOnlyInv /\ NothingMissing => HistoryMatchesCollection
  <2> SUFFICES ASSUME AppendOnlyInv, NothingMissing,
                      view = cloud, events = <<>>
               PROVE  Known = OnlyWellFormed(cloud)
    BY DEF HistoryMatchesCollection
  <2>1. Pending = {}
    BY DEF Pending
  <2>2. Known \subseteq OnlyWellFormed(view)
    BY DEF AppendOnlyInv
  <2> QED
    BY <2>1, <2>2 DEF NothingMissing
<1> QED
  BY <1>1, AppendOnlyInvariant, NoneMissing, PTL

----------------------------------------------------------------------------
(* The controller implements the live list of readings.                     *)

\* The app starts as the abstract list does, with nothing stored or shown.
LEMMA LiveInit == Init => Live!Init
  BY DEF Init, ClientInit, Live!Init, Known, Range

\* Every step of the app is a step of the abstract list or a stutter.
LEMMA LiveStep ==
    ASSUME ~MayEdit, TypeOK, AddOnly', [Next]_vars
    PROVE  [Live!Next]_Live!vars
<1> DEFINE shown == [l \in Listener |-> Range(received[l])]
<1>0. dataList \in Seq(Doc) /\ received \in [Listener -> Seq(Doc)]
  BY DEF TypeOK
<1>1. CASE UNCHANGED <<cloud, dataList, received>>
  BY <1>1 DEF Live!vars, Known
<1>2. CASE OnSnapshot
  <2>1. PICK new \in Seq(Doc) : dataList' = dataList \o new /\ Invoke(dataList')
    BY <1>2, SnapshotStep
  <2>2. Known \subseteq Known'
    BY <1>0, <2>1, RangeOfConcat DEF Known
  <2>3. Known' \subseteq cloud /\ cloud' = cloud
    BY <1>2 DEF AddOnly, OnlyWellFormed, OnSnapshot, TakeEvent
  <2>4. shown' = [l \in Listener |-> IF l \in delegates THEN Known' ELSE shown[l]]
    BY <2>1 DEF Invoke, Known
  <2>5. delegates \in SUBSET Listener
    BY DEF TypeOK
  <2>6. Live!Learn
    BY <2>2, <2>3, <2>4, <2>5 DEF Live!Learn
  <2> QED
    BY <2>6 DEF Live!Next
<1>3. ASSUME NEW l \in Listener, AddListener(l)
      PROVE  Live!Next
  <2>1. cloud' = cloud /\ dataList' = dataList /\ received' = [received EXCEPT ![l] = dataList]
    BY <1>3 DEF AddListener, clientVars
  <2>2. Known' = Known /\ Known' \subseteq cloud
    BY <2>1 DEF Known, AddOnly, OnlyWellFormed
  <2>3. shown' = [s \in Listener |-> IF s \in {l} THEN Known' ELSE shown[s]]
    BY <1>0, <2>1, <2>2 DEF Known
  <2>4. Live!Learn
    BY <2>1, <2>2, <2>3 DEF Live!Learn
  <2> QED
    BY <2>4 DEF Live!Next
<1>4. CASE Relaunch
  <2>1. cloud' = cloud /\ dataList' = <<>> /\ received' = [l \in Listener |-> <<>>]
    BY <1>4 DEF Relaunch, DropProcess
  <2>2. Known' = {} /\ shown' = [s \in Listener |-> {}]
    BY <2>1 DEF Known, Range
  <2> QED
    BY <2>1, <2>2 DEF Live!Next, Live!Restart
<1>5. CASE WriterStep /\ UNCHANGED controllerVars
  <2>1. PICK i \in DocId, c \in Content :
            i \notin Ids(cloud) /\ cloud' = cloud \cup {[id |-> i, content |-> c]}
    BY <1>5 DEF WriterStep, AddDoc, EditDoc, RemoveDoc
  <2>2. [id |-> i, content |-> c] \in Doc \ cloud
    BY <2>1 DEF Doc, Ids
  <2>3. Known' = Known /\ shown' = shown
    BY <1>5 DEF controllerVars, Known
  <2> QED
    BY <2>1, <2>2, <2>3 DEF Live!Next, Live!Store
<1>6. CASE \/ SignInSucceeds \/ SignInFails \/ OnListenError
           \/ ListenerStep /\ UNCHANGED controllerVars
           \/ UNCHANGED vars
           \/ \E l \in Listener : RemoveListener(l)
  <2>1. UNCHANGED <<cloud, dataList, received>>
    BY <1>6 DEF SignInSucceeds, SignInFails, OnListenError, ListenerStep, RemoveListener,
                StartListening, RaiseEmptyOffline, SyncWithServer, RejectListen,
                TakeEvent, vars, clientVars, controllerVars
  <2> QED
    BY <1>1, <2>1
<1> QED
  BY <1>2, <1>3, <1>4, <1>5, <1>6 DEF Next, AppStep

\* For any collection that is only added to and any number of screens, the
\* controller behaves as the abstract live list.
THEOREM LiveRefinement ==
    ASSUME ~MayEdit
    PROVE  Spec => ImplementsLiveReadings
<1>1. AppendOnlyInv' => AddOnly'
  BY DEF AppendOnlyInv, AddOnly, IdsUnique
<1>2. TypeOK /\ AppendOnlyInv' /\ [Next]_vars => [Live!Next]_Live!vars
  BY <1>1, LiveStep
<1> QED
  BY <1>2, LiveInit, TypeCorrect, AppendOnlyInvariant, PTL
  DEF Spec, ImplementsLiveReadings, Live!Spec
=============================================================================
