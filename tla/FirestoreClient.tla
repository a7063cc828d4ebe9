-------------------------- MODULE FirestoreClient --------------------------
(***************************************************************************)
(* The "Sensor" collection and the Firestore client library the app uses   *)
(* to watch it, at the interface FirebaseController sees: a query listener *)
(* that turns the difference between two states of the collection into one *)
(* event on the main queue.                                                *)
(*                                                                         *)
(* Three copies of the collection exist: the server's, the one persisted   *)
(* on the phone (persistence is on by default), and the document set of    *)
(* the live query view.  The server's copy changes at any time; the view   *)
(* catches up on the client's worker queue; the events it raises wait for  *)
(* the main queue.  Document ids are random, so the order of the changes   *)
(* inside one event says nothing, and an event carries them as a set.      *)
(***************************************************************************)
EXTENDS Naturals, Sequences, FiniteSets

CONSTANTS
    DocId,       \* document ids of the collection
    Content,     \* what a document may hold
    MayEdit,     \* may somebody change or delete documents already stored?
    MaxWrites    \* bound: writes to the collection in one behaviour

ASSUME ClientAssumption ==
    /\ MayEdit \in BOOLEAN
    /\ MaxWrites \in Nat

VARIABLES
    cloud,       \* documents stored on the server
    writes,      \* writes made so far; bounds the model, the code has no such counter
    cache,       \* documents persisted on the phone, kept across launches
    view,        \* document set of the query view
    listen,      \* the listener: off, waiting for its first event, raised, failed
    events       \* events on the main queue, oldest first

clientVars == <<cloud, writes, cache, view, listen, events>>

Doc == [id : DocId, content : Content]

Ids(docs) == {d.id : d \in docs}

Change == [type : {"added", "modified", "removed"}, doc : Doc]

Snapshot(changes) == [kind |-> "snapshot", changes |-> changes]
ListenFailed == [kind |-> "error"]

Event == [kind : {"snapshot"}, changes : SUBSET Change] \cup {ListenFailed}

\* Mutant: every document of the new state, as if the app read
\* snapshot.documents in place of snapshot.documentChanges.
AllDocuments(old, new) == {[type |-> "added", doc |-> d] : d \in new}

\* The change set between two document sets.  A removed document is reported
\* as it was before the removal, a modified one as it is after the change.
Changes(old, new) ==
    {[type |-> "added", doc |-> d] : d \in {n \in new : n.id \notin Ids(old)}}
    \cup {[type |-> "modified", doc |-> d] : d \in {n \in new \ old : n.id \in Ids(old)}}
    \cup {[type |-> "removed", doc |-> d] : d \in {o \in old : o.id \notin Ids(new)}}

\* The changes the k-th waiting event brings; none if it is an error.
Changed(k) == IF events[k].kind = "snapshot" THEN events[k].changes ELSE {}

ClientTypeOK ==
    /\ cloud \in SUBSET Doc /\ IsFiniteSet(cloud)
    /\ cache \in SUBSET Doc /\ IsFiniteSet(cache)
    /\ view \in SUBSET Doc /\ IsFiniteSet(view)
    /\ writes \in 0..MaxWrites
    /\ listen \in {"off", "waiting", "raised", "failed"}
    /\ events \in Seq(Event)
    /\ \A k \in DOMAIN events : IsFiniteSet({c.doc : c \in Changed(k)})

ClientInit ==
    /\ cloud = {}
    /\ writes = 0
    /\ cache = {}
    /\ view = {}
    /\ listen = "off"
    /\ events = <<>>

----------------------------------------------------------------------------
(* Writers of the collection.  The sensor station only ever adds.           *)

Write ==
    /\ writes < MaxWrites
    /\ writes' = writes + 1
    /\ UNCHANGED <<cache, view, listen, events>>

AddDoc(i, c) ==
    /\ Write
    /\ i \notin Ids(cloud)
    /\ cloud' = cloud \cup {[id |-> i, content |-> c]}

EditDoc(d, c) ==
    /\ MayEdit
    /\ Write
    /\ c # d.content
    /\ cloud' = (cloud \ {d}) \cup {[d EXCEPT !.content = c]}

RemoveDoc(d) ==
    /\ MayEdit
    /\ Write
    /\ cloud' = cloud \ {d}

WriterStep ==
    \/ \E i \in DocId, c \in Content : AddDoc(i, c)
    \/ \E d \in cloud, c \in Content : EditDoc(d, c)
    \/ \E d \in cloud : RemoveDoc(d)

----------------------------------------------------------------------------
(* The listener.                                                            *)

\* A new listener shows what the phone has persisted, if that is anything;
\* otherwise the first event waits for the server.
StartListening ==
    /\ listen = "off"
    /\ view' = cache
    /\ IF cache = {}
       THEN listen' = "waiting" /\ UNCHANGED events
       ELSE listen' = "raised" /\ events' = Append(events, Snapshot(Changes({}, cache)))
    /\ UNCHANGED <<cloud, writes, cache>>

\* While the phone is offline the first event is raised without documents.
RaiseEmptyOffline ==
    /\ listen = "waiting"
    /\ listen' = "raised"
    /\ events' = Append(events, Snapshot({}))
    /\ UNCHANGED <<cloud, writes, cache, view>>

\* The watch stream brings the view up to date.  After the first event, a
\* snapshot without document changes is not raised.
SyncWithServer ==
    /\ \/ listen = "waiting"
       \/ listen = "raised" /\ view # cloud
    /\ listen' = "raised"
    /\ events' = Append(events, Snapshot(Changes(view, cloud)))
    /\ view' = cloud
    /\ cache' = cloud
    /\ UNCHANGED <<cloud, writes>>

\* The server rejects the query: one error event, then nothing ever again.
RejectListen ==
    /\ listen \in {"waiting", "raised"}
    /\ listen' = "failed"
    /\ events' = Append(events, ListenFailed)
    /\ UNCHANGED <<cloud, writes, cache, view>>

ListenerStep == RaiseEmptyOffline \/ SyncWithServer \/ RejectListen

\* The main queue takes the oldest event.
TakeEvent(kind) ==
    /\ events # <<>>
    /\ Head(events).kind = kind
    /\ events' = Tail(events)
    /\ UNCHANGED <<cloud, writes, cache, view, listen>>

\* The process ends: the view and the queued events go with it.
DropProcess ==
    /\ view' = {}
    /\ listen' = "off"
    /\ events' = <<>>
    /\ UNCHANGED <<cloud, writes, cache>>

\* Everything the app, the writers and the library may do to the collection
\* and its copies.
ClientNext ==
    \/ WriterStep
    \/ StartListening
    \/ ListenerStep
    \/ \E kind \in {"snapshot", "error"} : TakeEvent(kind)
    \/ DropProcess
============================================================================
