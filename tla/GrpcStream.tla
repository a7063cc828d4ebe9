----------------------------- MODULE GrpcStream -----------------------------
(***************************************************************************)
(* One bidirectional gRPC stream of the Firestore client.                  *)
(*                                                                         *)
(* Two threads share it.  Operations are started on the worker queue; a    *)
(* polling thread takes what gRPC has completed and puts it back on the    *)
(* worker queue.  To end the stream the worker cancels the call and blocks *)
(* until all its operations are off gRPC's queue, so that the stream can   *)
(* be deleted: completions that wait on the worker queue by then cannot be *)
(* taken back and are made to do nothing instead.                          *)
(***************************************************************************)
EXTENDS Naturals, Sequences, SequencesExt

CONSTANTS
    MaxMessages,   \* bound: messages the server sends
    MaxWrites      \* bound: messages the owner writes

ASSUME StreamAssumption == MaxMessages \in Nat /\ MaxWrites \in Nat

VARIABLES
    call,          \* the gRPC call: "idle", "running", or "failed" (or cancelled)
    grpc,          \* completions gRPC has not given back
    workerQueue,   \* completions that wait on the worker queue, oldest first
    worker,        \* what the worker does: "idle", or what it blocks for
    after,         \* what follows the Shutdown it is in
    observer,      \* is observer_ set?
    finished,      \* is_grpc_call_finished_
    registered,    \* is grpc_connection_ set?
    active,        \* has_active_write_
    buffer,        \* the buffered writer's queue
    written,       \* messages the owner has written
    wire,          \* messages handed to gRPC
    received,      \* messages gRPC has received
    delivered,     \* messages the observer was given
    notified,      \* was the observer told of the end?
    released,      \* has the owner deleted the stream?
    died           \* has a HARD_ASSERT failed?

writer == <<active, buffer, written, wire>>
shown == <<delivered, notified>>
vars == <<call, grpc, workerQueue, worker, after, observer, finished, registered, writer,
          received, shown, released, died>>

\* A GrpcCompletion: the operation, what to do if it succeeds, the message it
\* carries, whether the callback is set, whether the stream lists it.
New(type, onSuccess, message) ==
    [type |-> type, onSuccess |-> onSuccess, message |-> message, ok |-> TRUE,
     callback |-> TRUE, listed |-> TRUE]

Completion ==
    [type : {"Read", "Write", "Finish"},
     onSuccess : {"OnRead", "OnWrite", "FinishAndNotify", "nothing"},
     message : 0..MaxMessages + MaxWrites, ok : BOOLEAN, callback : BOOLEAN, listed : BOOLEAN]

TypeOK ==
    /\ call \in {"idle", "running", "failed"}
    /\ grpc \in Seq(Completion)
    /\ workerQueue \in Seq(Completion)
    /\ worker \in {"idle", "failing", "stopping", "draining", "lastWrite"}
    /\ after \in {"nothing", "silent", "notify"}
    /\ {observer, finished, registered, active, notified, released, died} \subseteq BOOLEAN
    /\ buffer \in Seq(1..MaxWrites)
    /\ wire \in Seq(1..MaxWrites)
    /\ written \in 0..MaxWrites
    /\ received \in 0..MaxMessages
    /\ delivered \in Seq(1..MaxMessages)

Init ==
    /\ call = "idle" /\ grpc = <<>> /\ workerQueue = <<>>
    /\ worker = "idle" /\ after = "nothing"
    /\ observer = TRUE /\ finished = FALSE /\ registered = TRUE
    /\ active = FALSE /\ buffer = <<>> /\ written = 0 /\ wire = <<>>
    /\ received = 0 /\ delivered = <<>> /\ notified = FALSE
    /\ released = FALSE /\ died = FALSE

Completions == grpc \o workerQueue

HasListed(completions) == \E k \in DOMAIN completions : completions[k].listed

----------------------------------------------------------------------------
(* gRPC and the thread that polls its queue.                                *)

\* The server ends the call or the network is lost.
CallFails ==
    /\ call = "running"
    /\ call' = "failed"
    /\ UNCHANGED <<grpc, workerQueue, worker, after, observer, finished, registered, writer,
                   received, shown, released, died>>

\* Only a failed call fails its reads and writes; a message may still be read.
CanEnd(c, ok) ==
    \/ c.type = "Finish" /\ ok
    \/ c.type = "Read" /\ ok /\ received < MaxMessages
    \/ c.type = "Write" /\ ok
    \/ c.type # "Finish" /\ ~ok /\ call = "failed"

Complete(k, ok) ==
    LET c == grpc[k]
        n == IF c.type = "Read" /\ ok THEN received + 1 ELSE received
    IN  /\ CanEnd(c, ok)
        /\ grpc' = RemoveAt(grpc, k)
        /\ received' = n
        /\ workerQueue' = Append(workerQueue,
               [c EXCEPT !.ok = ok, !.message = IF c.type = "Read" THEN n ELSE @])
        /\ UNCHANGED <<call, worker, after, observer, finished, registered, writer, shown,
                       released, died>>

\* The operations of a failed call come back.
GrpcReturns == call = "failed" /\ \E k \in DOMAIN grpc, ok \in BOOLEAN : Complete(k, ok)

----------------------------------------------------------------------------
(* Ending.                                                                  *)

Silenced(completions) ==
    [k \in DOMAIN completions |->
        IF completions[k].listed THEN [completions[k] EXCEPT !.callback = FALSE]
        ELSE completions[k]]

Unlisted(completions) ==
    [k \in DOMAIN completions |-> [completions[k] EXCEPT !.listed = FALSE]]

\* FinishGrpcCall up to the point where it blocks.
FinishGrpcCall(pending, queue, waitFor) ==
    /\ died' = finished
    /\ finished' = TRUE
    /\ grpc' = Silenced(pending)
    /\ workerQueue' = Silenced(queue)
    /\ worker' = waitFor

\* Mutant: the call is not cancelled before it is waited for.
ShutdownUncancelled(pending, queue, then) ==
    /\ registered' = FALSE
    /\ after' = then
    /\ UNCHANGED call
    /\ IF HasListed(pending \o queue) /\ ~finished
       THEN FinishGrpcCall(pending, queue, "stopping")
       ELSE /\ grpc' = Silenced(pending)
            /\ workerQueue' = Silenced(queue)
            /\ worker' = "draining"
            /\ UNCHANGED <<finished, died>>

\* Mutant: a call that has been finished is finished again.
ShutdownTwice(pending, queue, then) ==
    /\ registered' = FALSE
    /\ after' = then
    /\ call' = "failed"
    /\ FinishGrpcCall(pending, queue, "stopping")

\* Without completions the call was never started and must not be finished.
Shutdown(pending, queue, then) ==
    /\ registered' = FALSE
    /\ after' = then
    /\ IF HasListed(pending \o queue) /\ ~finished
       THEN /\ call' = "failed"
            /\ FinishGrpcCall(pending, queue, "stopping")
       ELSE /\ grpc' = Silenced(pending)
            /\ workerQueue' = Silenced(queue)
            /\ worker' = "draining"
            /\ UNCHANGED <<call, finished, died>>

\* FastFinishCompletionsBlocking has stopped blocking.
OffQueue(waitingFor) ==
    /\ worker = waitingFor
    /\ ~HasListed(grpc)
    /\ workerQueue' = Unlisted(workerQueue)
    /\ UNCHANGED <<call, finished, registered, writer, received, delivered, died>>

\* Mutant: nobody waits for the status of a failed call.
CallFinishedUnheard ==
    /\ OffQueue("failing")
    /\ grpc' = Append(grpc, New("Finish", "nothing", 0))
    /\ worker' = "idle"
    /\ UNCHANGED <<after, observer, notified, released>>

\* The status of a failed call is asked for.
CallFinished ==
    /\ OffQueue("failing")
    /\ grpc' = Append(grpc, New("Finish", "FinishAndNotify", 0))
    /\ worker' = "idle"
    /\ UNCHANGED <<after, observer, notified, released>>

\* That of a cancelled call is not of interest, and waited for at once.
CancelledCallFinished ==
    /\ OffQueue("stopping")
    /\ grpc' = Append(grpc, [New("Finish", "nothing", 0) EXCEPT !.callback = FALSE])
    /\ worker' = "draining"
    /\ UNCHANGED <<after, observer, notified, released>>

\* Mutant: the stream is let go while gRPC still has its completions.
ReleasedEarly ==
    /\ worker = "draining"
    /\ workerQueue' = Unlisted(workerQueue)
    /\ worker' = "idle" /\ after' = "nothing"
    /\ observer' = FALSE
    /\ notified' = (after = "notify" /\ observer)
    /\ released' = TRUE
    /\ UNCHANGED <<call, grpc, finished, registered, writer, received, delivered, died>>

\* Mutant: the observer is told whoever has ended the stream.
ReleasedAloud ==
    /\ OffQueue("draining")
    /\ worker' = "idle" /\ after' = "nothing"
    /\ observer' = FALSE
    /\ notified' = observer
    /\ released' = TRUE
    /\ UNCHANGED grpc

\* Shutdown is over: the observer is told or not, and the stream deleted.
Released ==
    /\ OffQueue("draining")
    /\ worker' = "idle" /\ after' = "nothing"
    /\ observer' = FALSE
    /\ notified' = (after = "notify" /\ observer)
    /\ released' = TRUE
    /\ UNCHANGED grpc

----------------------------------------------------------------------------
(* Completions that run on the worker queue.                                *)

\* The completion at the head runs; it is taken off the stream's list.
Run(onSuccess) ==
    /\ worker = "idle"
    /\ workerQueue # <<>>
    /\ Head(workerQueue).callback
    /\ Head(workerQueue).ok
    /\ Head(workerQueue).onSuccess = onSuccess
    /\ UNCHANGED <<received, released, notified>>

RunSilenced ==
    /\ worker = "idle"
    /\ workerQueue # <<>>
    /\ ~Head(workerQueue).callback
    /\ workerQueue' = Tail(workerQueue)
    /\ UNCHANGED <<call, grpc, worker, after, observer, finished, registered, writer, received,
                   shown, released, died>>

ReadMore == Append(grpc, New("Read", "OnRead", 0))

\* Mutant: the next read is not asked for.
OnReadOnce ==
    /\ Run("OnRead")
    /\ observer
    /\ delivered' = Append(delivered, Head(workerQueue).message)
    /\ workerQueue' = Tail(workerQueue)
    /\ died' = ~Head(workerQueue).listed
    /\ UNCHANGED <<call, grpc, worker, after, observer, finished, registered, writer>>

\* The next read is asked for before the observer is given the message.
OnRead ==
    /\ Run("OnRead")
    /\ observer
    /\ delivered' = Append(delivered, Head(workerQueue).message)
    /\ workerQueue' = Tail(workerQueue)
    /\ grpc' = ReadMore
    /\ died' = ~Head(workerQueue).listed
    /\ UNCHANGED <<call, worker, after, observer, finished, registered, writer>>

\* The observer cannot parse the message, and finishes the stream.
OnReadRejected ==
    /\ Run("OnRead")
    /\ observer
    /\ delivered' = Append(delivered, Head(workerQueue).message)
    /\ Shutdown(ReadMore, Tail(workerQueue), "silent")
    /\ UNCHANGED <<observer, writer>>

\* Hands a message to gRPC.
StartWrite(message, pending) ==
    /\ active' = TRUE
    /\ wire' = Append(wire, message)
    /\ grpc' = Append(pending, New("Write", "OnWrite", message))

\* Mutant: every message is handed to gRPC at once.
WriteUnbuffered ==
    /\ worker = "idle" /\ ~released /\ observer
    /\ call # "idle"
    /\ written < MaxWrites
    /\ written' = written + 1
    /\ StartWrite(written + 1, grpc) /\ UNCHANGED buffer
    /\ UNCHANGED <<call, workerQueue, worker, after, observer, finished, registered, received,
                   shown, released, died>>

OnWrite ==
    /\ Run("OnWrite")
    /\ observer
    /\ IF buffer = <<>>
       THEN active' = FALSE /\ UNCHANGED <<buffer, wire, grpc>>
       ELSE StartWrite(Head(buffer), grpc) /\ buffer' = Tail(buffer)
    /\ workerQueue' = Tail(workerQueue)
    /\ died' = ~Head(workerQueue).listed
    /\ UNCHANGED <<call, worker, after, observer, finished, registered, written, delivered>>

OnFinish ==
    /\ Run("FinishAndNotify")
    /\ Shutdown(grpc, Tail(workerQueue), "notify")
    /\ UNCHANGED <<observer, writer, delivered>>

\* All errors are unrecoverable; the first one finishes the call.
OnOperationFailed ==
    /\ worker = "idle"
    /\ workerQueue # <<>>
    /\ Head(workerQueue).callback
    /\ ~Head(workerQueue).ok
    /\ IF finished
       THEN /\ workerQueue' = Tail(workerQueue)
            /\ died' = ~Head(workerQueue).listed
            /\ UNCHANGED <<grpc, finished, worker>>
       ELSE FinishGrpcCall(grpc, Tail(workerQueue), "failing")
    /\ UNCHANGED <<call, after, observer, registered, writer, received, shown, released>>

----------------------------------------------------------------------------
(* The owner's calls.                                                       *)

Usable == worker = "idle" /\ ~released

Start ==
    /\ Usable
    /\ call = "idle"
    /\ call' = "running"
    /\ grpc' = ReadMore
    /\ UNCHANGED <<workerQueue, worker, after, observer, finished, registered, writer, received,
                   shown, released, died>>

Write ==
    /\ Usable
    /\ call # "idle"
    /\ written < MaxWrites
    /\ written' = written + 1
    /\ IF active
       THEN buffer' = Append(buffer, written') /\ UNCHANGED <<active, wire, grpc>>
       ELSE StartWrite(written', grpc) /\ UNCHANGED buffer
    /\ UNCHANGED <<call, workerQueue, worker, after, observer, finished, registered, received,
                   shown, released, died>>

FinishImmediately ==
    /\ Usable
    /\ Shutdown(grpc, workerQueue, "silent")
    /\ UNCHANGED <<observer, writer, received, shown, released>>

\* The network has changed: the connection finishes every call it knows.
FinishAndNotify ==
    /\ Usable
    /\ call # "idle"
    /\ registered
    /\ Shutdown(grpc, workerQueue, "notify")
    /\ UNCHANGED <<observer, writer, received, shown, released>>

\* A last message, if nothing is in its way; it is waited for a while.
WriteAndFinish ==
    /\ Usable
    /\ call # "idle"
    /\ ~finished
    /\ written < MaxWrites
    /\ written' = written + 1
    /\ IF active
       THEN /\ buffer' = Append(buffer, written')
            /\ Shutdown(grpc, workerQueue, "silent")
            /\ UNCHANGED <<active, wire>>
       ELSE /\ active' = TRUE
            /\ wire' = Append(wire, written')
            /\ grpc' = Append(grpc, New("Write", "nothing", written'))
            /\ worker' = "lastWrite"
            /\ UNCHANGED <<call, workerQueue, after, finished, registered, buffer, died>>
    /\ UNCHANGED <<observer, received, shown, released>>

\* The write is off gRPC's queue or the time is up.
LastWriteWaited ==
    /\ worker = "lastWrite"
    /\ Shutdown(grpc, workerQueue, "silent")
    /\ UNCHANGED <<observer, writer, received, shown, released>>

----------------------------------------------------------------------------

WorkerStep ==
    \/ CallFinished \/ CancelledCallFinished \/ Released \/ LastWriteWaited
    \/ RunSilenced \/ OnRead \/ OnReadRejected \/ OnWrite \/ OnFinish \/ OnOperationFailed

Next ==
    \/ ~died /\ (WorkerStep \/ Start \/ Write \/ FinishImmediately \/ FinishAndNotify
                 \/ WriteAndFinish)
    \/ CallFails
    \/ \E k \in DOMAIN grpc, ok \in BOOLEAN : Complete(k, ok)

\* The worker queue and the polling thread run; a call that has failed or has
\* been cancelled gives its operations back.  Nothing else is owed.
Spec == Init /\ [][Next]_vars /\ WF_vars(~died /\ WorkerStep) /\ WF_vars(GrpcReturns)

----------------------------------------------------------------------------
(* Properties.                                                              *)

\* The call is finished once, and a completion that runs is still listed.
AssertionsHold == ~died

\* When the stream is deleted gRPC holds none of its completions, and those on
\* the worker queue will not call it.
ReleasedSafely ==
    released => grpc = <<>> /\ \A k \in DOMAIN workerQueue : ~workerQueue[k].callback

\* gRPC is given one read and one write at a time, and the messages in the
\* order they were written in.
OneAtATimeInOrder ==
    /\ \A type \in {"Read", "Write", "Finish"} :
           \A j, k \in DOMAIN grpc : grpc[j].type = type /\ grpc[k].type = type => j = k
    /\ \A k \in DOMAIN wire : wire[k] = k

\* A running stream always has a read under way, or it would miss the server's
\* next message and never learn of the end.
AlwaysReading ==
    (call # "idle" /\ worker = "idle" /\ ~finished) =>
        \E k \in DOMAIN Completions : Completions[k].type = "Read" /\ Completions[k].callback

\* The owner has ended the stream as soon as it has asked for that.
Promise == INSTANCE StreamObserver WITH
    phase <- IF after = "silent" \/ worker = "lastWrite" \/ (released /\ ~notified) THEN "silent"
             ELSE IF notified THEN "told"
             ELSE IF call = "idle" THEN "new" ELSE "open"

\* The observer is served as StreamObserver says.
KeepsPromise == Promise!Spec

\* Ending the stream does not block the worker queue for ever.
NeverStuck == worker # "idle" ~> worker = "idle"

\* If the call fails the observer is told, or has ended the stream itself.
FailureReported == call = "failed" ~> ~observer
=============================================================================
