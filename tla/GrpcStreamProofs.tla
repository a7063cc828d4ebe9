-------------------------- MODULE GrpcStreamProofs --------------------------
(***************************************************************************)
(* Proofs about the gRPC stream, for any number of messages: no assertion  *)
(* fails, a stream is deleted with nothing left behind, operations are     *)
(* under way one at a time, and the observer is served as it was promised. *)
(***************************************************************************)
EXTENDS GrpcStream, SequenceTheorems, TLAPS

----------------------------------------------------------------------------
(* Completions.                                                             *)

\* A read's completion reads on, a write's writes on, and the status ends.
WellMade ==
    {c \in Completion :
        /\ c.onSuccess = "OnRead" => c.type = "Read"
        /\ c.onSuccess = "OnWrite" => c.type = "Write"
        /\ c.onSuccess = "FinishAndNotify" => c.type = "Finish"}

\* What gRPC holds the stream lists.
Held == {c \in WellMade : c.listed}

\* What waits on the worker queue and may still call the stream the stream
\* lists; a read that has ended well carries one of the server's messages.
Ended ==
    {c \in WellMade :
        /\ c.callback => c.listed
        /\ c.type = "Read" /\ c.ok => c.message \in 1..MaxMessages}

\* Those that will not call the stream.
QuietHeld == {c \in Held : ~c.callback}
QuietEnded == {c \in Ended : ~c.callback}

\* Silencing and unlisting keep a queue a queue.
LEMMA SilencedQueue ==
    ASSUME NEW S, NEW T, NEW s \in Seq(S),
           \A c \in S : IF c.listed THEN [c EXCEPT !.callback = FALSE] \in T ELSE c \in T
    PROVE  Silenced(s) \in Seq(T)
<1>1. /\ Len(s) \in Nat /\ DOMAIN s = 1..Len(s)
      /\ \A k \in 1..Len(s) : s[k] \in S
  BY LenProperties, ElementOfSeq
<1> QED
  BY <1>1 DEF Silenced

\* Likewise.
LEMMA UnlistedQueue ==
    ASSUME NEW S, NEW T, NEW s \in Seq(S), \A c \in S : [c EXCEPT !.listed = FALSE] \in T
    PROVE  Unlisted(s) \in Seq(T)
<1>1. /\ Len(s) \in Nat /\ DOMAIN s = 1..Len(s)
      /\ \A k \in 1..Len(s) : s[k] \in S
  BY LenProperties, ElementOfSeq
<1> QED
  BY <1>1 DEF Unlisted

\* Silenced completions do not call.
LEMMA SilencedTypes ==
    /\ \A s \in Seq(Held) : Silenced(s) \in Seq(QuietHeld)
    /\ \A s \in Seq(Ended) : Silenced(s) \in Seq(QuietEnded)
    /\ \A s \in Seq(QuietEnded) : Unlisted(s) \in Seq(QuietEnded)
<1>1. \A c \in Held : [c EXCEPT !.callback = FALSE] \in QuietHeld
  BY DEF Held, QuietHeld, WellMade, Completion
<1>2. \A c \in Ended : /\ [c EXCEPT !.callback = FALSE] \in QuietEnded
                       /\ ~c.listed => c \in QuietEnded
  BY DEF Ended, QuietEnded, WellMade, Completion
<1>3. \A c \in QuietEnded : [c EXCEPT !.listed = FALSE] \in QuietEnded
  BY DEF Ended, QuietEnded, WellMade, Completion
<1>4. \A s \in Seq(Held) : Silenced(s) \in Seq(QuietHeld)
  BY <1>1, SilencedQueue DEF Held
<1>5. \A s \in Seq(Ended) : Silenced(s) \in Seq(QuietEnded)
  BY <1>2, SilencedQueue
<1>6. \A s \in Seq(QuietEnded) : Unlisted(s) \in Seq(QuietEnded)
  BY <1>3, UnlistedQueue
<1> QED
  BY <1>4, <1>5, <1>6

\* Quiet queues are queues.
LEMMA QuietIsQueue ==
    /\ \A s \in Seq(QuietHeld) : s \in Seq(Held)
    /\ \A s \in Seq(QuietEnded) : s \in Seq(Ended)
BY SeqMonotonic DEF QuietHeld, QuietEnded

\* A new operation is one the stream lists.
LEMMA NewIsHeld ==
    /\ New("Read", "OnRead", 0) \in Held
    /\ New("Finish", "FinishAndNotify", 0) \in Held
    /\ [New("Finish", "nothing", 0) EXCEPT !.callback = FALSE] \in QuietHeld
    /\ \A n \in 1..MaxWrites : New("Write", "OnWrite", n) \in Held /\ New("Write", "nothing", n) \in Held
<1> USE StreamAssumption DEF New, Held, QuietHeld, WellMade, Completion
<1>1. New("Read", "OnRead", 0) \in Held
  OBVIOUS
<1>2. New("Finish", "FinishAndNotify", 0) \in Held
  OBVIOUS
<1>3. [New("Finish", "nothing", 0) EXCEPT !.callback = FALSE] \in QuietHeld
  <2>1. New("Finish", "nothing", 0) \in Held
    OBVIOUS
  <2>2. \A c \in Held : [c EXCEPT !.callback = FALSE] \in QuietHeld
    OBVIOUS
  <2> QED
    BY <2>1, <2>2
<1>4. ASSUME NEW n \in 1..MaxWrites
      PROVE  New("Write", "OnWrite", n) \in Held /\ New("Write", "nothing", n) \in Held
  OBVIOUS
<1> QED
  BY <1>1, <1>2, <1>3, <1>4

\* A queue without listed completions of gRPC's is empty.
LEMMA NothingHeld ==
    ASSUME NEW s \in Seq(Held), ~HasListed(s)
    PROVE  s = <<>>
<1>1. \A k \in 1..Len(s) : s[k] \in Held
  BY ElementOfSeq
<1>2. Len(s) \in Nat /\ DOMAIN s = 1..Len(s)
  BY LenProperties
<1> QED
  BY <1>1, <1>2, EmptySeq DEF HasListed, Held

\* Taking an element out leaves a queue.
LEMMA RemoveAtQueue ==
    ASSUME NEW S, NEW s \in Seq(S), NEW k \in DOMAIN s
    PROVE  RemoveAt(s, k) \in Seq(S)
<1>1. /\ Len(s) \in Nat /\ k \in 1..Len(s)
      /\ \A j \in 1..Len(s) : s[j] \in S
  BY LenProperties, ElementOfSeq
<1>2. SubSeq(s, 1, k - 1) \in Seq(S) /\ SubSeq(s, k + 1, Len(s)) \in Seq(S)
  BY <1>1, SubSeqProperties
<1> QED
  BY <1>2, ConcatProperties DEF RemoveAt

----------------------------------------------------------------------------
(* The invariant.                                                           *)

Blocking == {"failing", "stopping", "draining"}

Flags ==
    /\ call \in {"idle", "running", "failed"}
    /\ worker \in {"idle", "failing", "stopping", "draining", "lastWrite"}
    /\ after \in {"nothing", "silent", "notify"}
    /\ observer \in BOOLEAN /\ finished \in BOOLEAN /\ registered \in BOOLEAN
    /\ active \in BOOLEAN /\ notified \in BOOLEAN /\ released \in BOOLEAN

Messages ==
    /\ buffer \in Seq(1..MaxWrites)
    /\ wire \in Seq(1..MaxWrites)
    /\ written \in 0..MaxWrites
    /\ received \in 0..MaxMessages
    /\ delivered \in Seq(1..MaxMessages)

\* Every completion is listed while it may call the stream; while the worker
\* blocks none may; once the stream is deleted none is left that does.
Queues ==
    /\ grpc \in Seq(Held)
    /\ workerQueue \in Seq(Ended)
    /\ worker \in Blocking => grpc \in Seq(QuietHeld) /\ workerQueue \in Seq(QuietEnded)
    /\ released => worker = "idle" /\ grpc = <<>> /\ workerQueue \in Seq(QuietEnded)

StreamInv == Flags /\ Messages /\ Queues /\ died = FALSE

\* A fresh stream.
LEMMA StreamInit == Init => StreamInv
<1> SUFFICES ASSUME Init PROVE StreamInv
  OBVIOUS
<1>1. <<>> \in Seq(Held) /\ <<>> \in Seq(Ended)
  BY EmptySeq
<1>2. Flags
  BY DEF Init, Flags
<1>3. Messages
  BY StreamAssumption, EmptySeq DEF Init, Messages
<1>4. Queues
  BY <1>1 DEF Init, Queues, Blocking
<1> QED
  BY <1>2, <1>3, <1>4 DEF Init, StreamInv

\* Shutdown silences all completions and finishes a call at most once.
LEMMA ShutdownStep ==
    ASSUME NEW pending \in Seq(Held), NEW queue \in Seq(Ended), NEW then \in {"silent", "notify"},
           died = FALSE, finished \in BOOLEAN, call \in {"idle", "running", "failed"},
           released = FALSE, released' = released,
           Shutdown(pending, queue, then)
    PROVE  /\ Queues' /\ died' = FALSE
           /\ call' \in {"idle", "running", "failed"} /\ finished' \in BOOLEAN
           /\ registered' = FALSE /\ after' = then /\ worker' \in {"stopping", "draining"}
<1>1. /\ grpc' = Silenced(pending) /\ workerQueue' = Silenced(queue)
      /\ worker' \in {"stopping", "draining"} /\ died' = FALSE
      /\ call' \in {"idle", "running", "failed"} /\ finished' \in BOOLEAN
      /\ registered' = FALSE /\ after' = then
  BY DEF Shutdown, FinishGrpcCall
<1>2. grpc' \in Seq(QuietHeld) /\ workerQueue' \in Seq(QuietEnded)
  BY <1>1, SilencedTypes
<1> QED
  BY <1>1, <1>2, QuietIsQueue DEF Queues

\* A completion that runs is one the stream lists.
LEMMA Runs ==
    ASSUME StreamInv, worker = "idle", workerQueue # <<>>, Head(workerQueue).callback
    PROVE  /\ Head(workerQueue) \in Ended /\ Tail(workerQueue) \in Seq(Ended)
           /\ Head(workerQueue).listed /\ released = FALSE
<1>1. Head(workerQueue) \in Ended /\ Tail(workerQueue) \in Seq(Ended)
  BY HeadTailProperties DEF StreamInv, Queues
<1>2. workerQueue \in Seq(QuietEnded) => Head(workerQueue) \in QuietEnded
  BY HeadTailProperties
<1> QED
  BY <1>1, <1>2 DEF StreamInv, Queues, Flags, Ended, QuietEnded

\* What gRPC gives back it received, if it is a message.
LEMMA Completed ==
    ASSUME StreamInv, NEW k \in DOMAIN grpc, NEW ok \in BOOLEAN, Complete(k, ok)
    PROVE  /\ grpc[k] \in Held /\ released = FALSE
           /\ received' \in 0..MaxMessages
           /\ IF grpc[k].type = "Read" /\ ok THEN received' = received + 1
              ELSE received' = received
           /\ \E e \in Ended :
                  /\ workerQueue' = Append(workerQueue, e)
                  /\ e.type = grpc[k].type /\ e.callback = grpc[k].callback /\ e.ok = ok
                  /\ e.type = "Read" => e.message = received'
<1> DEFINE c == grpc[k]
           n == IF c.type = "Read" /\ ok THEN received + 1 ELSE received
           m == IF c.type = "Read" THEN n ELSE c.message
           e == [c EXCEPT !.ok = ok, !.message = m]
<1>1. CanEnd(c, ok) /\ received' = n /\ workerQueue' = Append(workerQueue, e)
  BY DEF Complete
<1>2. c \in Held
  BY ElementOfSeq, LenProperties DEF StreamInv, Queues
<1>3. /\ c \in Completion /\ c.listed
      /\ c.onSuccess = "OnRead" => c.type = "Read"
      /\ c.onSuccess = "OnWrite" => c.type = "Write"
      /\ c.onSuccess = "FinishAndNotify" => c.type = "Finish"
  BY <1>2 DEF Held, WellMade
<1>4. /\ n \in 0..MaxMessages
      /\ c.type = "Read" /\ ok => n \in 1..MaxMessages
  BY <1>1, <1>3, StreamAssumption DEF CanEnd, StreamInv, Messages, Completion
<1>5. /\ m \in 0..MaxMessages + MaxWrites
      /\ c.type = "Read" /\ ok => m \in 1..MaxMessages
  BY <1>3, <1>4, StreamAssumption DEF Completion
<1>6. released = FALSE
  BY EmptySeq DEF StreamInv, Queues, Flags
<1>7. c.type = "Read" => m = n
  OBVIOUS
<1>8. IF c.type = "Read" /\ ok THEN n = received + 1 ELSE n = received
  OBVIOUS
<1>9. e = [c EXCEPT !.ok = ok, !.message = m]
  OBVIOUS
<1> HIDE DEF m, n, c, e
<1>10. e = [type |-> c.type, onSuccess |-> c.onSuccess, message |-> m, ok |-> ok,
           callback |-> c.callback, listed |-> c.listed]
  BY <1>3, <1>9 DEF Completion
<1>11. e \in Completion
  BY <1>3, <1>5, <1>10 DEF Completion
<1>12. e \in Ended
  BY <1>3, <1>5, <1>10, <1>11 DEF Ended, WellMade
<1>13. \E d \in Ended : /\ workerQueue' = Append(workerQueue, d)
                        /\ d.type = c.type /\ d.callback = c.callback /\ d.ok = ok
                        /\ d.type = "Read" => d.message = received'
  <2>1. /\ e.type = c.type /\ e.callback = c.callback /\ e.ok = ok
        /\ e.type = "Read" => e.message = received'
    BY <1>1, <1>7, <1>10
  <2> QED
    BY <1>1, <1>12, <2>1
<1> QED
  BY <1>1, <1>2, <1>4, <1>6, <1>8, <1>13 DEF c

\* gRPC gives an operation back.
LEMMA CompleteStep ==
    ASSUME StreamInv, NEW k \in DOMAIN grpc, NEW ok \in BOOLEAN, Complete(k, ok)
    PROVE  StreamInv'
<1>1. /\ grpc' = RemoveAt(grpc, k)
      /\ UNCHANGED <<call, worker, after, observer, finished, registered, writer, shown,
                     released, died>>
  BY DEF Complete
<1>2. grpc[k] \in Held /\ released = FALSE /\ received' \in 0..MaxMessages
  BY Completed
<1>3. PICK e \in Ended : workerQueue' = Append(workerQueue, e) /\ e.callback = grpc[k].callback
  BY Completed
<1>4. grpc' \in Seq(Held) /\ workerQueue' \in Seq(Ended)
  BY <1>1, <1>3, RemoveAtQueue DEF StreamInv, Queues
<1>5. ASSUME worker \in Blocking
      PROVE  grpc' \in Seq(QuietHeld) /\ workerQueue' \in Seq(QuietEnded)
  <2>1. grpc \in Seq(QuietHeld) /\ workerQueue \in Seq(QuietEnded)
    BY <1>5 DEF StreamInv, Queues
  <2>2. grpc[k] \in QuietHeld
    BY <2>1, ElementOfSeq, LenProperties
  <2>3. e \in QuietEnded
    BY <1>3, <2>2 DEF QuietHeld, QuietEnded
  <2> QED
    BY <1>1, <1>3, <2>1, <2>3, RemoveAtQueue
<1>6. Queues'
  BY <1>1, <1>2, <1>4, <1>5 DEF Queues
<1> QED
  BY <1>1, <1>2, <1>6 DEF StreamInv, Flags, Messages, writer, shown

\* The end of a wait for gRPC.
LEMMA OffQueueStep ==
    ASSUME StreamInv, NEW waitingFor \in Blocking, OffQueue(waitingFor)
    PROVE  grpc = <<>> /\ workerQueue' \in Seq(QuietEnded)
BY NothingHeld, SilencedTypes DEF OffQueue, StreamInv, Queues

\* Each step of the worker keeps the invariant.
LEMMA WorkerKeeps ==
    ASSUME StreamInv, WorkerStep
    PROVE  StreamInv'
<1> USE DEF StreamInv
<1>1. CASE CallFinished
  <2>1. /\ grpc = <<>> /\ workerQueue' \in Seq(QuietEnded)
        /\ grpc' = Append(grpc, New("Finish", "FinishAndNotify", 0)) /\ worker' = "idle"
        /\ UNCHANGED <<call, finished, registered, writer, received, delivered, died, after,
                       observer, notified, released>>
    BY <1>1, OffQueueStep DEF CallFinished, OffQueue, Blocking
  <2>2. grpc' \in Seq(Held)
    BY <2>1, NewIsHeld, EmptySeq
  <2>3. released = FALSE
    BY <1>1 DEF CallFinished, OffQueue, Queues, Flags
  <2>4. Queues'
    BY <2>1, <2>2, <2>3, QuietIsQueue DEF Queues, Blocking
  <2> QED
    BY <2>1, <2>4 DEF Flags, Messages, writer
<1>2. CASE CancelledCallFinished
  <2> DEFINE finish == [New("Finish", "nothing", 0) EXCEPT !.callback = FALSE]
  <2>1. /\ grpc = <<>> /\ workerQueue' \in Seq(QuietEnded)
        /\ grpc' = Append(grpc, finish) /\ worker' = "draining"
        /\ UNCHANGED <<call, finished, registered, writer, received, delivered, died, after,
                       observer, notified, released>>
    BY <1>2, OffQueueStep DEF CancelledCallFinished, OffQueue, Blocking
  <2>2. grpc' \in Seq(QuietHeld)
    <3>1. finish \in QuietHeld
      BY NewIsHeld
    <3> HIDE DEF finish
    <3> QED
      BY <2>1, <3>1, EmptySeq
  <2>3. released = FALSE
    BY <1>2 DEF CancelledCallFinished, OffQueue, Queues, Flags
  <2>4. Queues'
    BY <2>1, <2>2, <2>3, QuietIsQueue DEF Queues, Blocking
  <2> QED
    BY <2>1, <2>4 DEF Flags, Messages, writer
<1>3. CASE Released
  <2>1. /\ grpc = <<>> /\ workerQueue' \in Seq(QuietEnded)
        /\ grpc' = grpc /\ worker' = "idle" /\ after' = "nothing" /\ observer' = FALSE
        /\ notified' \in BOOLEAN /\ released' = TRUE
        /\ UNCHANGED <<call, finished, registered, writer, received, delivered, died>>
    BY <1>3, OffQueueStep DEF Released, OffQueue, Blocking, Flags
  <2>2. Queues'
    BY <2>1, QuietIsQueue, EmptySeq DEF Queues, Blocking
  <2> QED
    BY <2>1, <2>2 DEF Flags, Messages, writer
<1>4. CASE LastWriteWaited
  <2>1. /\ Shutdown(grpc, workerQueue, "silent") /\ released = FALSE
        /\ UNCHANGED <<observer, writer, received, shown, released>>
    BY <1>4 DEF LastWriteWaited, Queues, Flags
  <2>2. /\ Queues' /\ died' = FALSE
        /\ call' \in {"idle", "running", "failed"} /\ finished' \in BOOLEAN
        /\ registered' = FALSE /\ after' = "silent" /\ worker' \in {"stopping", "draining"}
    BY <2>1, ShutdownStep DEF Queues, Flags
  <2> QED
    BY <2>1, <2>2 DEF Flags, Messages, writer, shown
<1>5. CASE RunSilenced
  <2>1. /\ worker = "idle" /\ workerQueue # <<>> /\ workerQueue' = Tail(workerQueue)
        /\ UNCHANGED <<call, grpc, worker, after, observer, finished, registered, writer, received,
                       shown, released, died>>
    BY <1>5 DEF RunSilenced
  <2>2. Queues'
    BY <2>1, HeadTailProperties DEF Queues, Blocking
  <2> QED
    BY <2>1, <2>2 DEF Flags, Messages, writer, shown
<1>6. CASE OnRead
  <2>1. /\ Head(workerQueue) \in Ended /\ Tail(workerQueue) \in Seq(Ended)
        /\ Head(workerQueue).listed /\ released = FALSE
    BY <1>6, Runs DEF OnRead, Run
  <2>2. Head(workerQueue).message \in 1..MaxMessages
    BY <1>6, <2>1 DEF OnRead, Run, Ended, WellMade
  <2>3. grpc' \in Seq(Held)
    <3> DEFINE read == New("Read", "OnRead", 0)
    <3>1. grpc' = Append(grpc, read) /\ read \in Held
      BY <1>6, NewIsHeld DEF OnRead, ReadMore
    <3> HIDE DEF read
    <3> QED
      BY <3>1 DEF Queues
  <2>4. delivered' \in Seq(1..MaxMessages)
    BY <1>6, <2>2 DEF OnRead, Messages
  <2>5. Queues'
    BY <1>6, <2>1, <2>3 DEF OnRead, Run, Queues, Blocking
  <2> QED
    BY <1>6, <2>1, <2>4, <2>5 DEF OnRead, Run, Flags, Messages, writer
<1>7. CASE OnReadRejected
  <2>1. /\ Head(workerQueue) \in Ended /\ Tail(workerQueue) \in Seq(Ended)
        /\ Head(workerQueue).listed /\ released = FALSE
    BY <1>7, Runs DEF OnReadRejected, Run
  <2>2. Head(workerQueue).message \in 1..MaxMessages
    BY <1>7, <2>1 DEF OnReadRejected, Run, Ended, WellMade
  <2>3. ReadMore \in Seq(Held)
    <3> DEFINE read == New("Read", "OnRead", 0)
    <3>1. ReadMore = Append(grpc, read) /\ read \in Held
      BY NewIsHeld DEF ReadMore
    <3> HIDE DEF read
    <3> QED
      BY <3>1 DEF Queues
  <2>4. delivered' \in Seq(1..MaxMessages)
    BY <1>7, <2>2 DEF OnReadRejected, Messages
  <2>5. /\ Queues' /\ died' = FALSE
        /\ call' \in {"idle", "running", "failed"} /\ finished' \in BOOLEAN
        /\ registered' = FALSE /\ after' = "silent" /\ worker' \in {"stopping", "draining"}
    <3>1. Shutdown(ReadMore, Tail(workerQueue), "silent") /\ released' = released
      BY <1>7 DEF OnReadRejected, Run
    <3> QED
      BY <2>1, <2>3, <3>1, ShutdownStep DEF Flags
  <2> QED
    BY <1>7, <2>4, <2>5 DEF OnReadRejected, Run, Flags, Messages, writer
<1>8. CASE OnWrite
  <2>1. /\ Head(workerQueue) \in Ended /\ Tail(workerQueue) \in Seq(Ended)
        /\ Head(workerQueue).listed /\ released = FALSE
    BY <1>8, Runs DEF OnWrite, Run
  <2>2. /\ grpc' \in Seq(Held) /\ active' \in BOOLEAN
        /\ buffer' \in Seq(1..MaxWrites) /\ wire' \in Seq(1..MaxWrites)
    <3>1. CASE buffer = <<>>
      BY <1>8, <3>1 DEF OnWrite, Queues, Messages
    <3>2. CASE buffer # <<>>
      <4>1. Head(buffer) \in 1..MaxWrites /\ Tail(buffer) \in Seq(1..MaxWrites)
        BY <3>2, HeadTailProperties DEF Messages
      <4> DEFINE write == New("Write", "OnWrite", Head(buffer))
      <4>2. write \in Held
        BY <4>1, NewIsHeld
      <4>3. /\ grpc' = Append(grpc, write) /\ active' = TRUE /\ wire' = Append(wire, Head(buffer))
            /\ buffer' = Tail(buffer)
        BY <1>8, <3>2 DEF OnWrite, StartWrite
      <4> HIDE DEF write
      <4> QED
        BY <4>1, <4>2, <4>3 DEF Queues, Messages
    <3> QED
      BY <3>1, <3>2
  <2>3. Queues'
    BY <1>8, <2>1, <2>2 DEF OnWrite, Run, Queues, Blocking
  <2> QED
    BY <1>8, <2>1, <2>2, <2>3 DEF OnWrite, Run, Flags, Messages
<1>9. CASE OnFinish
  <2>1. Tail(workerQueue) \in Seq(Ended) /\ released = FALSE
    BY <1>9, Runs DEF OnFinish, Run
  <2>2. /\ Shutdown(grpc, Tail(workerQueue), "notify")
        /\ UNCHANGED <<observer, writer, received, delivered, notified, released>>
    BY <1>9 DEF OnFinish, Run
  <2>3. /\ Queues' /\ died' = FALSE
        /\ call' \in {"idle", "running", "failed"} /\ finished' \in BOOLEAN
        /\ registered' = FALSE /\ after' = "notify" /\ worker' \in {"stopping", "draining"}
    BY <2>1, <2>2, ShutdownStep DEF Queues, Flags
  <2> QED
    BY <2>2, <2>3 DEF Flags, Messages, writer
<1>10. CASE OnOperationFailed
  <2>1. /\ Tail(workerQueue) \in Seq(Ended) /\ Head(workerQueue).listed /\ released = FALSE
        /\ worker = "idle"
        /\ UNCHANGED <<call, after, observer, registered, writer, received, shown, released>>
    BY <1>10, Runs DEF OnOperationFailed
  <2>2. CASE finished
    <3>1. /\ workerQueue' = Tail(workerQueue) /\ died' = FALSE
          /\ UNCHANGED <<grpc, finished, worker>>
      BY <1>10, <2>1, <2>2 DEF OnOperationFailed
    <3>2. Queues'
      BY <2>1, <3>1 DEF Queues, Blocking
    <3> QED
      BY <2>1, <3>1, <3>2 DEF Flags, Messages, writer, shown
  <2>3. CASE ~finished
    <3>1. /\ died' = FALSE /\ finished' = TRUE /\ worker' = "failing"
          /\ grpc' = Silenced(grpc) /\ workerQueue' = Silenced(Tail(workerQueue))
      BY <1>10, <2>3 DEF OnOperationFailed, FinishGrpcCall, Flags
    <3>2. grpc' \in Seq(QuietHeld) /\ workerQueue' \in Seq(QuietEnded)
      BY <2>1, <3>1, SilencedTypes DEF Queues
    <3>3. Queues'
      BY <2>1, <3>1, <3>2, QuietIsQueue DEF Queues
    <3> QED
      BY <2>1, <3>1, <3>3 DEF Flags, Messages, writer, shown
  <2> QED
    BY <2>2, <2>3
<1> QED
  BY <1>1, <1>2, <1>3, <1>4, <1>5, <1>6, <1>7, <1>8, <1>9, <1>10 DEF WorkerStep

\* So does each call of the owner, which calls no stream it has deleted.
LEMMA OwnerKeeps ==
    ASSUME StreamInv,
           Start \/ Write \/ FinishImmediately \/ FinishAndNotify \/ WriteAndFinish
    PROVE  StreamInv'
<1> USE DEF StreamInv, Usable
<1>0. released = FALSE
  BY DEF Start, Write, FinishImmediately, FinishAndNotify, WriteAndFinish, Flags
<1>1. CASE Start
  <2> DEFINE read == New("Read", "OnRead", 0)
  <2>1. grpc' = Append(grpc, read) /\ read \in Held
    BY <1>1, NewIsHeld DEF Start, ReadMore
  <2> HIDE DEF read
  <2>2. Queues'
    BY <1>0, <1>1, <2>1 DEF Start, Queues, Blocking
  <2> QED
    BY <1>1, <2>2 DEF Start, Flags, Messages, writer, shown
<1>2. CASE Write
  <2>1. written' \in 1..MaxWrites
    BY <1>2, StreamAssumption DEF Write, Messages
  <2>2. /\ grpc' \in Seq(Held) /\ active' \in BOOLEAN
        /\ buffer' \in Seq(1..MaxWrites) /\ wire' \in Seq(1..MaxWrites)
    <3>1. CASE active
      <4>1. buffer' = Append(buffer, written') /\ UNCHANGED <<active, wire, grpc>>
        BY <1>2, <3>1 DEF Write
      <4> QED
        BY <2>1, <4>1 DEF Queues, Messages, Flags
    <3>2. CASE ~active
      <4> DEFINE write == New("Write", "OnWrite", written')
      <4>1. write \in Held
        BY <2>1, NewIsHeld
      <4>2. grpc' = Append(grpc, write) /\ active' = TRUE /\ wire' = Append(wire, written')
            /\ buffer' = buffer
        BY <1>2, <3>2 DEF Write, StartWrite
      <4> HIDE DEF write
      <4> QED
        BY <2>1, <4>1, <4>2 DEF Queues, Messages
    <3> QED
      BY <3>1, <3>2
  <2>3. Queues'
    BY <1>0, <1>2, <2>2 DEF Write, Queues, Blocking
  <2> QED
    BY <1>2, <2>1, <2>2, <2>3 DEF Write, Flags, Messages, shown
<1>3. CASE FinishImmediately
  <2>1. Shutdown(grpc, workerQueue, "silent")
        /\ UNCHANGED <<observer, writer, received, shown, released>>
    BY <1>3 DEF FinishImmediately
  <2>2. /\ Queues' /\ died' = FALSE
        /\ call' \in {"idle", "running", "failed"} /\ finished' \in BOOLEAN
        /\ registered' = FALSE /\ after' = "silent" /\ worker' \in {"stopping", "draining"}
    BY <1>0, <2>1, ShutdownStep DEF Queues, Flags
  <2> QED
    BY <2>1, <2>2 DEF Flags, Messages, writer, shown
<1>4. CASE FinishAndNotify
  <2>1. Shutdown(grpc, workerQueue, "notify")
        /\ UNCHANGED <<observer, writer, received, shown, released>>
    BY <1>4 DEF FinishAndNotify
  <2>2. /\ Queues' /\ died' = FALSE
        /\ call' \in {"idle", "running", "failed"} /\ finished' \in BOOLEAN
        /\ registered' = FALSE /\ after' = "notify" /\ worker' \in {"stopping", "draining"}
    BY <1>0, <2>1, ShutdownStep DEF Queues, Flags
  <2> QED
    BY <2>1, <2>2 DEF Flags, Messages, writer, shown
<1>5. CASE WriteAndFinish
  <2>1. written' \in 1..MaxWrites /\ UNCHANGED <<observer, received, shown, released>>
    BY <1>5, StreamAssumption DEF WriteAndFinish, Messages
  <2>2. CASE active
    <3>1. /\ buffer' = Append(buffer, written') /\ UNCHANGED <<active, wire>>
          /\ Shutdown(grpc, workerQueue, "silent")
      BY <1>5, <2>2 DEF WriteAndFinish
    <3>2. /\ Queues' /\ died' = FALSE
          /\ call' \in {"idle", "running", "failed"} /\ finished' \in BOOLEAN
          /\ registered' = FALSE /\ after' = "silent" /\ worker' \in {"stopping", "draining"}
      BY <1>0, <2>1, <3>1, ShutdownStep DEF Queues, Flags
    <3>3. Flags'
      BY <2>1, <3>1, <3>2 DEF Flags, shown
    <3>4. Messages'
      BY <2>1, <3>1 DEF Messages, shown
    <3> QED
      BY <3>2, <3>3, <3>4
  <2>3. CASE ~active
    <3> DEFINE write == New("Write", "nothing", written')
    <3>1. write \in Held
      BY <2>1, NewIsHeld
    <3>2. /\ grpc' = Append(grpc, write) /\ active' = TRUE /\ wire' = Append(wire, written')
          /\ worker' = "lastWrite"
          /\ UNCHANGED <<call, workerQueue, after, finished, registered, buffer, died>>
      BY <1>5, <2>3 DEF WriteAndFinish
    <3> HIDE DEF write
    <3>3. Queues'
      BY <1>0, <2>1, <3>1, <3>2 DEF Queues, Blocking
    <3> QED
      BY <2>1, <3>2, <3>3 DEF Flags, Messages, shown
  <2> QED
    BY <2>2, <2>3
<1> QED
  BY <1>1, <1>2, <1>3, <1>4, <1>5

\* Each step keeps the invariant.
LEMMA StreamStep == StreamInv /\ [Next]_vars => StreamInv'
<1> SUFFICES ASSUME StreamInv, [Next]_vars
             PROVE  StreamInv'
  OBVIOUS
<1>1. CASE CallFails
  BY <1>1 DEF CallFails, StreamInv, Flags, Messages, Queues, writer, shown
<1>2. CASE \E k \in DOMAIN grpc, ok \in BOOLEAN : Complete(k, ok)
  BY <1>2, CompleteStep
<1>3. CASE UNCHANGED vars
  BY <1>3 DEF vars, StreamInv, Flags, Messages, Queues, writer, shown
<1> QED
  BY <1>1, <1>2, <1>3, WorkerKeeps, OwnerKeeps DEF Next

\* The inductive invariant of a stream: which completions may still call it.
THEOREM StreamInvariant == Spec => []StreamInv
BY StreamInit, StreamStep, PTL DEF Spec

\* Every reachable state of a stream is well typed.
THEOREM StreamTypeCorrect == Spec => []TypeOK
<1>1. StreamInv => TypeOK
  <2> SUFFICES ASSUME StreamInv PROVE TypeOK
    OBVIOUS
  <2>1. grpc \in Seq(Completion) /\ workerQueue \in Seq(Completion)
    BY SeqMonotonic DEF StreamInv, Queues, Held, Ended, WellMade
  <2> QED
    BY <2>1 DEF StreamInv, Flags, Messages, TypeOK
<1> QED
  BY <1>1, StreamInvariant, PTL

\* A call is finished once, and only completions the stream knows run.
THEOREM NoAssertionFails == Spec => []AssertionsHold
<1>1. StreamInv => AssertionsHold
  BY DEF StreamInv, AssertionsHold
<1> QED
  BY <1>1, StreamInvariant, PTL

\* A stream is deleted with no completion of its own at gRPC, and none on the
\* worker queue that would call it, whenever and by whomever it is ended.
THEOREM DeletedSafely == Spec => []ReleasedSafely
<1>1. StreamInv => ReleasedSafely
  <2> SUFFICES ASSUME StreamInv, released
               PROVE  grpc = <<>> /\ \A k \in DOMAIN workerQueue : ~workerQueue[k].callback
    BY DEF ReleasedSafely
  <2>1. grpc = <<>> /\ workerQueue \in Seq(QuietEnded)
    BY DEF StreamInv, Queues
  <2> QED
    BY <2>1, LenProperties, ElementOfSeq DEF QuietEnded
<1> QED
  BY <1>1, StreamInvariant, PTL

----------------------------------------------------------------------------
(* Operations under way: those whose completion may still call the stream.  *)

Types == {"Read", "Write", "Finish"}

Live(c, t) == c.callback /\ c.type = t

Has(q, t) == \E k \in DOMAIN q : Live(q[k], t)

Once(q, t) == \A j, k \in DOMAIN q : Live(q[j], t) /\ Live(q[k], t) => j = k

\* No two completions of one type, whether they call the stream or not.
Single(q) == \A j, k \in DOMAIN q : q[j].type = q[k].type => j = k

AllLive(q) == \A k \in DOMAIN q : q[k].callback

Underway(t) == Has(grpc, t) \/ Has(workerQueue, t)

\* What has just been queued is the only new one.
LEMMA AppendHas ==
    ASSUME NEW S, NEW q \in Seq(S), NEW e \in S, NEW t
    PROVE  /\ Has(Append(q, e), t) <=> Has(q, t) \/ Live(e, t)
           /\ Once(q, t) /\ ~(Has(q, t) /\ Live(e, t)) => Once(Append(q, e), t)
<1>1. /\ Len(q) \in Nat /\ DOMAIN q = 1..Len(q)
      /\ DOMAIN Append(q, e) = 1..Len(q) + 1
      /\ \A k \in 1..Len(q) : Append(q, e)[k] = q[k]
      /\ Append(q, e)[Len(q) + 1] = e
  BY AppendProperties, LenProperties
<1>2. Has(Append(q, e), t) <=> Has(q, t) \/ Live(e, t)
  BY <1>1 DEF Has
<1>3. ASSUME Once(q, t), ~(Has(q, t) /\ Live(e, t))
      PROVE  Once(Append(q, e), t)
  BY <1>1, <1>3 DEF Has, Once
<1> QED
  BY <1>2, <1>3

\* What is taken from the head is no longer there.
LEMMA TailHas ==
    ASSUME NEW S, NEW q \in Seq(S), q # <<>>, NEW t
    PROVE  /\ Has(q, t) <=> Has(Tail(q), t) \/ Live(Head(q), t)
           /\ Once(q, t) => Once(Tail(q), t) /\ ~(Has(Tail(q), t) /\ Live(Head(q), t))
<1>1. /\ Len(q) \in Nat \ {0} /\ DOMAIN q = 1..Len(q)
      /\ Head(q) = q[1] /\ DOMAIN Tail(q) = 1..Len(q) - 1
      /\ \A k \in 1..Len(q) - 1 : Tail(q)[k] = q[k + 1]
  BY HeadTailProperties, LenProperties, EmptySeq
<1>2. Has(Tail(q), t) \/ Live(Head(q), t) => Has(q, t)
  BY <1>1 DEF Has
<1>3. ASSUME NEW k \in DOMAIN q, Live(q[k], t), ~Live(Head(q), t)
      PROVE  Has(Tail(q), t)
  <2>1. k # 1 /\ k - 1 \in 1..Len(q) - 1 /\ Tail(q)[k - 1] = q[k]
    BY <1>1, <1>3
  <2> QED
    BY <1>1, <1>3, <2>1 DEF Has
<1>4. ASSUME Once(q, t)
      PROVE  Once(Tail(q), t) /\ ~(Has(Tail(q), t) /\ Live(Head(q), t))
  <2>1. \A j, k \in 1..Len(q) - 1 : Live(Tail(q)[j], t) /\ Live(Tail(q)[k], t) => j = k
    <3> SUFFICES ASSUME NEW j \in 1..Len(q) - 1, NEW k \in 1..Len(q) - 1,
                        Live(Tail(q)[j], t), Live(Tail(q)[k], t)
                 PROVE  j = k
      OBVIOUS
    <3>1. j + 1 \in DOMAIN q /\ k + 1 \in DOMAIN q /\ Live(q[j + 1], t) /\ Live(q[k + 1], t)
      BY <1>1
    <3>2. j + 1 = k + 1
      BY <1>4, <3>1 DEF Once
    <3> QED
      BY <3>2
  <2>2. ASSUME NEW k \in 1..Len(q) - 1, Live(Tail(q)[k], t), Live(Head(q), t)
        PROVE  FALSE
    <3>1. k + 1 \in DOMAIN q /\ 1 \in DOMAIN q /\ Live(q[k + 1], t) /\ Live(q[1], t)
      BY <1>1, <2>2
    <3>2. k + 1 = 1
      BY <1>4, <3>1 DEF Once
    <3> QED
      BY <3>2
  <2> QED
    BY <1>1, <2>1, <2>2 DEF Once, Has
<1> QED
  BY <1>2, <1>3, <1>4 DEF Has

\* Taking the k-th completion out moves those after it up by one.
LEMMA RemoveAtElements ==
    ASSUME NEW S, NEW q \in Seq(S), NEW k \in DOMAIN q
    PROVE  LET r == RemoveAt(q, k)
           IN  /\ Len(q) \in Nat \ {0} /\ k \in 1..Len(q) /\ DOMAIN q = 1..Len(q)
               /\ DOMAIN r = 1..Len(q) - 1
               /\ \A j \in 1..Len(q) - 1 : r[j] = q[IF j < k THEN j ELSE j + 1]
<1> DEFINE a == SubSeq(q, 1, k - 1)
           b == SubSeq(q, k + 1, Len(q))
           r == RemoveAt(q, k)
<1>1. Len(q) \in Nat \ {0} /\ k \in 1..Len(q) /\ DOMAIN q = 1..Len(q)
  BY LenProperties
<1>2. /\ a \in Seq(S) /\ Len(a) = k - 1
      /\ \A j \in 1..k - 1 : a[j] = q[j]
  BY <1>1, SubSeqProperties
<1>3. /\ b \in Seq(S) /\ Len(b) = Len(q) - k
      /\ \A j \in 1..Len(q) - k : b[j] = q[k + j]
  BY <1>1, SubSeqProperties
<1>4. r = a \o b
  BY DEF RemoveAt
<1> HIDE DEF a, b, r
<1>5. /\ Len(r) = Len(q) - 1 /\ r \in Seq(S)
      /\ \A j \in 1..Len(q) - 1 : r[j] = IF j <= k - 1 THEN a[j] ELSE b[j - (k - 1)]
  <2>1. /\ a \o b \in Seq(S) /\ Len(a \o b) = Len(a) + Len(b)
        /\ \A j \in 1..Len(a) + Len(b) :
               (a \o b)[j] = IF j <= Len(a) THEN a[j] ELSE b[j - Len(a)]
    BY <1>2, <1>3, ConcatProperties
  <2>2. Len(a) + Len(b) = Len(q) - 1
    BY <1>1, <1>2, <1>3
  <2> QED
    BY <1>2, <1>4, <2>1, <2>2
<1>6. ASSUME NEW j \in 1..Len(q) - 1
      PROVE  r[j] = q[IF j < k THEN j ELSE j + 1]
  <2>1. CASE j < k
    <3>1. j \in 1..k - 1 /\ j <= k - 1
      BY <1>1, <2>1
    <3> QED
      BY <1>2, <1>5, <2>1, <3>1
  <2>2. CASE ~(j < k)
    <3>1. j - (k - 1) \in 1..Len(q) - k /\ k + (j - (k - 1)) = j + 1 /\ ~(j <= k - 1)
      BY <1>1, <2>2
    <3> QED
      BY <1>3, <1>5, <2>2, <3>1
  <2> QED
    BY <2>1, <2>2
<1>7. DOMAIN r = 1..Len(q) - 1
  BY <1>5, LenProperties
<1> QED
  BY <1>1, <1>6, <1>7 DEF r

\* What is taken out was the only one of its type, if types were single.
LEMMA RemoveAtHas ==
    ASSUME NEW S, NEW q \in Seq(S), NEW k \in DOMAIN q, Single(q)
    PROVE  LET r == RemoveAt(q, k)
           IN  /\ Single(r)
               /\ \A j \in DOMAIN r : r[j].type # q[k].type
               /\ AllLive(q) => AllLive(r)
               /\ \A t : Has(q, t) <=> Has(r, t) \/ Live(q[k], t)
<1> DEFINE r == RemoveAt(q, k)
           at(j) == IF j < k THEN j ELSE j + 1
<1>1. /\ Len(q) \in Nat \ {0} /\ k \in 1..Len(q) /\ DOMAIN q = 1..Len(q)
      /\ DOMAIN r = 1..Len(q) - 1
      /\ \A j \in 1..Len(q) - 1 : r[j] = q[at(j)]
  BY RemoveAtElements
<1> HIDE DEF r
<1>2. \A j \in 1..Len(q) - 1 : at(j) \in 1..Len(q) /\ at(j) # k
  BY <1>1
<1>3. \A i, j \in 1..Len(q) - 1 : at(i) = at(j) => i = j
  BY <1>1
<1>4. \A i \in 1..Len(q) : i # k => \E j \in 1..Len(q) - 1 : at(j) = i
  <2> SUFFICES ASSUME NEW i \in 1..Len(q), i # k
               PROVE  \E j \in 1..Len(q) - 1 : at(j) = i
    OBVIOUS
  <2>1. CASE i < k
    BY <1>1, <2>1
  <2>2. CASE i > k
    <3>1. i - 1 \in 1..Len(q) - 1 /\ at(i - 1) = i
      BY <1>1, <2>2
    <3> QED
      BY <3>1
  <2> QED
    BY <1>1, <2>1, <2>2
<1> HIDE DEF at
<1>5. ASSUME NEW i \in DOMAIN r, NEW j \in DOMAIN r, r[i].type = r[j].type
      PROVE  i = j
  <2>1. q[at(i)].type = q[at(j)].type
    BY <1>1, <1>5
  <2>2. at(i) = at(j)
    BY <1>1, <1>2, <2>1 DEF Single
  <2> QED
    BY <1>1, <1>3, <2>2
<1>8. ASSUME NEW j \in DOMAIN r, r[j].type = q[k].type
      PROVE  FALSE
  <2>1. q[at(j)].type = q[k].type
    BY <1>1, <1>8
  <2>2. at(j) = k
    BY <1>1, <1>2, <2>1 DEF Single
  <2> QED
    BY <1>1, <1>2, <2>2
<1>6. AllLive(q) => AllLive(r)
  BY <1>1, <1>2 DEF AllLive
<1>7. ASSUME NEW t
      PROVE  Has(q, t) <=> Has(r, t) \/ Live(q[k], t)
  BY <1>1, <1>2, <1>4 DEF Has
<1> QED
  BY <1>5, <1>6, <1>7, <1>8 DEF r, Single

\* Silencing takes no completion away and leaves none that calls.
LEMMA SilencedHas ==
    /\ \A q \in Seq(Held) : Single(q) => Single(Silenced(q))
    /\ \A q \in Seq(QuietHeld), t \in Types : ~Has(q, t)
    /\ \A q \in Seq(QuietEnded), t \in Types : ~Has(q, t) /\ Once(q, t)
<1>1. ASSUME NEW q \in Seq(Held), Single(q)
      PROVE  Single(Silenced(q))
  <2>1. /\ DOMAIN Silenced(q) = DOMAIN q
        /\ \A k \in DOMAIN q : q[k] \in Held
    BY ElementOfSeq, LenProperties DEF Silenced
  <2>2. \A k \in DOMAIN q : Silenced(q)[k].type = q[k].type
    BY <2>1 DEF Silenced, Held, WellMade, Completion
  <2> QED
    BY <1>1, <2>1, <2>2 DEF Single
<1>2. ASSUME NEW q \in Seq(QuietHeld), NEW t \in Types
      PROVE  ~Has(q, t)
  BY ElementOfSeq, LenProperties DEF QuietHeld, Has, Live
<1>3. ASSUME NEW q \in Seq(QuietEnded), NEW t \in Types
      PROVE  ~Has(q, t) /\ Once(q, t)
  BY ElementOfSeq, LenProperties DEF QuietEnded, Has, Live, Once
<1> QED
  BY <1>1, <1>2, <1>3

\* What calls the stream the stream lists, wherever it is.
LEMMA LiveIsListed ==
    ASSUME NEW p \in Seq(Held), NEW q \in Seq(Ended), NEW t, Has(p, t) \/ Has(q, t)
    PROVE  HasListed(p \o q)
<1>1. /\ Len(p) \in Nat /\ DOMAIN p = 1..Len(p) /\ \A k \in 1..Len(p) : p[k] \in Held
      /\ Len(q) \in Nat /\ DOMAIN q = 1..Len(q) /\ \A k \in 1..Len(q) : q[k] \in Ended
  BY LenProperties, ElementOfSeq
<1>2. p \in Seq(Completion) /\ q \in Seq(Completion)
  BY SeqMonotonic DEF Held, Ended, WellMade
<1>3. /\ DOMAIN (p \o q) = 1..Len(p) + Len(q)
      /\ \A k \in 1..Len(p) + Len(q) :
             (p \o q)[k] = IF k <= Len(p) THEN p[k] ELSE q[k - Len(p)]
  <2>1. /\ p \o q \in Seq(Completion) /\ Len(p \o q) = Len(p) + Len(q)
        /\ \A k \in 1..Len(p) + Len(q) :
               (p \o q)[k] = IF k <= Len(p) THEN p[k] ELSE q[k - Len(p)]
    BY <1>2, ConcatProperties
  <2> QED
    BY <2>1, LenProperties
<1>4. ASSUME NEW k \in DOMAIN p, Live(p[k], t)
      PROVE  HasListed(p \o q)
  <2>1. k \in DOMAIN (p \o q) /\ (p \o q)[k] = p[k] /\ p[k].listed
    BY <1>1, <1>3 DEF Held
  <2> QED
    BY <2>1 DEF HasListed
<1>5. ASSUME NEW k \in DOMAIN q, Live(q[k], t)
      PROVE  HasListed(p \o q)
  <2>1. Len(p) + k \in DOMAIN (p \o q) /\ ~(Len(p) + k <= Len(p)) /\ Len(p) + k - Len(p) = k
    BY <1>1, <1>3
  <2>2. (p \o q)[Len(p) + k] = q[k] /\ q[k].listed
    BY <1>1, <1>3, <1>5, <2>1 DEF Live, Ended
  <2> QED
    BY <2>1, <2>2 DEF HasListed
<1> QED
  BY <1>4, <1>5 DEF Has

\* A new operation of a type gRPC holds none of keeps the types single.
LEMMA AppendSingle ==
    ASSUME NEW q \in Seq(Held), NEW e \in Held, Single(q),
           \A k \in DOMAIN q : q[k].type # e.type
    PROVE  Single(Append(q, e)) /\ (AllLive(q) /\ e.callback => AllLive(Append(q, e)))
<1>1. /\ Len(q) \in Nat /\ DOMAIN q = 1..Len(q)
      /\ DOMAIN Append(q, e) = 1..Len(q) + 1
      /\ \A k \in 1..Len(q) : Append(q, e)[k] = q[k]
      /\ Append(q, e)[Len(q) + 1] = e
  BY AppendProperties, LenProperties
<1>2. ASSUME NEW j \in 1..Len(q) + 1, NEW k \in 1..Len(q) + 1,
             Append(q, e)[j].type = Append(q, e)[k].type
      PROVE  j = k
  <2>1. CASE j \in 1..Len(q) /\ k \in 1..Len(q)
    BY <1>1, <1>2, <2>1 DEF Single
  <2>2. CASE j = Len(q) + 1 /\ k \in 1..Len(q)
    BY <1>1, <1>2, <2>2
  <2>3. CASE k = Len(q) + 1 /\ j \in 1..Len(q)
    BY <1>1, <1>2, <2>3
  <2> QED
    BY <1>1, <2>1, <2>2, <2>3
<1>3. AllLive(q) /\ e.callback => AllLive(Append(q, e))
  BY <1>1 DEF AllLive
<1> QED
  BY <1>1, <1>2, <1>3 DEF Single

\* A new operation of a type gRPC holds none of is the only one of its type.
LEMMA NewOperation ==
    ASSUME NEW q \in Seq(Held), NEW e \in Held, Single(q), AllLive(q), ~Has(q, e.type), e.callback
    PROVE  /\ Append(q, e) \in Seq(Held) /\ Single(Append(q, e)) /\ AllLive(Append(q, e))
           /\ \A t : Has(Append(q, e), t) <=> Has(q, t) \/ t = e.type
<1>1. \A k \in DOMAIN q : q[k].type # e.type
  BY DEF AllLive, Has, Live
<1>2. Append(q, e) \in Seq(Held) /\ Single(Append(q, e)) /\ AllLive(Append(q, e))
  BY <1>1, AppendSingle
<1>3. \A t : Has(Append(q, e), t) <=> Has(q, t) \/ Live(e, t)
  BY AppendHas
<1> QED
  BY <1>2, <1>3 DEF Live

----------------------------------------------------------------------------
(* The invariant of what flows through a stream.                            *)

\* gRPC holds one operation of each type, and while the worker does not block
\* each of them calls the stream; none is both there and on the worker queue.
Apart ==
    /\ Single(grpc)
    /\ worker \notin Blocking => AllLive(grpc)
    /\ \A t \in Types : Once(workerQueue, t) /\ ~(Has(grpc, t) /\ Has(workerQueue, t))

\* A call that was not started has no operations; one that was and is not
\* finished reads.
Started ==
    /\ call = "idle" => grpc = <<>> /\ workerQueue = <<>> /\ received = 0 /\ delivered = <<>>
    /\ worker \in {"failing", "stopping"} => finished /\ call # "idle"
    /\ worker = "draining" /\ ~finished => call = "idle"
    /\ call # "idle" /\ worker \in {"idle", "lastWrite"} /\ ~finished => Underway("Read")
    /\ released /\ ~finished => call = "idle"

\* The messages are handed to gRPC in their order, and wait for a write.
InTurn ==
    /\ \A k \in DOMAIN wire : wire[k] = k
    /\ \A k \in DOMAIN buffer : buffer[k] = Len(wire) + k
    /\ written = Len(wire) + Len(buffer)
    /\ ~active => buffer = <<>>
    /\ Underway("Write") => active

\* Between gRPC and the observer there is one message at most.
NoGap ==
    /\ Has(grpc, "Read") => received = Len(delivered)
    /\ \A k \in DOMAIN workerQueue :
           Live(workerQueue[k], "Read") /\ workerQueue[k].ok =>
               workerQueue[k].message = received /\ received = Len(delivered) + 1

\* The observer is set until the stream is deleted, which ends a Shutdown.
Ends ==
    /\ observer = ~released
    /\ worker \in {"draining", "stopping"} <=> after # "nothing"
    /\ after = "notify" => call # "idle"
    /\ notified => released

Flow == StreamInv /\ Apart /\ Started /\ InTurn /\ NoGap /\ Ends

\* A fresh stream.
LEMMA FlowInit == Init => Flow
<1> SUFFICES ASSUME Init PROVE Flow
  OBVIOUS
<1>1. \A q : q = <<>> => DOMAIN q = {} /\ Len(q) = 0
  BY EmptySeq
<1>2. Apart
  BY <1>1 DEF Init, Apart, Single, AllLive, Once, Has
<1>3. Started
  BY DEF Init, Started
<1>4. InTurn
  BY <1>1 DEF Init, InTurn, Underway, Has
<1>5. NoGap
  BY <1>1 DEF Init, NoGap, Has
<1>6. Ends
  BY DEF Init, Ends
<1> QED
  BY <1>2, <1>3, <1>4, <1>5, <1>6, StreamInit DEF Flow

\* Once everything is silenced, nothing is under way.
LEMMA NothingUnderway ==
    ASSUME grpc' \in Seq(QuietHeld), workerQueue' \in Seq(QuietEnded), Single(grpc)',
           worker' \in Blocking
    PROVE  Apart' /\ NoGap' /\ \A t \in Types : ~Underway(t)'
<1>1. \A t \in Types : ~Has(grpc, t)' /\ ~Has(workerQueue, t)' /\ Once(workerQueue, t)'
  BY SilencedHas
<1>2. Apart'
  BY <1>1 DEF Apart
<1>3. NoGap'
  BY <1>1 DEF NoGap, Has, Types
<1> QED
  BY <1>1, <1>2, <1>3 DEF Underway

\* Messages stay in turn while none is written.
LEMMA InTurnKept ==
    ASSUME InTurn, UNCHANGED writer, Underway("Write")' => Underway("Write")
    PROVE  InTurn'
BY DEF InTurn, writer

\* While the call is not finished a Shutdown ends it, and it is over at gRPC.
LEMMA ShutdownFlows ==
    ASSUME Flow, StreamInv', released = FALSE,
           NEW pending \in Seq(Held), NEW queue \in Seq(Ended), NEW then \in {"silent", "notify"},
           Single(pending), Shutdown(pending, queue, then),
           call # "idle" /\ ~finished => Has(pending, "Read") \/ Has(queue, "Read"),
           call = "idle" => /\ pending = <<>> /\ queue = <<>> /\ received' = 0
                            /\ delivered' = <<>> /\ then = "silent",
           UNCHANGED <<released, observer, notified>>
    PROVE  /\ Apart' /\ Started' /\ NoGap' /\ Ends' /\ ~Underway("Write")'
           /\ after' = then /\ (call' = "idle" <=> call = "idle")
<1>1. /\ grpc' = Silenced(pending) /\ workerQueue' = Silenced(queue)
      /\ after' = then /\ worker' \in {"stopping", "draining"}
  BY DEF Shutdown, FinishGrpcCall
<1>2. grpc' \in Seq(QuietHeld) /\ workerQueue' \in Seq(QuietEnded) /\ Single(grpc)'
  BY <1>1, SilencedTypes, SilencedHas
<1>3. Apart' /\ NoGap' /\ ~Underway("Write")'
  BY <1>1, <1>2, NothingUnderway DEF Blocking, Types
<1>4. call # "idle" /\ ~finished => HasListed(pending \o queue)
  BY LiveIsListed
<1>5. /\ worker' = "stopping" => finished' = TRUE /\ call' = "failed"
      /\ worker' = "draining" /\ ~finished' => call = "idle"
      /\ call' = "idle" <=> call = "idle"
  <2>1. CASE HasListed(pending \o queue) /\ ~finished
    <3>1. call # "idle"
      <4> SUFFICES ASSUME call = "idle" PROVE FALSE
        OBVIOUS
      <4>1. pending = <<>> /\ queue = <<>>
        OBVIOUS
      <4>2. pending \o queue = <<>>
        BY <4>1, ConcatEmptySeq, EmptySeq
      <4> QED
        BY <2>1, <4>2, EmptySeq DEF HasListed
    <3> QED
      BY <2>1, <3>1 DEF Shutdown, FinishGrpcCall
  <2>2. CASE ~(HasListed(pending \o queue) /\ ~finished)
    BY <1>4, <2>2 DEF Shutdown
  <2> QED
    BY <2>1, <2>2
<1>6. Started'
  <2>1. call = "idle" => grpc' = <<>> /\ workerQueue' = <<>>
    <3> SUFFICES ASSUME call = "idle" PROVE grpc' = <<>> /\ workerQueue' = <<>>
      OBVIOUS
    <3>1. pending = <<>> /\ queue = <<>> /\ DOMAIN pending = {} /\ DOMAIN queue = {}
      BY EmptySeq
    <3>2. DOMAIN grpc' = {} /\ DOMAIN workerQueue' = {}
      BY <1>1, <3>1 DEF Silenced
    <3>3. Len(grpc') \in Nat /\ Len(workerQueue') \in Nat
          /\ DOMAIN grpc' = 1..Len(grpc') /\ DOMAIN workerQueue' = 1..Len(workerQueue')
      BY <1>2, LenProperties
    <3>4. Len(grpc') = 0 /\ Len(workerQueue') = 0
      BY <3>2, <3>3
    <3> QED
      BY <1>2, <3>4, EmptySeq
  <2> QED
    BY <1>1, <1>5, <2>1 DEF Started
<1>7. Ends'
  BY <1>1, <1>5 DEF Flow, Ends
<1> QED
  BY <1>1, <1>3, <1>5, <1>6, <1>7

\* The status of a failed call is all that gRPC has then.
LEMMA CallFinishedFlows ==
    ASSUME Flow, StreamInv', CallFinished
    PROVE  Flow'
<1> DEFINE finish == New("Finish", "FinishAndNotify", 0)
<1>1. /\ grpc = <<>> /\ workerQueue' \in Seq(QuietEnded) /\ worker = "failing"
      /\ grpc' = Append(grpc, finish) /\ worker' = "idle"
      /\ UNCHANGED <<call, finished, registered, writer, received, delivered, died, after,
                     observer, notified, released>>
  BY OffQueueStep DEF CallFinished, OffQueue, Blocking, Flow
<1>2. finish \in Held /\ finish.type = "Finish" /\ finish.callback
  BY NewIsHeld DEF New
<1> HIDE DEF finish
<1>3. <<>> \in Seq(Held) /\ DOMAIN <<>> = {}
  BY EmptySeq
<1>4. Single(grpc)' /\ AllLive(grpc)' /\ \A t : Has(grpc, t)' <=> Live(finish, t)
  <2>1. Single(<<>>) /\ AllLive(<<>>) /\ \A t : ~Has(<<>>, t)
    BY <1>3 DEF Single, AllLive, Has
  <2>2. Single(Append(<<>>, finish)) /\ AllLive(Append(<<>>, finish))
    BY <1>2, <1>3, <2>1, AppendSingle
  <2>3. \A t : Has(Append(<<>>, finish), t) <=> Live(finish, t)
    BY <1>2, <1>3, <2>1, AppendHas
  <2> QED
    BY <1>1, <2>2, <2>3
<1>5. \A t \in Types : ~Has(workerQueue, t)' /\ Once(workerQueue, t)'
  BY <1>1, SilencedHas
<1>6. Apart'
  BY <1>4, <1>5 DEF Apart
<1>7. Started'
  BY <1>1 DEF Flow, StreamInv, Queues, Started
<1>8. InTurn'
  <2>1. ~Underway("Write")'
    BY <1>2, <1>4, <1>5 DEF Underway, Live, Types
  <2> QED
    BY <1>1, <2>1, InTurnKept DEF Flow
<1>9. NoGap'
  BY <1>2, <1>4, <1>5 DEF NoGap, Has, Live, Types
<1>10. Ends'
  BY <1>1 DEF Flow, Ends
<1> QED
  BY <1>6, <1>7, <1>8, <1>9, <1>10 DEF Flow

\* That of a cancelled call is waited for in silence.
LEMMA CancelledCallFinishedFlows ==
    ASSUME Flow, StreamInv', CancelledCallFinished
    PROVE  Flow'
<1> DEFINE finish == [New("Finish", "nothing", 0) EXCEPT !.callback = FALSE]
<1>1. /\ grpc = <<>> /\ workerQueue' \in Seq(QuietEnded) /\ worker = "stopping"
      /\ grpc' = Append(grpc, finish) /\ worker' = "draining"
      /\ UNCHANGED <<call, finished, registered, writer, received, delivered, died, after,
                     observer, notified, released>>
  BY OffQueueStep DEF CancelledCallFinished, OffQueue, Blocking, Flow
<1>2. finish \in QuietHeld /\ finish \in Held
  BY NewIsHeld DEF QuietHeld
<1> HIDE DEF finish
<1>3. <<>> \in Seq(Held) /\ <<>> \in Seq(QuietHeld) /\ DOMAIN <<>> = {}
  BY EmptySeq
<1>4. Single(grpc)' /\ grpc' \in Seq(QuietHeld)
  <2>1. Single(<<>>)
    BY <1>3 DEF Single
  <2>2. Single(Append(<<>>, finish))
    BY <1>2, <1>3, <2>1, AppendSingle
  <2> QED
    BY <1>1, <1>2, <1>3, <2>2
<1>5. Apart' /\ NoGap' /\ ~Underway("Write")'
  BY <1>1, <1>4, NothingUnderway DEF Blocking, Types
<1>6. Started'
  BY <1>1 DEF Flow, StreamInv, Queues, Started
<1>7. InTurn'
  BY <1>1, <1>5, InTurnKept DEF Flow
<1>8. Ends'
  BY <1>1 DEF Flow, Ends
<1> QED
  BY <1>5, <1>6, <1>7, <1>8 DEF Flow

\* A deleted stream has nothing under way.
LEMMA ReleasedFlows ==
    ASSUME Flow, StreamInv', Released
    PROVE  Flow'
<1>1. /\ grpc = <<>> /\ workerQueue' \in Seq(QuietEnded) /\ worker = "draining"
      /\ workerQueue' = Unlisted(workerQueue)
      /\ grpc' = grpc /\ worker' = "idle" /\ after' = "nothing" /\ observer' = FALSE
      /\ released' = TRUE
      /\ UNCHANGED <<call, finished, registered, writer, received, delivered, died>>
  BY OffQueueStep DEF Released, OffQueue, Blocking, Flow
<1>2. Single(grpc)' /\ AllLive(grpc)' /\ \A t : ~Has(grpc, t)'
  BY <1>1, EmptySeq DEF Single, AllLive, Has
<1>3. \A t \in Types : ~Has(workerQueue, t)' /\ Once(workerQueue, t)'
  BY <1>1, SilencedHas
<1>4. Apart'
  BY <1>2, <1>3 DEF Apart
<1>5. Started'
  <2>1. call = "idle" => workerQueue' = <<>>
    <3> SUFFICES ASSUME call = "idle" PROVE workerQueue' = <<>>
      OBVIOUS
    <3>1. DOMAIN workerQueue' = {}
      BY <1>1, EmptySeq DEF Flow, Started, Unlisted
    <3>2. Len(workerQueue') \in Nat /\ DOMAIN workerQueue' = 1..Len(workerQueue')
      BY <1>1, LenProperties
    <3>3. Len(workerQueue') = 0
      BY <3>1, <3>2
    <3> QED
      BY <1>1, <3>3, EmptySeq
  <2> QED
    BY <1>1, <2>1 DEF Flow, Started
<1>6. InTurn'
  BY <1>1, <1>2, <1>3, InTurnKept DEF Flow, Underway, Types
<1>7. NoGap'
  BY <1>2, <1>3 DEF NoGap, Has, Types
<1>8. Ends'
  BY <1>1 DEF Flow, Ends
<1> QED
  BY <1>4, <1>5, <1>6, <1>7, <1>8 DEF Flow

\* What is at the head of the worker queue is nowhere else.
LEMMA HeadFlows ==
    ASSUME Flow, workerQueue # <<>>
    PROVE  /\ call # "idle"
           /\ Head(workerQueue) \in Ended /\ Tail(workerQueue) \in Seq(Ended)
           /\ \A t \in Types :
                  /\ Has(workerQueue, t) <=> Has(Tail(workerQueue), t) \/ Live(Head(workerQueue), t)
                  /\ Once(Tail(workerQueue), t)
                  /\ ~(Has(grpc, t) /\ Has(Tail(workerQueue), t))
                  /\ Live(Head(workerQueue), t) => ~Has(grpc, t) /\ ~Has(Tail(workerQueue), t)
           /\ Live(Head(workerQueue), "Read") /\ Head(workerQueue).ok =>
                  Head(workerQueue).message = received /\ received = Len(delivered) + 1
           /\ \A k \in DOMAIN Tail(workerQueue) :
                  Live(Tail(workerQueue)[k], "Read") /\ Tail(workerQueue)[k].ok =>
                      Tail(workerQueue)[k].message = received /\ received = Len(delivered) + 1
<1>1. workerQueue \in Seq(Ended) /\ call # "idle"
  BY DEF Flow, Started, StreamInv, Queues
<1>2. /\ Len(workerQueue) \in Nat \ {0} /\ DOMAIN workerQueue = 1..Len(workerQueue)
      /\ Head(workerQueue) = workerQueue[1] /\ Head(workerQueue) \in Ended
      /\ Tail(workerQueue) \in Seq(Ended)
      /\ DOMAIN Tail(workerQueue) = 1..Len(workerQueue) - 1
      /\ \A k \in 1..Len(workerQueue) - 1 : Tail(workerQueue)[k] = workerQueue[k + 1]
  BY <1>1, HeadTailProperties, LenProperties, EmptySeq
<1>3. \A t : /\ Has(workerQueue, t) <=>
                    Has(Tail(workerQueue), t) \/ Live(Head(workerQueue), t)
             /\ Once(workerQueue, t) => /\ Once(Tail(workerQueue), t)
                                        /\ ~(Has(Tail(workerQueue), t) /\ Live(Head(workerQueue), t))
  BY <1>1, TailHas
<1>4. \A t \in Types : Once(workerQueue, t) /\ ~(Has(grpc, t) /\ Has(workerQueue, t))
  BY DEF Flow, Apart
<1>5. \A k \in DOMAIN workerQueue :
          Live(workerQueue[k], "Read") /\ workerQueue[k].ok =>
              workerQueue[k].message = received /\ received = Len(delivered) + 1
  BY DEF Flow, NoGap
<1>6. 1 \in DOMAIN workerQueue /\ \A k \in DOMAIN Tail(workerQueue) : k + 1 \in DOMAIN workerQueue
  BY <1>2
<1> QED
  BY <1>1, <1>2, <1>3, <1>4, <1>5, <1>6

\* What was silenced leaves no trace.
LEMMA RunSilencedFlows ==
    ASSUME Flow, StreamInv', RunSilenced
    PROVE  Flow'
<1>1. /\ workerQueue # <<>> /\ ~Head(workerQueue).callback
      /\ workerQueue' = Tail(workerQueue)
      /\ UNCHANGED <<call, grpc, worker, after, observer, finished, registered, writer, received,
                     shown, released, died>>
  BY DEF RunSilenced
<1>2. /\ \A t \in Types : /\ Has(workerQueue, t) <=> Has(workerQueue, t)'
                          /\ Once(workerQueue, t)' /\ ~(Has(grpc, t) /\ Has(workerQueue, t)')
      /\ call # "idle"
  BY <1>1, HeadFlows DEF Live
<1>3. Apart'
  BY <1>1, <1>2 DEF Flow, Apart
<1>4. \A t \in Types : Underway(t) <=> Underway(t)'
  BY <1>1, <1>2 DEF Underway
<1>5. Started'
  BY <1>1, <1>2, <1>4 DEF Flow, Started, Types, shown
<1>6. InTurn'
  BY <1>1, <1>4, InTurnKept DEF Flow, Types
<1>7. NoGap'
  BY <1>1, HeadFlows DEF Flow, NoGap, shown
<1>8. Ends'
  BY <1>1 DEF Flow, Ends, shown
<1> QED
  BY <1>3, <1>5, <1>6, <1>7, <1>8 DEF Flow

\* A message that is read is the next one, and no other read is under way.
LEMMA ReadFlows ==
    ASSUME Flow, worker = "idle", workerQueue # <<>>, Head(workerQueue).callback,
           Head(workerQueue).ok, Head(workerQueue).onSuccess = "OnRead"
    PROVE  /\ call # "idle" /\ released = FALSE
           /\ Head(workerQueue).message = received /\ received = Len(delivered) + 1
           /\ ReadMore \in Seq(Held) /\ Single(ReadMore) /\ AllLive(ReadMore)
           /\ \A t \in Types : Has(ReadMore, t) <=> Has(grpc, t) \/ t = "Read"
           /\ ~Has(Tail(workerQueue), "Read")
<1> DEFINE read == New("Read", "OnRead", 0)
<1>1. /\ read \in Held /\ read.type = "Read" /\ read.callback
      /\ ReadMore = Append(grpc, read)
  BY NewIsHeld DEF New, ReadMore
<1> HIDE DEF read
<1>2. Live(Head(workerQueue), "Read")
  BY HeadFlows DEF Ended, WellMade, Live
<1>3. /\ call # "idle" /\ ~Has(grpc, "Read") /\ ~Has(Tail(workerQueue), "Read")
      /\ Head(workerQueue).message = received /\ received = Len(delivered) + 1
  BY <1>2, HeadFlows DEF Types
<1>4. grpc \in Seq(Held) /\ Single(grpc) /\ AllLive(grpc) /\ released = FALSE
  BY Runs DEF Flow, StreamInv, Queues, Apart, Blocking
<1>5. /\ ReadMore \in Seq(Held) /\ Single(ReadMore) /\ AllLive(ReadMore)
      /\ \A t : Has(ReadMore, t) <=> Has(grpc, t) \/ t = "Read"
  BY <1>1, <1>3, <1>4, NewOperation
<1> QED
  BY <1>3, <1>4, <1>5

\* The observer is given a message, and the next is asked for.
LEMMA OnReadFlows ==
    ASSUME Flow, StreamInv', OnRead
    PROVE  Flow'
<1>1. /\ worker = "idle" /\ workerQueue # <<>> /\ Head(workerQueue).callback
      /\ Head(workerQueue).ok /\ Head(workerQueue).onSuccess = "OnRead"
      /\ workerQueue' = Tail(workerQueue) /\ grpc' = ReadMore
      /\ delivered' = Append(delivered, Head(workerQueue).message)
      /\ UNCHANGED <<call, worker, after, observer, finished, registered, writer, received,
                     released, notified>>
  BY DEF OnRead, Run
<1>2. /\ call # "idle" /\ released = FALSE
      /\ received = Len(delivered) + 1
      /\ Single(grpc)' /\ AllLive(grpc)'
      /\ \A t \in Types : Has(grpc, t)' <=> Has(grpc, t) \/ t = "Read"
      /\ ~Has(workerQueue, "Read")'
  BY <1>1, ReadFlows
<1>3. \A t \in Types :
          /\ Has(workerQueue, t)' => Has(workerQueue, t)
          /\ Once(workerQueue, t)' /\ ~(Has(grpc, t) /\ Has(workerQueue, t)')
  BY <1>1, HeadFlows
<1>4. Apart'
  BY <1>2, <1>3 DEF Apart
<1>5. Started'
  BY <1>1, <1>2 DEF Flow, Started, Underway, Types
<1>6. InTurn'
  BY <1>1, <1>2, <1>3, InTurnKept DEF Flow, Underway, Types
<1>7. Len(delivered)' = Len(delivered) + 1
  BY <1>1, AppendProperties DEF Flow, StreamInv, Messages
<1>8. NoGap'
  BY <1>1, <1>2, <1>7 DEF NoGap, Has
<1>9. Ends'
  BY <1>1 DEF Flow, Ends
<1> QED
  BY <1>4, <1>5, <1>6, <1>8, <1>9 DEF Flow

\* The message it cannot parse is the last one it is given.
LEMMA OnReadRejectedFlows ==
    ASSUME Flow, StreamInv', OnReadRejected
    PROVE  Flow' /\ after' = "silent" /\ call' # "idle"
<1>1. /\ worker = "idle" /\ workerQueue # <<>> /\ Head(workerQueue).callback
      /\ Head(workerQueue).ok /\ Head(workerQueue).onSuccess = "OnRead"
      /\ Shutdown(ReadMore, Tail(workerQueue), "silent")
      /\ UNCHANGED <<observer, writer, received, released, notified>>
  BY DEF OnReadRejected, Run
<1>2. /\ call # "idle" /\ released = FALSE /\ ReadMore \in Seq(Held) /\ Single(ReadMore)
      /\ Has(ReadMore, "Read") /\ Tail(workerQueue) \in Seq(Ended)
  BY <1>1, ReadFlows, HeadFlows DEF Types
<1>3. /\ Apart' /\ Started' /\ NoGap' /\ Ends' /\ ~Underway("Write")'
      /\ after' = "silent" /\ (call' = "idle" <=> call = "idle")
  BY <1>1, <1>2, ShutdownFlows
<1>4. InTurn'
  BY <1>1, <1>3, InTurnKept DEF Flow
<1> QED
  BY <1>2, <1>3, <1>4 DEF Flow

\* A message that has to wait is the next in the buffer.
LEMMA Buffered ==
    ASSUME InTurn, Messages, active,
           written' = written + 1, buffer' = Append(buffer, written'), UNCHANGED <<active, wire>>
    PROVE  InTurn'
<1>1. /\ Len(buffer) \in Nat /\ Len(wire) \in Nat /\ DOMAIN buffer = 1..Len(buffer)
      /\ DOMAIN buffer' = 1..Len(buffer) + 1 /\ Len(buffer') = Len(buffer) + 1
      /\ \A k \in 1..Len(buffer) : buffer'[k] = buffer[k]
      /\ buffer'[Len(buffer) + 1] = written'
  <2>1. buffer \in Seq(Nat) /\ written' \in Nat
    BY StreamAssumption, SeqMonotonic DEF Messages
  <2> QED
    BY <2>1, AppendProperties, LenProperties DEF Messages
<1>2. \A k \in 1..Len(buffer) + 1 : buffer'[k] = Len(wire) + k
  BY <1>1 DEF InTurn
<1> QED
  BY <1>1, <1>2 DEF InTurn

\* A message that need not wait is the next one for gRPC.
LEMMA Handed ==
    ASSUME InTurn, Messages, ~active,
           written' = written + 1, wire' = Append(wire, written'), active' = TRUE, UNCHANGED buffer
    PROVE  InTurn'
<1>1. /\ Len(wire) \in Nat /\ DOMAIN wire = 1..Len(wire)
      /\ DOMAIN wire' = 1..Len(wire) + 1 /\ Len(wire') = Len(wire) + 1
      /\ \A k \in 1..Len(wire) : wire'[k] = wire[k]
      /\ wire'[Len(wire) + 1] = written'
  <2>1. wire \in Seq(Nat) /\ written' \in Nat
    BY StreamAssumption, SeqMonotonic DEF Messages
  <2> QED
    BY <2>1, AppendProperties, LenProperties
<1>2. buffer = <<>> /\ DOMAIN buffer = {} /\ Len(buffer) = 0 /\ written = Len(wire)
  BY <1>1, EmptySeq DEF InTurn
<1>3. \A k \in 1..Len(wire) + 1 : wire'[k] = k
  BY <1>1, <1>2 DEF InTurn
<1> QED
  BY <1>1, <1>2, <1>3 DEF InTurn

\* So is the first that has waited.
LEMMA Unbuffered ==
    ASSUME InTurn, Messages, buffer # <<>>,
           wire' = Append(wire, Head(buffer)), buffer' = Tail(buffer), active' = TRUE,
           UNCHANGED written
    PROVE  InTurn'
<1>1. /\ Len(buffer) \in Nat \ {0} /\ DOMAIN buffer = 1..Len(buffer)
      /\ Head(buffer) = buffer[1] /\ Head(buffer) \in 1..MaxWrites
      /\ DOMAIN buffer' = 1..Len(buffer) - 1 /\ Len(buffer') = Len(buffer) - 1
      /\ \A k \in 1..Len(buffer) - 1 : buffer'[k] = buffer[k + 1]
  <2>1. buffer \in Seq(1..MaxWrites) /\ buffer' = Tail(buffer) /\ buffer # <<>>
    BY DEF Messages
  <2>2. \A S : \A s \in Seq(S) : s # <<>> =>
            /\ Head(s) = s[1] /\ Head(s) \in S
            /\ Tail(s) \in Seq(S) /\ Len(Tail(s)) = Len(s) - 1
            /\ \A k \in 1..Len(Tail(s)) : Tail(s)[k] = s[k + 1]
    BY HeadTailProperties
  <2>3. Len(buffer) \in Nat \ {0} /\ DOMAIN buffer = 1..Len(buffer)
    BY <2>1, LenProperties, EmptySeq
  <2>4. DOMAIN Tail(buffer) = 1..Len(Tail(buffer))
    BY <2>1, <2>2, LenProperties
  <2> QED
    BY <2>1, <2>2, <2>3, <2>4
<1>2. /\ Len(wire) \in Nat /\ DOMAIN wire = 1..Len(wire)
      /\ DOMAIN wire' = 1..Len(wire) + 1 /\ Len(wire') = Len(wire) + 1
      /\ \A k \in 1..Len(wire) : wire'[k] = wire[k]
      /\ wire'[Len(wire) + 1] = Head(buffer)
  BY <1>1, AppendProperties, LenProperties DEF Messages
<1>3. Head(buffer) = Len(wire) + 1
  BY <1>1 DEF InTurn
<1>4. \A k \in 1..Len(wire) + 1 : wire'[k] = k
  BY <1>2, <1>3 DEF InTurn
<1>5. \A k \in 1..Len(buffer) - 1 : buffer'[k] = Len(wire') + k
  <2> SUFFICES ASSUME NEW k \in 1..Len(buffer) - 1
               PROVE  buffer'[k] = Len(wire') + k
    OBVIOUS
  <2>1. k + 1 \in DOMAIN buffer /\ k + 1 \in Nat
    BY <1>1
  <2>2. buffer[k + 1] = Len(wire) + (k + 1)
    BY <2>1 DEF InTurn
  <2> QED
    BY <1>1, <1>2, <2>2
<1>6. written' = Len(wire') + Len(buffer')
  BY <1>1, <1>2 DEF InTurn
<1> QED
  BY <1>1, <1>2, <1>4, <1>5, <1>6 DEF InTurn

\* A write that has ended makes room for the next in the buffer.
LEMMA OnWriteFlows ==
    ASSUME Flow, StreamInv', OnWrite
    PROVE  Flow'
<1>1. /\ worker = "idle" /\ workerQueue # <<>> /\ Head(workerQueue).callback
      /\ Head(workerQueue).onSuccess = "OnWrite"
      /\ workerQueue' = Tail(workerQueue)
      /\ UNCHANGED <<call, worker, after, observer, finished, registered, written, received,
                     delivered, released, notified>>
  BY DEF OnWrite, Run
<1>2. Live(Head(workerQueue), "Write")
  BY <1>1, HeadFlows DEF Ended, WellMade, Live
<1>3. /\ call # "idle" /\ ~Has(grpc, "Write") /\ ~Has(workerQueue, "Write")'
      /\ Has(workerQueue, "Read") <=> Has(workerQueue, "Read")'
      /\ \A t \in Types : Once(workerQueue, t)' /\ ~(Has(grpc, t) /\ Has(workerQueue, t)')
  BY <1>1, <1>2, HeadFlows DEF Types, Live
<1>4. grpc \in Seq(Held) /\ Single(grpc) /\ AllLive(grpc) /\ InTurn /\ Messages
  BY <1>1 DEF Flow, StreamInv, Queues, Apart, Blocking
<1>5. /\ Single(grpc)' /\ AllLive(grpc)' /\ InTurn'
      /\ \A t \in Types : t # "Write" => (Has(grpc, t)' <=> Has(grpc, t))
  <2>1. CASE buffer = <<>>
    <3>1. active' = FALSE /\ UNCHANGED <<buffer, wire, grpc>>
      BY <2>1 DEF OnWrite
    <3>2. ~Underway("Write")'
      BY <1>3, <3>1 DEF Underway
    <3>3. InTurn'
      BY <1>1, <1>4, <2>1, <3>1, <3>2 DEF InTurn
    <3> QED
      BY <1>4, <3>1, <3>3
  <2>2. CASE buffer # <<>>
    <3> DEFINE write == New("Write", "OnWrite", Head(buffer))
    <3>1. /\ active' = TRUE /\ wire' = Append(wire, Head(buffer)) /\ buffer' = Tail(buffer)
          /\ grpc' = Append(grpc, write)
      BY <2>2 DEF OnWrite, StartWrite
    <3>2. write \in Held /\ write.type = "Write" /\ write.callback
      <4>1. Head(buffer) \in 1..MaxWrites
        BY <1>4, <2>2, HeadTailProperties DEF Messages
      <4> QED
        BY <4>1, NewIsHeld DEF New
    <3> HIDE DEF write
    <3>3. /\ Single(grpc)' /\ AllLive(grpc)'
          /\ \A t : Has(grpc, t)' <=> Has(grpc, t) \/ t = "Write"
      BY <1>3, <1>4, <3>1, <3>2, NewOperation
    <3>4. InTurn'
      BY <1>1, <1>4, <2>2, <3>1, Unbuffered
    <3> QED
      BY <3>3, <3>4
  <2> QED
    BY <2>1, <2>2
<1>6. Apart'
  BY <1>3, <1>5 DEF Apart
<1>7. Started'
  BY <1>1, <1>3, <1>5 DEF Flow, Started, Underway, Types
<1>8. NoGap'
  <2>1. Has(grpc, "Read")' => received = Len(delivered)
    BY <1>5 DEF Flow, NoGap, Types
  <2> QED
    BY <1>1, <2>1, HeadFlows DEF NoGap
<1>9. Ends'
  BY <1>1 DEF Flow, Ends
<1> QED
  BY <1>5, <1>6, <1>7, <1>8, <1>9 DEF Flow

\* The status has come: the call is finished, or being finished.
LEMMA OnFinishFlows ==
    ASSUME Flow, StreamInv', OnFinish
    PROVE  Flow' /\ after' = "notify" /\ call' # "idle"
<1>1. /\ worker = "idle" /\ workerQueue # <<>> /\ Head(workerQueue).callback
      /\ Head(workerQueue).onSuccess = "FinishAndNotify"
      /\ Shutdown(grpc, Tail(workerQueue), "notify")
      /\ UNCHANGED <<observer, writer, delivered, received, released, notified>>
  BY DEF OnFinish, Run
<1>2. Live(Head(workerQueue), "Finish")
  BY <1>1, HeadFlows DEF Ended, WellMade, Live
<1>3. /\ call # "idle" /\ Tail(workerQueue) \in Seq(Ended)
      /\ Has(workerQueue, "Read") <=> Has(Tail(workerQueue), "Read")
  BY <1>1, <1>2, HeadFlows DEF Types, Live
<1>4. grpc \in Seq(Held) /\ Single(grpc) /\ released = FALSE
  BY <1>1, Runs DEF Flow, StreamInv, Queues, Apart
<1>5. call # "idle" /\ ~finished => Has(grpc, "Read") \/ Has(Tail(workerQueue), "Read")
  BY <1>1, <1>3 DEF Flow, Started, Underway
<1>6. /\ Apart' /\ Started' /\ NoGap' /\ Ends' /\ ~Underway("Write")'
      /\ after' = "notify" /\ (call' = "idle" <=> call = "idle")
  BY <1>1, <1>3, <1>4, <1>5, ShutdownFlows
<1>7. InTurn'
  BY <1>1, <1>6, InTurnKept DEF Flow
<1> QED
  BY <1>3, <1>6, <1>7 DEF Flow

\* The first operation that fails finishes the call; others change nothing.
LEMMA OnOperationFailedFlows ==
    ASSUME Flow, StreamInv', OnOperationFailed
    PROVE  Flow'
<1>1. /\ worker = "idle" /\ workerQueue # <<>> /\ ~Head(workerQueue).ok
      /\ Head(workerQueue).callback
      /\ UNCHANGED <<call, after, observer, registered, writer, received, shown, released>>
  BY DEF OnOperationFailed
<1>2. call # "idle" /\ released = FALSE
  BY <1>1, HeadFlows, Runs DEF Flow
<1>3. Ends'
  BY <1>1 DEF Flow, Ends, shown, OnOperationFailed, FinishGrpcCall
<1>4. CASE finished
  <2>1. workerQueue' = Tail(workerQueue) /\ UNCHANGED <<grpc, finished, worker>>
    BY <1>4 DEF OnOperationFailed
  <2>2. \A t \in Types : /\ Has(workerQueue, t)' => Has(workerQueue, t)
                         /\ Once(workerQueue, t)' /\ ~(Has(grpc, t) /\ Has(workerQueue, t)')
    BY <1>1, <2>1, HeadFlows
  <2>3. Apart'
    BY <2>1, <2>2 DEF Flow, Apart
  <2>4. Started'
    BY <1>1, <1>2, <1>4, <2>1 DEF Flow, Started
  <2>5. InTurn'
    BY <1>1, <2>1, <2>2, InTurnKept DEF Flow, Underway, Types
  <2>6. NoGap'
    BY <1>1, <2>1, HeadFlows DEF Flow, NoGap, shown
  <2> QED
    BY <1>3, <2>3, <2>4, <2>5, <2>6 DEF Flow
<1>5. CASE ~finished
  <2>1. /\ grpc' = Silenced(grpc) /\ workerQueue' = Silenced(Tail(workerQueue))
        /\ finished' = TRUE /\ worker' = "failing"
    BY <1>5 DEF OnOperationFailed, FinishGrpcCall
  <2>2. grpc' \in Seq(QuietHeld) /\ workerQueue' \in Seq(QuietEnded) /\ Single(grpc)'
    BY <1>1, <2>1, HeadFlows, SilencedTypes, SilencedHas DEF Flow, StreamInv, Queues, Apart
  <2>3. Apart' /\ NoGap' /\ ~Underway("Write")'
    BY <2>1, <2>2, NothingUnderway DEF Blocking, Types
  <2>4. Started'
    BY <1>1, <1>2, <2>1 DEF Started
  <2>5. InTurn'
    BY <1>1, <2>3, InTurnKept DEF Flow
  <2> QED
    BY <1>3, <2>3, <2>4, <2>5 DEF Flow
<1> QED
  BY <1>4, <1>5

\* The first read is asked for when the call starts.
LEMMA StartFlows ==
    ASSUME Flow, StreamInv', Start
    PROVE  Flow'
<1> DEFINE read == New("Read", "OnRead", 0)
<1>1. /\ worker = "idle" /\ released = FALSE /\ call = "idle" /\ call' = "running"
      /\ grpc' = Append(grpc, read)
      /\ UNCHANGED <<workerQueue, worker, after, observer, finished, registered, writer, received,
                     shown, released, died>>
  BY DEF Start, Usable, ReadMore, Flow, StreamInv, Flags
<1>2. read \in Held /\ read.type = "Read" /\ read.callback
  BY NewIsHeld DEF New
<1> HIDE DEF read
<1>3. grpc = <<>> /\ workerQueue = <<>> /\ received = 0 /\ delivered = <<>>
  BY <1>1 DEF Flow, Started
<1>4. /\ \A t : ~Has(grpc, t) /\ ~Has(workerQueue, t)
      /\ grpc \in Seq(Held) /\ Single(grpc) /\ AllLive(grpc) /\ Len(delivered) = 0
  BY <1>1, <1>3, EmptySeq DEF Has, Single, AllLive
<1>5. /\ Single(grpc)' /\ AllLive(grpc)'
      /\ \A t : Has(grpc, t)' <=> t = "Read"
  BY <1>1, <1>2, <1>4, NewOperation
<1>6. Apart'
  BY <1>1, <1>4, <1>5 DEF Flow, Apart
<1>7. Started'
  BY <1>1, <1>5 DEF Started, Underway
<1>8. InTurn'
  BY <1>1, <1>4, <1>5, InTurnKept DEF Flow, Underway
<1>9. NoGap'
  BY <1>1, <1>3, <1>4 DEF NoGap, Has, shown
<1>10. Ends'
  BY <1>1 DEF Flow, Ends, shown
<1> QED
  BY <1>6, <1>7, <1>8, <1>9, <1>10 DEF Flow

\* A write that gRPC is given when none is under way.
LEMMA WrittenFlows ==
    ASSUME Flow, StreamInv', worker = "idle", released = FALSE, call # "idle", ~active,
           NEW write \in Held, write.type = "Write", write.callback,
           written' = written + 1, wire' = Append(wire, written'), active' = TRUE,
           grpc' = Append(grpc, write), worker' \in {"idle", "lastWrite"},
           UNCHANGED <<call, workerQueue, after, observer, finished, registered, buffer, received,
                       shown, released>>
    PROVE  Flow'
<1>1. /\ grpc \in Seq(Held) /\ Single(grpc) /\ AllLive(grpc) /\ InTurn /\ Messages
      /\ ~Has(grpc, "Write") /\ ~Has(workerQueue, "Write")
  BY DEF Flow, StreamInv, Queues, Apart, InTurn, Blocking, Underway
<1>2. /\ Single(grpc)' /\ AllLive(grpc)'
      /\ \A t : Has(grpc, t)' <=> Has(grpc, t) \/ t = "Write"
  BY <1>1, NewOperation
<1>3. Apart'
  BY <1>1, <1>2 DEF Flow, Apart
<1>4. Started'
  BY <1>2 DEF Flow, Started, Underway
<1>5. InTurn'
  BY <1>1, Handed
<1>6. NoGap'
  BY <1>2 DEF Flow, NoGap, shown
<1>7. Ends'
  BY DEF Flow, Ends, shown
<1> QED
  BY <1>3, <1>4, <1>5, <1>6, <1>7 DEF Flow

\* The owner writes.
LEMMA WriteFlows ==
    ASSUME Flow, StreamInv', Write
    PROVE  Flow'
<1>1. /\ worker = "idle" /\ released = FALSE /\ call # "idle" /\ written' = written + 1
      /\ UNCHANGED <<call, workerQueue, worker, after, observer, finished, registered, received,
                     shown, released, died>>
  BY DEF Write, Usable, Flow, StreamInv, Flags
<1>2. CASE active
  <2>1. buffer' = Append(buffer, written') /\ UNCHANGED <<active, wire, grpc>>
    BY <1>2 DEF Write
  <2>2. InTurn'
    BY <1>1, <1>2, <2>1, Buffered DEF Flow, StreamInv
  <2>3. Apart' /\ NoGap' /\ Ends'
    BY <1>1, <2>1 DEF Flow, Apart, NoGap, Ends, shown
  <2>4. Started'
    BY <1>1, <2>1 DEF Flow, Started, Underway, shown
  <2> QED
    BY <2>2, <2>3, <2>4 DEF Flow
<1>3. CASE ~active
  <2> DEFINE write == New("Write", "OnWrite", written')
  <2>1. /\ grpc' = Append(grpc, write) /\ active' = TRUE /\ wire' = Append(wire, written')
        /\ buffer' = buffer
    BY <1>3 DEF Write, StartWrite
  <2>2. write \in Held /\ write.type = "Write" /\ write.callback
    <3>1. written' \in 1..MaxWrites
      BY StreamAssumption DEF Write, Flow, StreamInv, Messages
    <3> QED
      BY <3>1, NewIsHeld DEF New
  <2> HIDE DEF write
  <2> QED
    BY <1>1, <1>3, <2>1, <2>2, WrittenFlows
<1> QED
  BY <1>2, <1>3

\* What a Shutdown needs when nothing else happens with it.
LEMMA EndingFlows ==
    ASSUME Flow, StreamInv', released = FALSE, worker \in {"idle", "lastWrite"},
           NEW then \in {"silent", "notify"}, then = "notify" => call # "idle",
           Shutdown(grpc, workerQueue, then), UNCHANGED <<observer, received, shown, released>>
    PROVE  /\ Apart' /\ Started' /\ NoGap' /\ Ends' /\ ~Underway("Write")'
           /\ after' = then /\ (call' = "idle" <=> call = "idle")
<1>1. grpc \in Seq(Held) /\ workerQueue \in Seq(Ended) /\ Single(grpc)
  BY DEF Flow, StreamInv, Queues, Apart
<1>2. call # "idle" /\ ~finished => Has(grpc, "Read") \/ Has(workerQueue, "Read")
  BY DEF Flow, Started, Underway
<1>3. call = "idle" => /\ grpc = <<>> /\ workerQueue = <<>> /\ received' = 0
                       /\ delivered' = <<>> /\ then = "silent"
  BY DEF Flow, Started, shown
<1>4. notified' = notified
  BY DEF shown
<1> QED
  BY <1>1, <1>2, <1>3, <1>4, ShutdownFlows

\* The owner, the connection or the end of a wait ends the stream.
LEMMA EndedFlows ==
    ASSUME Flow, StreamInv', FinishImmediately \/ FinishAndNotify \/ LastWriteWaited
    PROVE  Flow' /\ (call' = "idle" <=> call = "idle")
<1>1. /\ released = FALSE /\ worker \in {"idle", "lastWrite"}
      /\ \E then \in {"silent", "notify"} :
             (then = "notify" => call # "idle") /\ Shutdown(grpc, workerQueue, then)
      /\ UNCHANGED <<observer, writer, received, shown, released>>
  BY DEF FinishImmediately, FinishAndNotify, LastWriteWaited, Usable, Flow, StreamInv, Flags, Queues
<1>2. PICK then \in {"silent", "notify"} :
          (then = "notify" => call # "idle") /\ Shutdown(grpc, workerQueue, then)
  BY <1>1
<1>3. /\ Apart' /\ Started' /\ NoGap' /\ Ends' /\ ~Underway("Write")'
      /\ (call' = "idle" <=> call = "idle")
  BY <1>1, <1>2, EndingFlows
<1>4. InTurn'
  BY <1>1, <1>3, InTurnKept DEF Flow
<1> QED
  BY <1>3, <1>4 DEF Flow

\* The owner says a last word.
LEMMA WriteAndFinishFlows ==
    ASSUME Flow, StreamInv', WriteAndFinish
    PROVE  Flow' /\ call' # "idle"
<1>1. /\ worker = "idle" /\ released = FALSE /\ call # "idle" /\ written' = written + 1
      /\ UNCHANGED <<observer, received, shown, released>>
  BY DEF WriteAndFinish, Usable, Flow, StreamInv, Flags
<1>2. CASE active
  <2>1. /\ buffer' = Append(buffer, written') /\ UNCHANGED <<active, wire>>
        /\ Shutdown(grpc, workerQueue, "silent")
    BY <1>2 DEF WriteAndFinish
  <2>2. /\ Apart' /\ Started' /\ NoGap' /\ Ends'
        /\ (call' = "idle" <=> call = "idle")
    BY <1>1, <2>1, EndingFlows
  <2>3. InTurn'
    BY <1>1, <1>2, <2>1, Buffered DEF Flow, StreamInv
  <2> QED
    BY <1>1, <2>2, <2>3 DEF Flow
<1>3. CASE ~active
  <2> DEFINE write == New("Write", "nothing", written')
  <2>1. /\ grpc' = Append(grpc, write) /\ active' = TRUE /\ wire' = Append(wire, written')
        /\ worker' = "lastWrite"
        /\ UNCHANGED <<call, workerQueue, after, finished, registered, buffer, died>>
    BY <1>3 DEF WriteAndFinish
  <2>2. write \in Held /\ write.type = "Write" /\ write.callback
    <3>1. written' \in 1..MaxWrites
      BY StreamAssumption DEF WriteAndFinish, Flow, StreamInv, Messages
    <3> QED
      BY <3>1, NewIsHeld DEF New
  <2> HIDE DEF write
  <2> QED
    BY <1>1, <1>3, <2>1, <2>2, WrittenFlows
<1> QED
  BY <1>2, <1>3

\* The call fails; what is under way is still to come back.
LEMMA CallFailsFlows ==
    ASSUME Flow, StreamInv', CallFails
    PROVE  Flow'
<1>1. /\ call = "running" /\ call' = "failed"
      /\ UNCHANGED <<grpc, workerQueue, worker, after, observer, finished, registered, writer,
                     received, shown, released, died>>
  BY DEF CallFails
<1>2. Apart' /\ NoGap' /\ Ends'
  BY <1>1 DEF Flow, Apart, NoGap, Ends, shown
<1>3. Started'
  BY <1>1 DEF Flow, Started, Underway
<1>4. InTurn'
  BY <1>1, InTurnKept DEF Flow, Underway
<1> QED
  BY <1>2, <1>3, <1>4 DEF Flow

\* An operation that comes back leaves gRPC for the worker queue.
LEMMA CompleteFlows ==
    ASSUME Flow, StreamInv', NEW k \in DOMAIN grpc, NEW ok \in BOOLEAN, Complete(k, ok)
    PROVE  Flow'
<1> DEFINE c == grpc[k]
<1>1. /\ grpc' = RemoveAt(grpc, k)
      /\ UNCHANGED <<call, worker, after, observer, finished, registered, writer, shown,
                     released, died>>
  BY DEF Complete
<1>2. /\ c \in Held
      /\ IF c.type = "Read" /\ ok THEN received' = received + 1 ELSE received' = received
  BY Completed DEF Flow
<1>3. PICK e \in Ended : /\ workerQueue' = Append(workerQueue, e)
                         /\ e.type = c.type /\ e.callback = c.callback /\ e.ok = ok
                         /\ e.type = "Read" => e.message = received'
  BY Completed DEF Flow
<1>4. grpc \in Seq(Held) /\ workerQueue \in Seq(Ended) /\ Single(grpc) /\ Len(delivered) \in Nat
  BY LenProperties DEF Flow, StreamInv, Queues, Messages, Apart
<1>5. /\ Single(grpc)' /\ (AllLive(grpc) => AllLive(grpc)')
      /\ \A j \in DOMAIN grpc' : grpc'[j].type # c.type
      /\ \A t : Has(grpc, t) <=> Has(grpc, t)' \/ Live(c, t)
  BY <1>1, <1>4, RemoveAtHas
<1>6. \A t : /\ Has(workerQueue, t)' <=> Has(workerQueue, t) \/ Live(c, t)
             /\ Once(workerQueue, t) /\ ~(Has(workerQueue, t) /\ Live(c, t)) => Once(workerQueue, t)'
  <2>1. \A t : Live(e, t) <=> Live(c, t)
    BY <1>3 DEF Live
  <2>2. \A t : /\ Has(Append(workerQueue, e), t) <=> Has(workerQueue, t) \/ Live(e, t)
               /\ Once(workerQueue, t) /\ ~(Has(workerQueue, t) /\ Live(e, t)) =>
                      Once(Append(workerQueue, e), t)
    BY <1>4, AppendHas
  <2> QED
    BY <1>3, <2>1, <2>2
<1>7. \A t : Live(c, t) => ~Has(grpc, t)'
  BY <1>5 DEF Live, Has
<1>8. Apart'
  BY <1>1, <1>5, <1>6, <1>7 DEF Flow, Apart
<1>9. \A t : Underway(t)' <=> Underway(t)
  BY <1>5, <1>6 DEF Underway
<1>10. call # "idle"
  BY EmptySeq DEF Flow, Started
<1>11. Started'
  BY <1>1, <1>9, <1>10 DEF Flow, Started
<1>12. InTurn'
  BY <1>1, <1>9, InTurnKept DEF Flow
<1>13. Has(grpc, "Read")' => received' = Len(delivered')
  <2> SUFFICES ASSUME Has(grpc, "Read")' PROVE received' = Len(delivered')
    OBVIOUS
  <2>1. c.type # "Read" /\ Has(grpc, "Read")
    BY <1>5 DEF Has, Live
  <2> QED
    BY <1>1, <1>2, <2>1 DEF Flow, NoGap, shown
<1>14. ASSUME NEW j \in DOMAIN workerQueue',
              Live(workerQueue'[j], "Read"), workerQueue'[j].ok
       PROVE  workerQueue'[j].message = received' /\ received' = Len(delivered') + 1
  <2>1. /\ Len(workerQueue) \in Nat /\ DOMAIN workerQueue = 1..Len(workerQueue)
        /\ DOMAIN workerQueue' = 1..Len(workerQueue) + 1
        /\ \A i \in 1..Len(workerQueue) : workerQueue'[i] = workerQueue[i]
        /\ workerQueue'[Len(workerQueue) + 1] = e
    BY <1>3, <1>4, AppendProperties, LenProperties
  <2>2. CASE j \in DOMAIN workerQueue
    <3>1. Live(workerQueue[j], "Read") /\ workerQueue[j].ok /\ Has(workerQueue, "Read")
      BY <1>14, <2>1, <2>2 DEF Has
    <3>2. worker \notin Blocking
      <4> SUFFICES ASSUME worker \in Blocking PROVE FALSE
        OBVIOUS
      <4>1. workerQueue \in Seq(QuietEnded)
        BY DEF Flow, StreamInv, Queues
      <4> QED
        BY <3>1, <4>1, SilencedHas DEF Types
    <3>3. c.type # "Read"
      <4>1. c.callback
        BY <3>2 DEF Flow, Apart, AllLive
      <4>2. ~Has(grpc, "Read")
        BY <3>1 DEF Flow, Apart, Types
      <4> QED
        BY <4>1, <4>2 DEF Has, Live
    <3> QED
      BY <1>1, <1>2, <2>1, <2>2, <3>1, <3>3 DEF Flow, NoGap, shown
  <2>3. CASE j = Len(workerQueue) + 1
    <3>1. Live(e, "Read") /\ e.ok
      BY <1>14, <2>1, <2>3
    <3>2. c.type = "Read" /\ ok /\ Has(grpc, "Read")
      BY <1>3, <3>1 DEF Live, Has
    <3> QED
      BY <1>1, <1>2, <1>3, <2>1, <2>3, <3>2 DEF Flow, NoGap, shown
  <2> QED
    BY <2>1, <2>2, <2>3
<1>15. NoGap'
  BY <1>13, <1>14 DEF NoGap
<1>16. Ends'
  BY <1>1 DEF Flow, Ends, shown
<1> QED
  BY <1>8, <1>11, <1>12, <1>15, <1>16 DEF Flow

\* Each step keeps what flows in order.
LEMMA FlowStep == Flow /\ [Next]_vars => Flow'
<1> SUFFICES ASSUME Flow, [Next]_vars
             PROVE  Flow'
  OBVIOUS
<1>1. StreamInv'
  BY StreamStep DEF Flow
<1>2. CASE WorkerStep
  BY <1>1, <1>2, CallFinishedFlows, CancelledCallFinishedFlows, ReleasedFlows, EndedFlows,
     RunSilencedFlows, OnReadFlows, OnReadRejectedFlows, OnWriteFlows, OnFinishFlows,
     OnOperationFailedFlows DEF WorkerStep
<1>3. CASE Start \/ Write \/ FinishImmediately \/ FinishAndNotify \/ WriteAndFinish
  BY <1>1, <1>3, StartFlows, WriteFlows, EndedFlows, WriteAndFinishFlows
<1>4. CASE CallFails
  BY <1>1, <1>4, CallFailsFlows
<1>5. CASE \E k \in DOMAIN grpc, ok \in BOOLEAN : Complete(k, ok)
  BY <1>1, <1>5, CompleteFlows
<1>6. CASE UNCHANGED vars
  BY <1>1, <1>6 DEF vars, writer, shown, Flow, Apart, Started, InTurn, NoGap, Ends, Underway
<1> QED
  BY <1>2, <1>3, <1>4, <1>5, <1>6 DEF Next

\* The inductive invariant of what flows through a stream: which operations
\* are under way, and how far the messages have come.
THEOREM FlowInvariant == Spec => []Flow
BY FlowInit, FlowStep, PTL DEF Spec

\* gRPC never has two reads, two writes or two requests for the status of one
\* stream, and is given the messages in the order they were written in,
\* however many there are and whoever ends the stream.
THEOREM OneOperationAtATime == Spec => []OneAtATimeInOrder
<1>1. Flow => OneAtATimeInOrder
  BY DEF Flow, Apart, InTurn, Single, OneAtATimeInOrder
<1> QED
  BY <1>1, FlowInvariant, PTL

\* A stream that runs has a read under way, or it would not learn of its end.
THEOREM NeverDeaf == Spec => []AlwaysReading
<1>1. Flow => AlwaysReading
  <2> SUFFICES ASSUME Flow, call # "idle", worker = "idle", ~finished
               PROVE  \E k \in DOMAIN Completions :
                          Completions[k].type = "Read" /\ Completions[k].callback
    BY DEF AlwaysReading
  <2>1. /\ grpc \in Seq(Completion) /\ workerQueue \in Seq(Completion)
    BY SeqMonotonic DEF Flow, StreamInv, Queues, Held, Ended, WellMade
  <2>2. /\ Len(grpc) \in Nat /\ DOMAIN grpc = 1..Len(grpc)
        /\ Len(workerQueue) \in Nat /\ DOMAIN workerQueue = 1..Len(workerQueue)
        /\ DOMAIN Completions = 1..Len(grpc) + Len(workerQueue)
        /\ \A k \in 1..Len(grpc) + Len(workerQueue) :
               Completions[k] = IF k <= Len(grpc) THEN grpc[k] ELSE workerQueue[k - Len(grpc)]
    <3>1. /\ Completions \in Seq(Completion)
          /\ Len(Completions) = Len(grpc) + Len(workerQueue)
          /\ \A k \in 1..Len(grpc) + Len(workerQueue) :
                 Completions[k] = IF k <= Len(grpc) THEN grpc[k] ELSE workerQueue[k - Len(grpc)]
      BY <2>1, ConcatProperties DEF Completions
    <3> QED
      BY <2>1, <3>1, LenProperties
  <2>3. Has(grpc, "Read") \/ Has(workerQueue, "Read")
    BY DEF Flow, Started, Underway
  <2>4. CASE Has(grpc, "Read")
    <3>1. PICK k \in 1..Len(grpc) : Live(grpc[k], "Read")
      BY <2>2, <2>4 DEF Has
    <3>2. k \in DOMAIN Completions /\ Completions[k] = grpc[k]
      BY <2>2
    <3> QED
      BY <3>1, <3>2 DEF Live
  <2>5. CASE Has(workerQueue, "Read")
    <3>1. PICK k \in 1..Len(workerQueue) : Live(workerQueue[k], "Read")
      BY <2>2, <2>5 DEF Has
    <3>2. /\ Len(grpc) + k \in DOMAIN Completions /\ ~(Len(grpc) + k <= Len(grpc))
          /\ Len(grpc) + k - Len(grpc) = k
      BY <2>2
    <3>3. Completions[Len(grpc) + k] = workerQueue[k]
      BY <2>2, <3>2
    <3> QED
      BY <3>1, <3>2, <3>3 DEF Live
  <2> QED
    BY <2>3, <2>4, <2>5
<1> QED
  BY <1>1, FlowInvariant, PTL

----------------------------------------------------------------------------
(* The promise to the observer.                                             *)

\* How far the observer has come.
Phase ==
    IF after = "silent" \/ worker = "lastWrite" \/ (released /\ ~notified) THEN "silent"
    ELSE IF notified THEN "told"
    ELSE IF call = "idle" THEN "new" ELSE "open"

\* What an observer is served by one step.
Served ==
    \/ Phase = "new" /\ Phase' = "open" /\ delivered' = delivered
    \/ Phase = "open" /\ Phase' = "open" /\ delivered' = Append(delivered, Len(delivered) + 1)
    \/ Phase = "open" /\ Phase' = "told" /\ delivered' = delivered
    \/ Phase \in {"new", "open"} /\ Phase' = "silent" /\ delivered' = delivered
    \/ Phase = "open" /\ Phase' = "silent" /\ delivered' = Append(delivered, Len(delivered) + 1)
    \/ Phase' = Phase /\ delivered' = delivered

\* While nothing is delivered and nobody ends the stream, nothing is served.
LEMMA NothingServed ==
    ASSUME UNCHANGED <<after, released, notified, delivered>>,
           worker' = "lastWrite" <=> worker = "lastWrite", call' = "idle" <=> call = "idle"
    PROVE  Served
BY DEF Served, Phase

\* A worker that idles has ended nothing, unless the stream is deleted.
LEMMA IdlePhase ==
    ASSUME Flow, worker = "idle", released = FALSE
    PROVE  /\ after = "nothing" /\ notified = FALSE
           /\ Phase = IF call = "idle" THEN "new" ELSE "open"
BY DEF Flow, StreamInv, Flags, Ends, Phase

\* Each step of the worker serves the observer what it was promised.
LEMMA WorkerServes ==
    ASSUME Flow, Flow', WorkerStep
    PROVE  Served
<1>1. CASE CallFinished \/ CancelledCallFinished
  <2>1. /\ UNCHANGED <<after, released, notified, delivered, call>>
        /\ worker \in {"failing", "stopping"} /\ worker' \in {"idle", "draining"}
    BY <1>1 DEF CallFinished, CancelledCallFinished, OffQueue
  <2> QED
    BY <2>1, NothingServed
<1>2. CASE Released
  <2>1. /\ worker = "draining" /\ worker' = "idle" /\ after' = "nothing" /\ released' = TRUE
        /\ notified' = (after = "notify" /\ observer)
        /\ UNCHANGED <<call, delivered>>
    BY <1>2 DEF Released, OffQueue
  <2>2. after \in {"silent", "notify"} /\ released = FALSE /\ notified = FALSE /\ observer = TRUE
    BY <2>1 DEF Flow, StreamInv, Flags, Queues, Ends
  <2>3. CASE after = "silent"
    <3>1. Phase = "silent" /\ Phase' = "silent"
      BY <2>1, <2>3 DEF Phase
    <3> QED
      BY <2>1, <3>1 DEF Served
  <2>4. CASE after = "notify"
    <3>1. call # "idle"
      BY <2>4 DEF Flow, Ends
    <3>2. Phase = "open" /\ Phase' = "told"
      BY <2>1, <2>2, <2>4, <3>1 DEF Phase
    <3> QED
      BY <2>1, <3>2 DEF Served
  <2> QED
    BY <2>2, <2>3, <2>4
<1>3. CASE LastWriteWaited
  <2>1. /\ worker = "lastWrite" /\ after' = "silent" /\ delivered' = delivered
    BY <1>3 DEF LastWriteWaited, Shutdown, shown
  <2> QED
    BY <2>1 DEF Served, Phase
<1>4. CASE RunSilenced \/ OnWrite \/ OnOperationFailed
  <2>1. /\ UNCHANGED <<after, released, notified, delivered, call>>
        /\ worker = "idle" /\ worker' \in {"idle", "failing"}
    BY <1>4 DEF RunSilenced, OnWrite, OnOperationFailed, FinishGrpcCall, Run, shown
  <2> QED
    BY <2>1, NothingServed
<1>5. CASE OnRead \/ OnReadRejected
  <2>1. /\ worker = "idle" /\ workerQueue # <<>> /\ Head(workerQueue).callback
        /\ Head(workerQueue).ok /\ Head(workerQueue).onSuccess = "OnRead"
        /\ delivered' = Append(delivered, Head(workerQueue).message)
    BY <1>5 DEF OnRead, OnReadRejected, Run
  <2>2. /\ call # "idle" /\ released = FALSE
        /\ delivered' = Append(delivered, Len(delivered) + 1)
    BY <2>1, ReadFlows
  <2>3. Phase = "open"
    BY <2>1, <2>2, IdlePhase
  <2>4. CASE OnRead
    <3>1. UNCHANGED <<after, released, notified, call, worker>>
      BY <2>4 DEF OnRead, Run
    <3>2. Phase' = Phase
      BY <3>1 DEF Phase
    <3> QED
      BY <2>2, <2>3, <3>2 DEF Served
  <2>5. CASE OnReadRejected
    <3>1. after' = "silent"
      BY <2>5 DEF OnReadRejected, Shutdown
    <3>2. Phase' = "silent"
      BY <3>1 DEF Phase
    <3> QED
      BY <2>2, <2>3, <3>2 DEF Served
  <2> QED
    BY <1>5, <2>4, <2>5
<1>6. CASE OnFinish
  <2>1. /\ worker = "idle" /\ workerQueue # <<>> /\ Head(workerQueue).callback
        /\ UNCHANGED <<delivered, released, notified>>
        /\ worker' \in {"stopping", "draining"} /\ after' = "notify"
    BY <1>6 DEF OnFinish, Run, Shutdown, FinishGrpcCall
  <2>2. call # "idle" /\ call' # "idle" /\ released = FALSE
    BY <2>1, HeadFlows, Runs DEF Flow, Ends
  <2>3. Phase = "open" /\ notified = FALSE
    BY <2>1, <2>2, IdlePhase
  <2>4. Phase' = "open"
    BY <2>1, <2>2, <2>3 DEF Phase
  <2> QED
    BY <2>1, <2>3, <2>4 DEF Served
<1> QED
  BY <1>1, <1>2, <1>3, <1>4, <1>5, <1>6 DEF WorkerStep

\* So does each call of the owner.
LEMMA OwnerServes ==
    ASSUME Flow, Flow', Start \/ Write \/ FinishImmediately \/ FinishAndNotify \/ WriteAndFinish
    PROVE  Served
<1>1. /\ worker = "idle" /\ released = FALSE
      /\ UNCHANGED <<delivered, released, notified>>
  BY DEF Start, Write, FinishImmediately, FinishAndNotify, WriteAndFinish, Usable, shown, Flow,
         StreamInv, Flags
<1>2. /\ after = "nothing" /\ notified = FALSE
      /\ Phase = IF call = "idle" THEN "new" ELSE "open"
  BY <1>1, IdlePhase
<1>3. CASE Start
  <2>1. call = "idle" /\ call' = "running" /\ UNCHANGED <<worker, after>>
    BY <1>3 DEF Start
  <2>2. Phase = "new" /\ Phase' = "open"
    BY <1>1, <1>2, <2>1 DEF Phase
  <2> QED
    BY <1>1, <2>2 DEF Served
<1>4. CASE Write
  <2>1. UNCHANGED <<call, worker, after>>
    BY <1>4 DEF Write
  <2> QED
    BY <1>1, <2>1, NothingServed
<1>5. CASE FinishImmediately \/ WriteAndFinish
  <2>1. after' = "silent" \/ worker' = "lastWrite"
    BY <1>5 DEF FinishImmediately, WriteAndFinish, Shutdown
  <2>2. Phase \in {"new", "open"} /\ Phase' = "silent"
    BY <1>2, <2>1 DEF Phase
  <2> QED
    BY <1>1, <2>2 DEF Served
<1>6. CASE FinishAndNotify
  <2>1. after' = "notify" /\ call # "idle" /\ worker' \in {"stopping", "draining"}
    BY <1>6 DEF FinishAndNotify, Shutdown, FinishGrpcCall
  <2>2. call' # "idle"
    BY <2>1 DEF Flow, Ends
  <2>3. Phase = "open" /\ Phase' = "open"
    BY <1>1, <1>2, <2>1, <2>2 DEF Phase
  <2> QED
    BY <1>1, <2>3 DEF Served
<1> QED
  BY <1>3, <1>4, <1>5, <1>6

\* Every step of a stream is one of the promise's, or the observer does not
\* notice it.
LEMMA PromiseStep ==
    Flow /\ Flow' /\ [Next]_vars => [Promise!Next]_(Promise!observerVars)
<1> SUFFICES ASSUME Flow, Flow', [Next]_vars
             PROVE  [Promise!Next]_(Promise!observerVars)
  OBVIOUS
<1> SUFFICES Served
  BY DEF Served, Phase, Promise!Next, Promise!observerVars, Promise!OnStreamStart,
         Promise!OnStreamRead, Promise!OnStreamFinish, Promise!Quit, Promise!QuitOnRead
<1>1. CASE CallFails
  <2>1. /\ UNCHANGED <<after, released, notified, delivered, worker>>
        /\ call = "running" /\ call' = "failed"
    BY <1>1 DEF CallFails, shown
  <2> QED
    BY <2>1, NothingServed
<1>2. CASE \E k \in DOMAIN grpc, ok \in BOOLEAN : Complete(k, ok)
  <2>1. UNCHANGED <<after, released, notified, delivered, worker, call>>
    BY <1>2 DEF Complete, shown
  <2> QED
    BY <2>1, NothingServed
<1>3. CASE UNCHANGED vars
  <2>1. UNCHANGED <<after, released, notified, delivered, worker, call>>
    BY <1>3 DEF vars, shown
  <2> QED
    BY <2>1, NothingServed
<1> QED
  BY <1>1, <1>2, <1>3, WorkerServes, OwnerServes DEF Next

\* The stream implements what is promised to its observer: it hears of the
\* start, of the messages in their order without a gap, and of the end at most
\* once and last, in every interleaving of the owner, the worker and gRPC.
THEOREM StreamRefinesObserver == Spec => KeepsPromise
<1>1. Init => Promise!Init
  BY DEF Init, Promise!Init
<1> QED
  BY <1>1, PromiseStep, FlowInvariant, PTL DEF Spec, KeepsPromise, Promise!Spec
=============================================================================
