--------------------------- MODULE StreamObserver ---------------------------
(***************************************************************************)
(* What one gRPC stream promises the object that watches it                *)
(* (GrpcStreamObserver): it hears of the start once, then of the server's  *)
(* messages in their order without a gap, then of the end at most once,    *)
(* and of nothing after the end, whether it was told of it or asked for it.*)
(***************************************************************************)
EXTENDS Naturals, Sequences

VARIABLES
    phase,      \* "new", "open", then "told" or "silent"
    delivered   \* the messages the observer was given

observerVars == <<phase, delivered>>

Init == phase = "new" /\ delivered = <<>>

OnStreamStart ==
    /\ phase = "new"
    /\ phase' = "open"
    /\ UNCHANGED delivered

OnStreamRead ==
    /\ phase = "open"
    /\ delivered' = Append(delivered, Len(delivered) + 1)
    /\ UNCHANGED phase

OnStreamFinish ==
    /\ phase = "open"
    /\ phase' = "told"
    /\ UNCHANGED delivered

\* The owner ends the stream, and hears no more of it.
Quit ==
    /\ phase \in {"new", "open"}
    /\ phase' = "silent"
    /\ UNCHANGED delivered

\* The owner ends the stream because of the message it is given.
QuitOnRead ==
    /\ phase = "open"
    /\ phase' = "silent"
    /\ delivered' = Append(delivered, Len(delivered) + 1)

Next == OnStreamStart \/ OnStreamRead \/ OnStreamFinish \/ Quit \/ QuitOnRead

Spec == Init /\ [][Next]_observerVars
=============================================================================
