---------------------------- MODULE SampleJourney ----------------------------
(***************************************************************************)
(* What station and app together promise of a sample: it is sent to the    *)
(* collection or parked on the Raspberry Pi, never both, in the order of   *)
(* measurement; it is recorded before a newer one is kept; and a phone     *)
(* lists part of what was sent and, until it is started again, more and    *)
(* more of it.  A run may leave one sample unrecorded, the one it ends in. *)
(***************************************************************************)
EXTENDS Naturals, FiniteSets

CONSTANT Last   \* number of the last sample

VARIABLES
    sent,       \* samples in the collection
    parked,     \* samples in the offline file
    recorded,   \* samples in the file of all samples
    listed,     \* samples the app lists
    runs,       \* times the script was started
    launches    \* times the app was started

vars == <<sent, parked, recorded, listed, runs, launches>>

Kept == sent \cup parked

Init ==
    /\ sent = {} /\ parked = {} /\ recorded = {} /\ listed = {}
    /\ runs = 1 /\ launches = 1

\* A sample newer than all that are kept, behind which each run, this one
\* included, has left at most one unrecorded.
MayKeep(n) ==
    /\ \A k \in Kept : k < n
    /\ Cardinality((1..n) \ recorded) <= runs

Send(n) ==
    /\ MayKeep(n)
    /\ sent' = sent \cup {n}
    /\ UNCHANGED <<parked, recorded, listed, runs, launches>>

Park(n) ==
    /\ MayKeep(n)
    /\ parked' = parked \cup {n}
    /\ UNCHANGED <<sent, recorded, listed, runs, launches>>

\* Only the newest sample kept can still be recorded, and only once.
Record(n) ==
    /\ n \in Kept \ recorded
    /\ \A k \in Kept : k <= n
    /\ recorded' = recorded \cup {n}
    /\ UNCHANGED <<sent, parked, listed, runs, launches>>

RunAgain ==
    /\ runs' = runs + 1
    /\ UNCHANGED <<sent, parked, recorded, listed, launches>>

\* The app hears of more samples.
Learn ==
    /\ listed \subseteq listed'
    /\ listed' \subseteq sent
    /\ UNCHANGED <<sent, parked, recorded, runs, launches>>

\* A new launch of the app has to hear of all samples again.
Forget ==
    /\ launches' = launches + 1
    /\ listed' = {}
    /\ UNCHANGED <<sent, parked, recorded, runs>>

Next ==
    \/ \E n \in 1..Last : Send(n) \/ Park(n) \/ Record(n)
    \/ RunAgain
    \/ Learn
    \/ Forget

Spec == Init /\ [][Next]_vars
=============================================================================
