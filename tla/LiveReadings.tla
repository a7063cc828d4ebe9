---------------------------- MODULE LiveReadings ----------------------------
(***************************************************************************)
(* What the live list of readings promises its screens while readings are  *)
(* only added: the app knows a growing part of what is stored, a screen    *)
(* shows a part the app knew at some moment of this launch, and catches up *)
(* with all that is known whenever it is refreshed.  So any two screens    *)
(* show nested sets, and nothing leaves a screen short of a restart.       *)
(***************************************************************************)
CONSTANTS Reading, Screen

VARIABLES
    stored,      \* readings in the database
    known,       \* readings the running app has parsed
    shown        \* what each screen was last given

vars == <<stored, known, shown>>

Init ==
    /\ stored = {}
    /\ known = {}
    /\ shown = [s \in Screen |-> {}]

Store ==
    /\ \E r \in Reading \ stored : stored' = stored \cup {r}
    /\ UNCHANGED <<known, shown>>

\* The app learns of more stored readings and refreshes some screens.
Learn ==
    /\ known \subseteq known'
    /\ known' \subseteq stored
    /\ \E on \in SUBSET Screen :
           shown' = [s \in Screen |-> IF s \in on THEN known' ELSE shown[s]]
    /\ UNCHANGED stored

\* A new launch has to learn everything again.
Restart ==
    /\ known' = {}
    /\ shown' = [s \in Screen |-> {}]
    /\ UNCHANGED stored

Next == Store \/ Learn \/ Restart

Spec == Init /\ [][Next]_vars
=============================================================================
