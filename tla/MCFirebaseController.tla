------------------------ MODULE MCFirebaseController ------------------------
(* Instances of FirebaseController for TLC.                                 *)
EXTENDS FirebaseController, TLC

CONSTANTS
    d1, d2, d3,        \* document ids
    good, changed,     \* two contents that parse
    bad,               \* a content with a field missing
    home, history      \* two screens

\* Ids and screens are interchangeable; used in safety runs only.
Symmetry == Permutations(DocId) \cup Permutations(Listener)
=============================================================================
