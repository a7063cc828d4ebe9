------------------------------ MODULE MCScreens ------------------------------
(* Instance of Screens for TLC: readings at two times; the temperature of    *)
(* the earlier ones is not a number, which only the home screen minds.       *)
EXTENDS Screens, TLC

MCTime == [c \in Content |-> IF c = "early" THEN 10 ELSE 11]
MCNumbers == [c \in Content |-> IF c = "early" THEN Part \ {"temperature"} ELSE Part]
MCSymmetry == Permutations(DocId)
MCNoReading == [id |-> "none"]
============================================================================
