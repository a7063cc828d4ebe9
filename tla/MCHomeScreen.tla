---------------------------- MODULE MCHomeScreen ----------------------------
(* Instances of HomeScreen for TLC.                                         *)
EXTENDS HomeScreen

CONSTANTS home, away,     \* two positions
          clear, rain     \* two skies

\* One temperature on and one beside each border of the bands, in hundredths.
Borders == {-50, 800, 801, 1500, 1501, 2500, 2501, 3100, 3101}

\* A cold room and a warm one.
ColdAndWarm == {750, 2250}

\* Outside: a little below and well above freezing.
Outside == {270, 290}
=============================================================================
