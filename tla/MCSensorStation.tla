-------------------------- MODULE MCSensorStation ---------------------------
(* Instances of SensorStation for TLC.                                      *)
EXTENDS SensorStation
=============================================================================
