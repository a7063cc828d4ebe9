----------------------------- MODULE MCEndToEnd -----------------------------
(* Instance of EndToEnd for TLC.                                            *)
EXTENDS EndToEnd
=============================================================================
