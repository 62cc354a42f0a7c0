---------------------------- MODULE MCLocalPython ----------------------------
(* Small instances of LocalPython for TLC. *)
EXTENDS LocalPython, TLC

CONSTANTS table, figure
=============================================================================
