------------------------------- MODULE MCClock -------------------------------
(* Clock for TLC: the runs differ in their constants only.                 *)
EXTENDS Clock
=============================================================================
