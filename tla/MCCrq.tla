-------------------------------- MODULE MCCrq --------------------------------
(* Crq for TLC: the runs differ in their constants only.                   *)
EXTENDS Crq
=============================================================================
