------------------------------- MODULE MCTekon -------------------------------
(* A ring of Ring records, small enough to turn while the model runs.      *)
EXTENDS Tekon

CONSTANT Ring

RingSlot(u) == u % Ring
=============================================================================
