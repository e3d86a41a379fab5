--------------------------------- MODULE MCLk ---------------------------------
EXTENDS Lk
(* Two concentrators, both modules behind the first.                       *)
MCDevLk == <<[idd |-> 10, adr |-> 5], [idd |-> 11, adr |-> 6]>>
MCDevBit == <<[idd |-> 20, ids_lk |-> 5], [idd |-> 21, ids_lk |-> 5]>>
=============================================================================
