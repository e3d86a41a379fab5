--------------------------------- MODULE Line ---------------------------------
(***************************************************************************)
(* A half-duplex line between a driver and its devices, as the read        *)
(* functions of the drivers use it: a request is written, the driver       *)
(* sleeps, and then takes ALL the bytes that have come (FIONREAD).  An     *)
(* answer that comes after the read is still under way (flying) and is     *)
(* among the bytes of the next read, before its own answer, or is lost to  *)
(* a flush.  What kind of device answers and how is the instance's.        *)
(***************************************************************************)
EXTENDS Sequences

Noise == <<"noise">>

(* What may become of an answer: what is read at once, what comes later.   *)
Fate(answer, faults) ==
  {[got |-> <<answer>>, flying |-> <<>>]}
    \cup (IF "lost" \in faults
            THEN {[got |-> <<>>, flying |-> <<>>]} ELSE {})
    \cup (IF "late" \in faults
            THEN {[got |-> <<>>, flying |-> <<answer>>]} ELSE {})
    \cup (IF "garbled" \in faults
            THEN {[got |-> <<Noise>>, flying |-> <<>>]} ELSE {})

(* A request, and the read after it.                                       *)
Exchange(flying, answer, faults) ==
  {[got |-> early \o fate.got, flying |-> fate.flying] :
     early \in {<<>>, flying}, fate \in Fate(answer, faults)}

=============================================================================
