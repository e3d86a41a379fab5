------------------------------- MODULE Ledger -------------------------------
(***************************************************************************)
(* What an archive of readings promises: for every channel and hour there  *)
(* is at most one entry, it is the reading of that channel in that hour,   *)
(* and once made it is never changed or lost.                              *)
(***************************************************************************)
CONSTANTS Channels, Units, None, Reading(_, _)

VARIABLE book

Init == book = [c \in Channels |-> [u \in Units |-> None]]

Enter(c, u) ==
  /\ book[c][u] = None
  /\ book' = [book EXCEPT ![c][u] = Reading(c, u)]

Next == \E c \in Channels, u \in Units : Enter(c, u)

Spec == Init /\ [][Next]_book
=============================================================================
