--------------------------- MODULE MCTekonCalendar ---------------------------
(* Six years from 1 January 2008 hold two leap years, every turn of the    *)
(* month ring and 28 turns of the hour ring.                               *)
EXTENDS TekonCalendar
=============================================================================
