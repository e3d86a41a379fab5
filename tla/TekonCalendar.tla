---------------------------- MODULE TekonCalendar ----------------------------
(***************************************************************************)
(* Which archive records ReadAllArchive of tecon_19.cpp asks a Tekon-19    *)
(* for, and which dates it writes against them, as functions of the local  *)
(* time.  The device keeps an hour ring of 64 days, a day table and a      *)
(* month ring of four years.  The only behaviour is the calendar: one step *)
(* is one hour of local time.                                              *)
(***************************************************************************)
EXTENDS Integers

CONSTANTS FirstYear,   \* tm_year of the first and of the last year looked
          LastYear,    \* at, counted from 1900 as in struct tm
          Span         \* the argument tp: how far back a walk goes, 5

ASSUME CalendarAssumption ==
  /\ FirstYear \in 100 .. 199      \* every fourth year of them is leap
  /\ LastYear \in FirstYear .. 199
  /\ Span \in Nat \ {0}

VARIABLES tm_year, tm_yday, tm_hour

vars == <<tm_year, tm_yday, tm_hour>>

-----------------------------------------------------------------------------
(* The calendar of struct tm.                                              *)

Leap(y) == y % 4 = 0

Days(y) == IF Leap(y) THEN 366 ELSE 365

(* tm_yday of the first day of each month.                                 *)
MonthStart(y) ==
  LET z == IF Leap(y) THEN 1 ELSE 0
  IN  <<0, 31, 59 + z, 90 + z, 120 + z, 151 + z, 181 + z, 212 + z, 243 + z,
        273 + z, 304 + z, 334 + z>>

(* tm_mon, from 0.                                                         *)
MonthOf(y, yd) ==
  CHOOSE m \in 0 .. 11 : /\ MonthStart(y)[m + 1] <= yd
                         /\ m = 11 \/ yd < MonthStart(y)[m + 2]

tm_mon == MonthOf(tm_year, tm_yday)

Init ==
  /\ tm_year = FirstYear
  /\ tm_yday = 0
  /\ tm_hour = 0

NextHour ==
  /\ tm_hour < 23
  /\ tm_hour' = tm_hour + 1
  /\ UNCHANGED <<tm_year, tm_yday>>

Midnight ==
  /\ tm_hour = 23
  /\ tm_yday < Days(tm_year) - 1
  /\ tm_hour' = 0
  /\ tm_yday' = tm_yday + 1
  /\ UNCHANGED tm_year

NewYear ==
  /\ tm_hour = 23
  /\ tm_yday = Days(tm_year) - 1
  /\ tm_year < LastYear
  /\ tm_hour' = 0
  /\ tm_yday' = 0
  /\ tm_year' = tm_year + 1

Next == NextHour \/ Midnight \/ NewYear

Spec == Init /\ [][Next]_vars

-----------------------------------------------------------------------------
(* Hour archive.                                                           *)

(* Mutant: the leap correction is taken in the leap years.                 *)
VskSwapped(y) == IF y % 4 = 0 THEN 1 ELSE 0

(* 2000 was a leap year that (tm_year-100)/4 does not count before 2004.   *)
Vsk(y) == IF y % 4 = 0 THEN 0 ELSE 1

DayCount(y, yd) == (y - 100) * 365 + (y - 100) \div 4 + yd + Vsk(y)

HourSlot(y, yd, h) == 24 * (DayCount(y, yd) % 64) + h

HourRing == 64 * 24

-----------------------------------------------------------------------------
(* Day archive.  The walk starts at the record of yesterday and steps back *)
(* one record and one date at a time.                                      *)

Yesterday ==
  IF tm_yday > 0 THEN [year |-> tm_year, yday |-> tm_yday - 1]
                 ELSE [year |-> tm_year - 1, yday |-> Days(tm_year - 1) - 1]

(* Mutant: the date is not stepped back with the record.                   *)
DayWalkOneDate ==
  LET top == Yesterday.yday - 1
      low == IF top > Span THEN top - Span ELSE 0
  IN  {[slot |-> i, date |-> Yesterday] : i \in low + 1 .. top}

(* Mutant: the loop runs down to record 0, while (index>=month).           *)
DayWalkInclusive ==
  LET top == Yesterday.yday - 1
      low == IF top > Span THEN top - Span ELSE 0
  IN  {[slot |-> i, date |-> [Yesterday EXCEPT !.yday = @ - (top - i)]] :
         i \in low .. top}

(* The record number is unsigned: on the second of January it is 2^32-1,   *)
(* and "index>365" ends the walk before anything is stored.                *)
DayWalk ==
  LET top == Yesterday.yday - 1
      low == IF top > Span THEN top - Span ELSE 0
  IN  {[slot |-> i, date |-> [Yesterday EXCEPT !.yday = @ - (top - i)]] :
         i \in low + 1 .. top}

-----------------------------------------------------------------------------
(* Month archive: one record, that of the month before.                    *)

MonthSlot ==
  LET now == (tm_year % 4) * 12 + tm_mon
  IN  IF now = 0 THEN 47 ELSE now - 1

MonthRing == 48

(* The year and the month (from 1) that may be written against MonthSlot.  *)
(* The year moves back only where the ring turns, and it does so in the    *)
(* struct that localtime shares: a log line before the date is formatted,  *)
(* of read_tekon or of another thread, puts the current year back.  The    *)
(* month is computed from the record number.                               *)
MonthDates ==
  LET ys == IF (tm_year % 4) * 12 + tm_mon = 0 THEN {tm_year - 1, tm_year}
                                               ELSE {tm_year}
  IN  {[year |-> y, month |-> MonthSlot - (y % 4) * 12 + 1] : y \in ys}

-----------------------------------------------------------------------------
(* The clock shows an hour of the calendar, and the record asked for it is *)
(* one of the ring: the address in the request never leaves the archive.   *)
TypeOK ==
  /\ tm_year \in FirstYear .. LastYear
  /\ tm_yday \in 0 .. Days(tm_year) - 1
  /\ tm_hour \in 0 .. 23
  /\ HourSlot(tm_year, tm_yday, tm_hour) \in 0 .. HourRing - 1

(* The hour records are numbered without a gap or a repetition from any    *)
(* hour to the next, over midnight, 31 December and 29 February; otherwise *)
(* the dates of the walk, which step by 3600 s, would slide against them.  *)
HourSlotAdvances ==
  [][HourSlot(tm_year, tm_yday, tm_hour)'
       = (HourSlot(tm_year, tm_yday, tm_hour) + 1) % HourRing]_vars

(* From one day's walk to the next the same date is read from the same     *)
(* record and a record keeps its date, so that a value that could not be   *)
(* read today is found again tomorrow; and the month records are numbered  *)
(* without a gap from month to month (tecon_19.cpp:297, :326).             *)
RecordsAdvance ==
  [][/\ \A p \in DayWalk, q \in DayWalk' : p.date = q.date <=> p.slot = q.slot
     /\ tm_mon' # tm_mon => MonthSlot' = (MonthSlot + 1) % MonthRing]_vars

(* Every day but the first two of a year is read on the day after it.  The *)
(* first two never are: the loop stops above record 0.                     *)
DayAfterDay ==
  (\E p \in DayWalk : p.date = Yesterday) <=> Yesterday.yday >= 2

(* From February to December a month value is dated with the month before. *)
(* In January it never is (December becomes month 0 of the new year), but  *)
(* for every fourth year, in which the ring turns: then it may be, if no   *)
(* log line has come between the step back and the date.  The disabled     *)
(* line 333 of tecon_19.cpp had December of the year before.               *)
MonthDateWrongInJanuary ==
  LET last == IF tm_mon = 0 THEN [year |-> tm_year - 1, month |-> 12]
                            ELSE [year |-> tm_year, month |-> tm_mon]
  IN  IF tm_mon = 0 /\ tm_year % 4 # 0 THEN last \notin MonthDates
      ELSE /\ last \in MonthDates
           /\ MonthDates = {last} <=> tm_mon # 0

(* What is read of the days and written of the months, and what of neither *)
(* (tecon_19.cpp:297, :343).                                               *)
DatesKeepPace == DayAfterDay /\ MonthDateWrongInJanuary
=============================================================================
