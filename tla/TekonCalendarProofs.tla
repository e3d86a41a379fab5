------------------------- MODULE TekonCalendarProofs -------------------------
(***************************************************************************)
(* The hour records of TekonCalendar are numbered without a gap in every   *)
(* year of the century the code's leap rule is right for.  The argument:   *)
(* the day count grows by one at every midnight, because the leap days     *)
(* that (tm_year-100)/4 and Vsk count together are exactly those passed.   *)
(* For the day and month records it is where a day lies in its year.       *)
(***************************************************************************)
EXTENDS TekonCalendar, TLAPS

(* Counting from one year to the next: the first day of a year follows the *)
(* last day of the year before.                                            *)
LEMMA YearTurn ==
  ASSUME NEW y \in 100 .. 198
  PROVE  DayCount(y + 1, 0) = DayCount(y, Days(y) - 1) + 1
<1>1. CASE y % 4 = 0
  <2>1. (y + 1) % 4 = 1 /\ (y - 99) \div 4 = (y - 100) \div 4
    BY <1>1
  <2> QED BY <1>1, <2>1 DEF DayCount, Vsk, Days, Leap
<1>2. CASE y % 4 = 3
  <2>1. (y + 1) % 4 = 0 /\ (y - 99) \div 4 = (y - 100) \div 4 + 1
    BY <1>2
  <2> QED BY <1>2, <2>1 DEF DayCount, Vsk, Days, Leap
<1>3. CASE y % 4 \in {1, 2}
  <2>1. (y + 1) % 4 # 0 /\ (y - 99) \div 4 = (y - 100) \div 4
    BY <1>3
  <2> QED BY <1>3, <2>1 DEF DayCount, Vsk, Days, Leap
<1> QED BY <1>1, <1>2, <1>3

LEMMA DayCountType ==
  ASSUME NEW y \in 100 .. 199, NEW yd \in Nat
  PROVE  DayCount(y, yd) \in Nat
BY DEF DayCount, Vsk

(* One more day is the next group of 24 records, or the first one again.   *)
LEMMA NextDaySlot ==
  ASSUME NEW c \in Nat
  PROVE  24 * ((c + 1) % 64) = (24 * (c % 64) + 23 + 1) % HourRing
<1>1. c % 64 \in 0 .. 63
  OBVIOUS
<1>2. CASE c % 64 = 63
  <2>1. (c + 1) % 64 = 0
    BY <1>2
  <2> QED BY <1>2, <2>1 DEF HourRing
<1>3. CASE c % 64 < 63
  <2>1. (c + 1) % 64 = (c % 64) + 1
    BY <1>3
  <2> QED BY <1>1, <1>3, <2>1 DEF HourRing
<1> QED BY <1>1, <1>2, <1>3

-----------------------------------------------------------------------------
(* The fields of struct tm alone are inductive.                            *)
CalendarOK ==
  /\ tm_year \in FirstYear .. LastYear
  /\ tm_yday \in 0 .. Days(tm_year) - 1
  /\ tm_hour \in 0 .. 23

(* An hour of the calendar has a record of the ring.                       *)
LEMMA SlotInRing == CalendarOK => TypeOK
<1> SUFFICES ASSUME CalendarOK
             PROVE  HourSlot(tm_year, tm_yday, tm_hour) \in 0 .. HourRing - 1
  BY DEF CalendarOK, TypeOK
<1>1. tm_year \in 100 .. 199 /\ tm_yday \in Nat /\ tm_hour \in 0 .. 23
  BY CalendarAssumption DEF CalendarOK
<1>2. DayCount(tm_year, tm_yday) \in Nat
  BY <1>1, DayCountType
<1>3. DayCount(tm_year, tm_yday) % 64 \in 0 .. 63
  BY <1>2
<1> QED BY <1>1, <1>3 DEF HourSlot, HourRing

(* The clock always shows a day of the calendar, and the hour record asked *)
(* for lies in the ring of the device.                                     *)
THEOREM CalendarType == Spec => []TypeOK
<1>1. Init => CalendarOK
  BY CalendarAssumption DEF Init, CalendarOK, Days
<1>2. CalendarOK /\ [Next]_vars => CalendarOK'
  BY CalendarAssumption
  DEF CalendarOK, Next, NextHour, Midnight, NewYear, vars, Days, Leap
<1> QED BY <1>1, <1>2, SlotInRing, PTL DEF Spec

(* HourSlotAdvances for every span of years up to 2099.                    *)
THEOREM HourRecords == Spec => HourSlotAdvances
<1>1. TypeOK /\ [Next]_vars
        => [HourSlot(tm_year, tm_yday, tm_hour)'
              = (HourSlot(tm_year, tm_yday, tm_hour) + 1) % HourRing]_vars
  <2> SUFFICES ASSUME TypeOK, Next
               PROVE  HourSlot(tm_year', tm_yday', tm_hour')
                        = (HourSlot(tm_year, tm_yday, tm_hour) + 1) % HourRing
    OBVIOUS
  <2> USE CalendarAssumption DEF TypeOK
  <2>1. tm_year \in 100 .. 199 /\ tm_yday \in Nat /\ tm_hour \in 0 .. 23
    OBVIOUS
  <2>2. DayCount(tm_year, tm_yday) \in Nat
    BY <2>1, DayCountType
  <2>3. CASE NextHour
    <3>1. DayCount(tm_year', tm_yday') = DayCount(tm_year, tm_yday)
      BY <2>3 DEF NextHour
    <3>2. DayCount(tm_year, tm_yday) % 64 \in 0 .. 63
      BY <2>2
    <3> QED BY <2>1, <2>3, <3>1, <3>2 DEF HourSlot, NextHour, HourRing
  <2>4. CASE Midnight
    <3>1. DayCount(tm_year', tm_yday') = DayCount(tm_year, tm_yday) + 1
      BY <2>1, <2>4 DEF Midnight, DayCount, Vsk
    <3> QED BY <2>2, <2>4, <3>1, NextDaySlot DEF HourSlot, Midnight
  <2>5. CASE NewYear
    <3>1. tm_year \in 100 .. 198
      BY <2>5 DEF NewYear
    <3>2. DayCount(tm_year', tm_yday') = DayCount(tm_year, tm_yday) + 1
      BY <2>5, <3>1, YearTurn DEF NewYear
    <3> QED BY <2>2, <2>5, <3>2, NextDaySlot DEF HourSlot, NewYear
  <2> QED BY <2>3, <2>4, <2>5 DEF Next
<1>2. Spec => []TypeOK
  BY CalendarType
<1> QED BY <1>1, <1>2, PTL DEF Spec, HourSlotAdvances

-----------------------------------------------------------------------------
(* A day and a month it lies in.                                           *)
LiesIn(y, yd, m) ==
  MonthStart(y)[m + 1] <= yd /\ (m = 11 \/ yd < MonthStart(y)[m + 2])

LEMMA Starts ==
  ASSUME NEW y \in 99 .. 199
  PROVE  \E z \in {0, 1} :
           /\ Days(y) = 365 + z
           /\ MonthStart(y)[1] = 0         /\ MonthStart(y)[2] = 31
           /\ MonthStart(y)[3] = 59 + z    /\ MonthStart(y)[4] = 90 + z
           /\ MonthStart(y)[5] = 120 + z   /\ MonthStart(y)[6] = 151 + z
           /\ MonthStart(y)[7] = 181 + z   /\ MonthStart(y)[8] = 212 + z
           /\ MonthStart(y)[9] = 243 + z   /\ MonthStart(y)[10] = 273 + z
           /\ MonthStart(y)[11] = 304 + z  /\ MonthStart(y)[12] = 334 + z
<1> DEFINE z == IF Leap(y) THEN 1 ELSE 0
<1>1. z \in {0, 1} /\ Days(y) = 365 + z
  BY DEF Days
<1>2. MonthStart(y) = <<0, 31, 59 + z, 90 + z, 120 + z, 151 + z, 181 + z, 212 + z, 243 + z,
                        273 + z, 304 + z, 334 + z>>
  BY DEF MonthStart
<1> HIDE DEF z
<1>3. QED BY <1>1, <1>2

(* Every day lies in a month, and the first and the last of a year in the  *)
(* first and the last one.                                                 *)
LEMMA AMonth ==
  ASSUME NEW y \in 99 .. 199, NEW yd \in 0 .. Days(y) - 1
  PROVE  /\ \E m \in 0 .. 11 : LiesIn(y, yd, m)
         /\ \A m \in 0 .. 11 : yd = 0 /\ LiesIn(y, yd, m) => m = 0
         /\ \A m \in 0 .. 11 : yd = Days(y) - 1 /\ LiesIn(y, yd, m) => m = 11
<1>1. PICK z \in {0, 1} :
        /\ Days(y) = 365 + z
        /\ MonthStart(y)[1] = 0         /\ MonthStart(y)[2] = 31
        /\ MonthStart(y)[3] = 59 + z    /\ MonthStart(y)[4] = 90 + z
        /\ MonthStart(y)[5] = 120 + z   /\ MonthStart(y)[6] = 151 + z
        /\ MonthStart(y)[7] = 181 + z   /\ MonthStart(y)[8] = 212 + z
        /\ MonthStart(y)[9] = 243 + z   /\ MonthStart(y)[10] = 273 + z
        /\ MonthStart(y)[11] = 304 + z  /\ MonthStart(y)[12] = 334 + z
  BY Starts
<1>2. \/ LiesIn(y, yd, 0) \/ LiesIn(y, yd, 1) \/ LiesIn(y, yd, 2) \/ LiesIn(y, yd, 3)
      \/ LiesIn(y, yd, 4) \/ LiesIn(y, yd, 5) \/ LiesIn(y, yd, 6) \/ LiesIn(y, yd, 7)
      \/ LiesIn(y, yd, 8) \/ LiesIn(y, yd, 9) \/ LiesIn(y, yd, 10) \/ LiesIn(y, yd, 11)
  BY <1>1 DEF LiesIn
<1>3. \A m \in 0 .. 11 : m \in {0, 1, 2, 3, 4, 5, 6, 7, 8, 9, 10, 11}
  OBVIOUS
<1>4. QED BY <1>1, <1>2, <1>3 DEF LiesIn

(* The next day lies in the same month or in the next one.                 *)
LEMMA NextMonth ==
  ASSUME NEW y \in 99 .. 199, NEW yd \in Nat, NEW m \in 0 .. 11, NEW n \in 0 .. 11,
         LiesIn(y, yd, m), LiesIn(y, yd + 1, n)
  PROVE  n \in {m, m + 1}
<1>1. PICK z \in {0, 1} :
        /\ Days(y) = 365 + z
        /\ MonthStart(y)[1] = 0         /\ MonthStart(y)[2] = 31
        /\ MonthStart(y)[3] = 59 + z    /\ MonthStart(y)[4] = 90 + z
        /\ MonthStart(y)[5] = 120 + z   /\ MonthStart(y)[6] = 151 + z
        /\ MonthStart(y)[7] = 181 + z   /\ MonthStart(y)[8] = 212 + z
        /\ MonthStart(y)[9] = 243 + z   /\ MonthStart(y)[10] = 273 + z
        /\ MonthStart(y)[11] = 304 + z  /\ MonthStart(y)[12] = 334 + z
  BY Starts
<1>2. m \in {0, 1, 2, 3, 4, 5, 6, 7, 8, 9, 10, 11} /\ n \in {0, 1, 2, 3, 4, 5, 6, 7, 8, 9, 10, 11}
  OBVIOUS
<1>3. QED BY <1>1, <1>2 DEF LiesIn

(* What the walk and the month are, in a state of the calendar.            *)
WalkShape ==
  /\ \A p \in DayWalk : /\ p.slot \in Nat \ {0}
                        /\ p.date = [year |-> Yesterday.year, yday |-> p.slot + 1]
  /\ tm_yday = 1 => DayWalk = {}
  /\ tm_yday > 0 => Yesterday.year = tm_year
  /\ tm_yday = 0 => Yesterday.year = tm_year - 1
  /\ tm_mon \in 0 .. 11 /\ LiesIn(tm_year, tm_yday, tm_mon)

LEMMA Shape == CalendarOK => WalkShape
<1> SUFFICES ASSUME CalendarOK PROVE WalkShape
  OBVIOUS
<1>1. tm_year \in 100 .. 199 /\ tm_yday \in 0 .. Days(tm_year) - 1 /\ tm_yday \in Nat
  <2>1. Days(tm_year) \in {365, 366}
    BY DEF Days
  <2>2. QED BY <2>1, CalendarAssumption DEF CalendarOK
<1>2. /\ Yesterday = [year |-> Yesterday.year, yday |-> Yesterday.yday]
      /\ Yesterday.yday \in Nat /\ (tm_yday = 1 => Yesterday.yday = 0)
      /\ tm_yday > 0 => Yesterday.year = tm_year
      /\ tm_yday = 0 => Yesterday.year = tm_year - 1
  BY <1>1 DEF Yesterday, Days
<1> DEFINE top == Yesterday.yday - 1
           low == IF top > Span THEN top - Span ELSE 0
<1>3. DayWalk = {[slot |-> i, date |-> [Yesterday EXCEPT !.yday = @ - (top - i)]] :
                   i \in low + 1 .. top}
  BY DEF DayWalk
<1>4. low \in Nat /\ top \in Int
  BY <1>2, CalendarAssumption
<1>5. ASSUME NEW p \in DayWalk
      PROVE  p.slot \in Nat \ {0} /\ p.date = [year |-> Yesterday.year, yday |-> p.slot + 1]
  <2>1. PICK i \in low + 1 .. top :
          p = [slot |-> i, date |-> [Yesterday EXCEPT !.yday = Yesterday.yday - (top - i)]]
    BY <1>3, <1>5
  <2>2. i \in Nat \ {0} /\ Yesterday.yday - (top - i) = i + 1
    BY <1>2, <1>4
  <2>3. [Yesterday EXCEPT !.yday = i + 1] = [year |-> Yesterday.year, yday |-> i + 1]
    BY <1>2
  <2>4. QED BY <2>1, <2>2, <2>3
<1>6. tm_yday = 1 => DayWalk = {}
  BY <1>2, <1>3, <1>4
<1>7. \E m \in 0 .. 11 : LiesIn(tm_year, tm_yday, m)
  <2>1. tm_year \in 99 .. 199
    BY <1>1
  <2>2. QED BY <1>1, <2>1, AMonth, Zenon
<1>8. tm_mon \in 0 .. 11 /\ LiesIn(tm_year, tm_yday, tm_mon)
  BY <1>7 DEF tm_mon, MonthOf, LiesIn
<1>9. QED BY <1>2, <1>5, <1>6, <1>8 DEF WalkShape

LEMMA InCalendar == Spec => [](CalendarOK /\ WalkShape)
<1>1. Init => CalendarOK
  BY CalendarAssumption DEF Init, CalendarOK, Days
<1>2. CalendarOK /\ [Next]_vars => CalendarOK'
  BY CalendarAssumption
  DEF CalendarOK, Next, NextHour, Midnight, NewYear, vars, Days, Leap
<1>3. QED BY <1>1, <1>2, Shape, PTL DEF Spec

(* The day records keep their dates from one walk to the next, and the     *)
(* month records go on by one, for every span of years up to 2099.         *)
THEOREM DayAndMonthRecords == Spec => RecordsAdvance
<1> DEFINE Advance ==
      /\ \A p \in DayWalk, q \in DayWalk' : p.date = q.date <=> p.slot = q.slot
      /\ tm_mon' # tm_mon => MonthSlot' = (MonthSlot + 1) % MonthRing
<1>1. CalendarOK /\ WalkShape /\ CalendarOK' /\ WalkShape' /\ [Next]_vars => [Advance]_vars
  <2> SUFFICES ASSUME CalendarOK, WalkShape, CalendarOK', WalkShape', Next PROVE Advance
    OBVIOUS
  <2>1. /\ tm_year \in 100 .. 199 /\ tm_yday \in Nat /\ tm_yday \in 0 .. Days(tm_year) - 1
        /\ tm_year' \in 100 .. 199 /\ tm_yday' \in Nat
        /\ tm_yday' \in 0 .. Days(tm_year') - 1
    <3>1. \A y \in Int : Days(y) \in {365, 366}
      BY DEF Days
    <3>2. QED BY <3>1, CalendarAssumption DEF CalendarOK
  <2>2. \A p \in DayWalk, q \in DayWalk' : p.date = q.date <=> p.slot = q.slot
    <3> SUFFICES ASSUME NEW p \in DayWalk, NEW q \in DayWalk'
                 PROVE  p.date = q.date <=> p.slot = q.slot
      OBVIOUS
    <3>1. tm_yday' # 1
      BY DEF WalkShape
    <3>2. Yesterday'.year = Yesterday.year
      <4>1. /\ tm_yday > 0 => Yesterday.year = tm_year
            /\ tm_yday = 0 => Yesterday.year = tm_year - 1
            /\ tm_yday' > 0 => Yesterday'.year = tm_year'
            /\ tm_yday' = 0 => Yesterday'.year = tm_year' - 1
        BY DEF WalkShape
      <4>2. CASE NextHour
        BY <2>1, <4>1, <4>2 DEF NextHour
      <4>3. CASE Midnight
        BY <2>1, <3>1, <4>1, <4>3 DEF Midnight
      <4>4. CASE NewYear
        <5>1. tm_yday > 0
          BY <2>1, <4>4 DEF NewYear, Days
        <5>2. QED BY <2>1, <4>1, <4>4, <5>1 DEF NewYear
      <4>5. QED BY <4>2, <4>3, <4>4 DEF Next
    <3>3. /\ p.date = [year |-> Yesterday.year, yday |-> p.slot + 1] /\ p.slot \in Nat
          /\ q.date = [year |-> Yesterday.year, yday |-> q.slot + 1] /\ q.slot \in Nat
      BY <3>2 DEF WalkShape
    <3>4. QED BY <3>3
  <2>3. ASSUME tm_mon' # tm_mon PROVE MonthSlot' = (MonthSlot + 1) % MonthRing
    <3>1. /\ tm_mon \in 0 .. 11 /\ LiesIn(tm_year, tm_yday, tm_mon)
          /\ tm_mon' \in 0 .. 11 /\ LiesIn(tm_year', tm_yday', tm_mon')
      BY DEF WalkShape
    <3>2. CASE NextHour
      BY <2>3, <3>2 DEF NextHour, tm_mon
    <3>3. CASE Midnight
      <4>1. tm_mon' = tm_mon + 1 /\ tm_year' = tm_year
        <5>1. tm_year \in 99 .. 199 /\ tm_year' = tm_year /\ tm_yday' = tm_yday + 1
          BY <2>1, <3>3 DEF Midnight
        <5>2. LiesIn(tm_year, tm_yday + 1, tm_mon')
          BY <3>1, <5>1
        <5>3. tm_mon' \in {tm_mon, tm_mon + 1}
          BY <2>1, <3>1, <5>1, <5>2, NextMonth, Zenon
        <5>4. QED BY <2>3, <5>1, <5>3
      <4>2. QED BY <2>1, <3>1, <4>1 DEF MonthSlot, MonthRing
    <3>4. CASE NewYear
      <4>1. tm_mon = 11 /\ tm_mon' = 0 /\ tm_year' = tm_year + 1
        <5>1. /\ tm_year \in 99 .. 199 /\ tm_year' \in 99 .. 199
              /\ tm_yday = Days(tm_year) - 1 /\ tm_yday' = 0 /\ tm_year' = tm_year + 1
          BY <2>1, <3>4 DEF NewYear
        <5>2. tm_mon = 11
          BY <2>1, <3>1, <5>1, AMonth, Zenon
        <5>3. tm_mon' = 0
          BY <2>1, <3>1, <5>1, AMonth, Zenon
        <5>4. QED BY <5>1, <5>2, <5>3
      <4>2. CASE tm_year % 4 = 3
        <5>1. (tm_year + 1) % 4 = 0
          BY <2>1, <4>2
        <5>2. MonthSlot = 46 /\ MonthSlot' = 47
          BY <2>1, <4>1, <4>2, <5>1 DEF MonthSlot
        <5>3. QED BY <5>2 DEF MonthRing
      <4>3. CASE tm_year % 4 \in {0, 1, 2}
        <5>1. (tm_year + 1) % 4 = (tm_year % 4) + 1
          BY <2>1, <4>3
        <5>2. MonthSlot = 12 * (tm_year % 4) + 10 /\ MonthSlot' = 12 * (tm_year % 4) + 11
          BY <2>1, <4>1, <4>3, <5>1 DEF MonthSlot
        <5>3. QED BY <4>3, <5>2 DEF MonthRing
      <4>4. QED BY <2>1, <4>2, <4>3
    <3>5. QED BY <3>2, <3>3, <3>4 DEF Next
  <2>4. QED BY <2>2, <2>3
<1>2. QED BY InCalendar, <1>1, PTL DEF Spec, RecordsAdvance

(* Yesterday is a date of the walk from the third day of a year on.        *)
LEMMA DaysOn == CalendarOK => DayAfterDay
<1> SUFFICES ASSUME CalendarOK PROVE DayAfterDay
  OBVIOUS
<1>1. /\ Yesterday.yday \in Nat
      /\ Yesterday = [year |-> Yesterday.year, yday |-> Yesterday.yday]
  <2>1. tm_year \in 100 .. 199 /\ tm_yday \in Nat
    <3>1. Days(tm_year) \in {365, 366}
      BY DEF Days
    <3>2. QED BY <3>1, CalendarAssumption DEF CalendarOK
  <2>2. QED BY <2>1 DEF Yesterday, Days
<1>2. ASSUME NEW p \in DayWalk, p.date = Yesterday PROVE Yesterday.yday >= 2
  <2>1. WalkShape
    BY Shape
  <2>2. /\ p.slot \in Nat \ {0}
        /\ p.date = [year |-> Yesterday.year, yday |-> p.slot + 1]
    BY <1>2, <2>1 DEF WalkShape
  <2>3. QED BY <1>2, <2>2
<1>3. ASSUME Yesterday.yday >= 2 PROVE \E p \in DayWalk : p.date = Yesterday
  <2> DEFINE top == Yesterday.yday - 1
             low == IF top > Span THEN top - Span ELSE 0
             date == [Yesterday EXCEPT !.yday = @ - (top - top)]
  <2>1. top \in low + 1 .. top
    BY <1>1, <1>3, CalendarAssumption
  <2>2. DayWalk = {[slot |-> i, date |-> [Yesterday EXCEPT !.yday = @ - (top - i)]] :
                     i \in low + 1 .. top}
    BY DEF DayWalk
  <2>3. [slot |-> top, date |-> date] \in DayWalk
    BY <2>1, <2>2
  <2>4. date = Yesterday
    BY <1>1
  <2>5. QED BY <2>3, <2>4
<1>4. QED BY <1>2, <1>3 DEF DayAfterDay

(* The month written against a record is the one before, but in January.   *)
LEMMA MonthsOn == CalendarOK => MonthDateWrongInJanuary
<1> SUFFICES ASSUME CalendarOK PROVE MonthDateWrongInJanuary
  OBVIOUS
<1>1. tm_year \in 100 .. 199 /\ tm_mon \in 0 .. 11
  BY Shape, CalendarAssumption DEF WalkShape, CalendarOK
<1> DEFINE Dated(y) == [year |-> y, month |-> MonthSlot - (y % 4) * 12 + 1]
<1>2. CASE tm_mon # 0
  <2>1. MonthSlot = 12 * (tm_year % 4) + tm_mon - 1 /\ (tm_year % 4) * 12 + tm_mon # 0
    BY <1>1, <1>2 DEF MonthSlot
  <2>2. MonthDates = {Dated(tm_year)}
    BY <2>1 DEF MonthDates
  <2>3. Dated(tm_year) = [year |-> tm_year, month |-> tm_mon]
    BY <1>1, <2>1
  <2>4. QED BY <1>2, <2>2, <2>3 DEF MonthDateWrongInJanuary
<1>3. CASE tm_mon = 0 /\ tm_year % 4 # 0
  <2>1. (tm_year % 4) * 12 + tm_mon # 0
    BY <1>1, <1>3
  <2>2. MonthDates = {Dated(tm_year)}
    BY <2>1 DEF MonthDates
  <2>3. [year |-> tm_year - 1, month |-> 12].year # Dated(tm_year).year
    BY <1>1
  <2>4. QED BY <1>3, <2>2, <2>3 DEF MonthDateWrongInJanuary
<1>4. CASE tm_mon = 0 /\ tm_year % 4 = 0
  <2>1. (tm_year % 4) * 12 + tm_mon = 0 /\ MonthSlot = 47
    BY <1>1, <1>4 DEF MonthSlot
  <2>2. MonthDates = {Dated(tm_year - 1), Dated(tm_year)}
    BY <2>1 DEF MonthDates
  <2>3. Dated(tm_year - 1) = [year |-> tm_year - 1, month |-> 12]
    <3>1. (tm_year - 1) % 4 = 3
      BY <1>1, <1>4
    <3>2. QED BY <2>1, <3>1
  <2>4. [year |-> tm_year - 1, month |-> 12].year # Dated(tm_year).year
    BY <1>1
  <2>5. QED BY <1>4, <2>2, <2>3, <2>4 DEF MonthDateWrongInJanuary
<1>5. QED BY <1>2, <1>3, <1>4

(* What is read of the days and written of the months, and what of neither *)
(* (tecon_19.cpp:297, :343), for every span of years up to 2099.           *)
THEOREM DaysAndMonths == Spec => []DatesKeepPace
BY InCalendar, DaysOn, MonthsOn, PTL DEF DatesKeepPace

=============================================================================
