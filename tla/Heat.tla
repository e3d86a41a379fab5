--------------------------------- MODULE Heat ---------------------------------
(***************************************************************************)
(* The drivers of the heat meters, one of them in a behaviour, and what    *)
(* their archives are worth when answers are lost, late, wrong or refused. *)
(***************************************************************************)
EXTENDS Km5, Vkt, Irp

vars == <<heatVars, vktVars>>

TypeOK ==
  /\ driver \in {"km5", "vkt", "irp"} /\ now \in Span[driver] /\ rest \in 0 .. 2
  /\ at \in 1 .. CASE driver = "km5" -> Len(KmTable)
                   [] driver = "irp" -> Len(DevIrp)
                   [] driver = "vkt" -> 1
  /\ left >= 1 /\ left <= (IF pc \in {"info", "greet", "drain", "current"} THEN 2 ELSE Depth)
  /\ Len(flying) <= 1
  /\ \A w, x \in rows : w.key = x.key => w = x
  /\ budget \in 0 .. MaxFaults[driver]
  /\ dead \subseteq DOMAIN errors /\ alarmed \subseteq DOMAIN errors

Init ==
  \/ KmInit /\ meter = [list |-> "none", type |-> "none", date |-> 0]
  \/ IrpInit /\ meter = [list |-> "none", type |-> "none", date |-> 0]
  \/ VktInit

Driver == (KmNext /\ UNCHANGED vktVars) \/ VktNext \/ (IrpNext /\ UNCHANGED vktVars)
World == (Tick \/ Die) /\ UNCHANGED vktVars
Stopped == (pc = "gone" \/ VktHung) /\ UNCHANGED vars
Next == Driver \/ World \/ Stopped

Spec == Init /\ [][Next]_vars /\ WF_vars(Driver)

-----------------------------------------------------------------------------
(* The date of an archive row of a driver, from the record's number.       *)
Dated(kind, n) == IF driver = "km5" THEN KmDate(kind, n) ELSE n

Own(w) ==
  /\ w.value.dev = w.key.dev /\ w.value.kind = w.key.kind
  /\ Dated(w.value.kind, w.value.n) = w.key.date

(* Whatever answers are lost, come late or are garbled, a KM-5's row of an *)
(* hour, a day or a month is a record of its meter, of this kind and of    *)
(* its date, though nothing compares answers with requests (km_5.cpp:631): *)
(* between two walks the number of the newest record is asked for.         *)
KmArchivesAreOwn ==
  driver = "km5" =>
    \A w \in rows : w.key.kind \in {"hour", "day", "month"} /\ w.key.pipe # 0 => Own(w)

(* The value of an hour is that of the hour, except that a row of hour 0   *)
(* may be of the hour before, whose label is 0 as well (km_5.cpp:205).     *)
HoursAreTrue ==
  driver = "km5" =>
    \A w \in rows : w.key.kind = "hour" /\ w.key.pipe # 0 =>
      \/ w.value.n = w.key.date
      \/ w.key.date % HoursPerDay = 0 /\ w.value.n = w.key.date - 1

(* As long as no answer was lost, a difference of two pipes spans an hour, *)
(* but two at most in the second hour of a day, before which one may be    *)
(* missing, and in the first, if the walk that began with it labelled it 0 *)
(* (the SELECT of km_5.cpp:220 takes whatever row came before).            *)
DifferencesSpanAnHour ==
  driver = "km5" /\ hurt = {} /\ dead = {} =>
    \A w \in rows : w.key.kind = "hour" /\ w.key.pipe = 0 =>
      w.value.n - w.value.since <= (IF w.key.date % HoursPerDay \in {0, 1} THEN 2 ELSE 1)

(* What an archive row of a KM-5 is worth.                                 *)
KmRowsAreTrue == KmArchivesAreOwn /\ HoursAreTrue /\ DifferencesSpanAnHour

(* Though one answer comes late, a day of an IRP is a day of the same      *)
(* meter, and the address in an answer is not compared (irp.cpp:497): it   *)
(* takes two in a row for a wrong one.                                     *)
IrpDaysAreOwn ==
  driver = "irp" => \A w \in rows : w.key.kind = "day" => Own(w)

(* The technical and the current values are the meter's own unless an      *)
(* answer came late.                                                       *)
IrpValuesAreOwn ==
  driver = "irp" /\ "late" \notin hurt =>
    \A w \in rows : w.value.dev = w.key.dev /\ w.value.kind = w.key.kind

(* What a row of an IRP is worth.                                          *)
IrpRowsAreOwn == IrpDaysAreOwn /\ IrpValuesAreOwn

(* The VKT-7 may refuse dates, those it has no record of and others: a row *)
(* is of the kind and the date it is stored under unless a call was        *)
(* refused whose result is not looked at (vkt.cpp:327, :353, :384).        *)
RefusedDatesAreHarmless ==
  driver = "vkt" /\ hurt \subseteq {"date", "greeting"} =>
    \A w \in rows : w.key.kind \in {"hour", "day"} => Own(w)

-----------------------------------------------------------------------------
Archived(d, pipe, kind, date) ==
  \E w \in rows : w.key = Key(d, pipe, kind, date)

(* If there is a port, each hour a KM-5 has closed gets a row in each      *)
(* channel, or drops out of the reach of the walk, or the meter has fallen *)
(* silent.                                                                 *)
HoursArrive ==
  \A c \in DOMAIN KmTable, n \in Span["km5"] :
    (driver = "km5" /\ pc # "gone" /\ n = now - 1) ~>
      \/ Archived(KmTable[c].dev, KmTable[c].pipe, "hour", KmDate("hour", n))
      \/ n < now - Depth \/ KmTable[c].dev \in dead

(* Each day an IRP has closed has its row three days later, as long as no  *)
(* answer is lost and the meter is alive, but for the first and the last   *)
(* place of the ring, which no walk gets to (irp.cpp:264), and the last    *)
(* days of a year, which the test of the year refuses when the new one has *)
(* come (irp.cpp:730).                                                     *)
DaysArrive ==
  \A r \in DOMAIN DevIrp, n \in {m - 3 : m \in Span["irp"]} :
    n % Places \notin {0, Places - 1} /\ n \div DaysPerYear = (n + 3) \div DaysPerYear =>
      (driver = "irp" /\ now = n + 3) ~>
        \/ Archived(DevIrp[r], 0, "day", n)
        \/ hurt # {} \/ dead # {}

(* What a meter has closed gets its row (km_5.cpp:195, irp.cpp:264).       *)
RecordsArrive == HoursArrive /\ DaysArrive

(* If there is a port, a KM-5 that falls silent is noticed: Events is      *)
(* called once its errors are many, though its body is commented out and   *)
(* it keeps nothing of the call (func.cpp:72).                             *)
KmSilenceIsNoticed ==
  \A d \in KmMeters :
    (driver = "km5" /\ pc # "gone" /\ d \in dead) ~> (d \in alarmed)

(* An IRP is noticed when it falls silent just before its current values   *)
(* are asked for and no answer of another meter is under way; the count of *)
(* three a round (irp.cpp:221, :313, :439) misses the sixth otherwise.     *)
IrpSilenceIsNoticed ==
  \A d \in IrpMeters :
    (/\ driver = "irp" /\ d \in dead /\ errors[d] = 0 /\ pc = "current" /\ Irp = d
     /\ budget = 0 /\ flying = <<>>) ~> (d \in alarmed)

(* A meter that falls silent is noticed (km_5.cpp:135, irp.cpp:439).       *)
SilenceIsNoticed == KmSilenceIsNoticed /\ IrpSilenceIsNoticed
=============================================================================
