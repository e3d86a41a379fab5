--------------------------------- MODULE Vkt ----------------------------------
(***************************************************************************)
(* The driver of a VKT-7 heat meter over TCP, vkt.cpp.  It writes a list   *)
(* of elements and a type of archive into the meter, then for each date    *)
(* backwards from now the date, and reads the record.  The row gets the    *)
(* date that was asked for.  Answers come in order; a meter refuses a date *)
(* it has no record of, and may refuse other calls.  The type of the next  *)
(* walk and the list are in the meter, the last record in an array.        *)
(***************************************************************************)
EXTENDS HeatBase

CONSTANT DevVkt        \* the device in dev_vkt: with its address overwritten
                       \* (ReadTime sets 1) there is no use for a second one

ASSUME VktAssumption == DevVkt \in Nat

VARIABLE meter         \* in the meter: the list, the type and the date written last

vktVars == <<meter>>

Parts == <<"hour", "day", "total">>
VktKind == Parts[step]

(* The records of the meter, and a date in hours as one of its archive's.  *)
Complete(kind) == IF kind = "hour" THEN now - 1 ELSE now \div HoursPerDay - 1
Place(kind, hour) == IF kind = "hour" THEN hour ELSE hour \div HoursPerDay
Known(kind, hour) == kind \in {"hour", "day"} /\ Place(kind, hour) \in 0 .. Complete(kind)

(* Mutant: whatever it answers to a date, the meter is read.               *)
SkipsNever(call) == FALSE

(* write_input_registers returns 0 for an exception, 0x90, and that is the *)
(* one result ReadData looks at.                                           *)
Skips(call) == call = "refused"

(* A call: it is answered, refused by accident, or the thread waits for    *)
(* ever in the read of the socket.                                         *)
Call(call, accident) ==
  /\ DevVkt \notin dead
  /\ \/ call = "answered" /\ UNCHANGED <<budget, hurt>>
     \/ /\ call = "refused" /\ budget > 0 /\ "refused" \in Faults
        /\ budget' = budget - 1 /\ hurt' = hurt \cup {accident}
  /\ UNCHANGED <<flying, dead>>

-----------------------------------------------------------------------------
(* ConnectVKT: the result is not looked at, and the first write to a       *)
(* socket that is not connected ends the process.                          *)
VktConnected == {"greet", "gone"}

(* LoadVKTConfig: a meter for a device in dev_vkt that the process knows.  *)
VktMeters == {DevVkt}

VktInit ==
  /\ HeatInit("vkt", VktMeters) /\ dead = {}
  /\ pc \in VktConnected /\ step = 2 /\ left = 2
  /\ meter = [list |-> "none", type |-> "none", date |-> 0]

(* ReadVersion, ReadTime.                                                  *)
VktGreet ==
  /\ driver = "vkt" /\ pc = "greet"
  /\ \E call \in {"answered", "refused"} : Call(call, "greeting")
  /\ IF left = 2 THEN left' = 1 /\ UNCHANGED pc ELSE pc' = "list" /\ UNCHANGED left
  /\ UNCHANGED <<driver, now, rest, at, step, asked, buffer, rows, errors, alarmed, meter>>

(* ReadData: the list of elements.  The result is not looked at.           *)
VktList ==
  /\ driver = "vkt" /\ pc = "list"
  /\ \E call \in {"answered", "refused"} :
       /\ Call(call, "list")
       /\ meter' = IF call = "refused" THEN meter
                   ELSE [meter EXCEPT !.list = IF VktKind = "total" THEN "total" ELSE "archive"]
  /\ pc' = "type"
  /\ UNCHANGED <<driver, now, rest, at, step, left, asked, buffer, rows, errors, alarmed>>

(* ReadData: the type of archive, without a look at the result either;     *)
(* the array is cleared, and the walk starts at the hour that is running.  *)
VktType ==
  /\ driver = "vkt" /\ pc = "type"
  /\ \E call \in {"answered", "refused"} :
       /\ Call(call, "type")
       /\ meter' = IF call = "refused" THEN meter ELSE [meter EXCEPT !.type = VktKind]
  /\ buffer' = Junk /\ asked' = now
  /\ left' = IF VktKind = "total" THEN 1 ELSE Depth
  /\ pc' = IF VktKind = "total" THEN "data" ELSE "date"
  /\ UNCHANGED <<driver, now, rest, at, step, rows, errors, alarmed>>

(* The next date, or the next part of the round.                           *)
VktNextDate ==
  IF left > 1
    THEN /\ left' = left - 1 /\ pc' = "date"
         /\ asked' = asked - (IF VktKind = "hour" THEN 1 ELSE HoursPerDay)
         /\ SameRound /\ UNCHANGED step
    ELSE /\ step' = (step % 3) + 1 /\ pc' = "list"
         /\ IF step = 3 THEN RoundOver ELSE SameRound
         /\ UNCHANGED <<left, asked>>

(* ReadData: the date; when it is refused there is nothing to be read.  Of *)
(* the answer 63 bytes are taken, more than it has: of the array remains   *)
(* what it was or residues.                                                *)
VktDate ==
  /\ driver = "vkt" /\ pc = "date"
  /\ \E call \in {"answered", "refused"} :
       /\ IF Known(meter.type, asked) THEN Call(call, "date")
          ELSE call = "refused" /\ Call("answered", "date")
       /\ meter' = IF call = "refused" THEN meter ELSE [meter EXCEPT !.date = asked]
       /\ buffer' \in IF call = "refused" THEN {buffer} ELSE {buffer, Junk}
       /\ IF Skips(call) THEN VktNextDate
          ELSE pc' = "data" /\ SameRound /\ UNCHANGED <<step, left, asked>>
  /\ UNCHANGED <<driver, now, at, rows, errors, alarmed>>

(* What the meter puts into the registers: readable with the list the      *)
(* driver has in mind.                                                     *)
Content ==
  IF meter.type \in {"hour", "day"}
    THEN IF meter.list = "archive" /\ VktKind # "total"
           THEN Frame("record", DevVkt, meter.type, Place(meter.type, meter.date)) ELSE Junk
    ELSE IF meter.list = "total" /\ VktKind = "total" /\ meter.type = "total"
           THEN Frame("record", DevVkt, "total", now) ELSE Junk

(* The driver's own StoreData, for a current value and for a record, which *)
(* gets the date that was asked for.                                       *)
VktCurrentRow(r, what, value) == StoreCurrent(r, Key(DevVkt, 0, what, 0), value)
VktArchiveRow(r, value) ==
  StoreArchive(r, Key(DevVkt, 0, VktKind, Place(VktKind, asked)), value)

(* A record becomes an archive row, and its temperature is written over    *)
(* the current heat (vkt.cpp:423); totals are current rows.                *)
VktStored(record) ==
  LET value == [Value(record.kind, record.n) EXCEPT !.dev = record.dev]
  IN  IF VktKind = "total" THEN VktCurrentRow(rows, "total", value)
      ELSE VktCurrentRow(VktArchiveRow(rows, value), "heat", value)

(* ReadData: the record.  An exception is longer than 3 bytes and counts   *)
(* as an answer, which leaves the array as it was.                         *)
VktData ==
  /\ driver = "vkt" /\ pc = "data"
  /\ \E call \in {"answered", "refused"} :
       /\ Call(call, "data")
       /\ buffer' = IF call = "refused" THEN buffer ELSE Content
  /\ rows' = VktStored(buffer')
  /\ VktNextDate
  /\ UNCHANGED <<driver, now, at, errors, alarmed, meter>>

(* A meter that has fallen silent: the thread waits in its next read.      *)
VktHung == driver = "vkt" /\ DevVkt \in dead /\ pc # "gone"

VktNext == VktGreet \/ VktList \/ VktType \/ VktDate \/ VktData
=============================================================================
