-------------------------------- MODULE Ce102 ---------------------------------
(***************************************************************************)
(* The driver of the CE102 power meters, ce102.cpp.  An hour is asked for  *)
(* by a date that send_ce takes from the clock, and stored under a date    *)
(* taken from the clock when the answer is there.  The thread ends after   *)
(* its first meter, since pth_ce is not loaded any more (kernel.cpp:381),  *)
(* and the dispatcher starts it again.  The time is in half hours.         *)
(***************************************************************************)
EXTENDS HeatBase

CONSTANT DevCe    \* the table dev_ce: a sequence of numbers of devices

ASSUME DevCeAssumption == DevCe \in Seq(Nat \ {0})

(* LoadCEConfig: a meter for each device with a row.                       *)
Ce102Meters == {DevCe[r] : r \in DOMAIN DevCe}

(* send_ce, frame 3: the hour of so many times 3600 s ago.                 *)
AskedHour == (now \div 2) + 1 - left

(* The hour a value is stored under, from the time after the read.         *)
StoredHour == (now' \div 2) + 1 - left

CurrentSteps == <<"power", "sum", "day", "night">>
TotalSteps == <<"sum", "day", "night">>

(* send_ce; for an hour that is not over the meter answers FF FF FF, which *)
(* the caller knows.                                                       *)
Ce102Answer ==
  LET own(kind, n) == Frame("value", DevCe[at], kind, n)
  IN  CASE pc = "current" -> own(CurrentSteps[left], 0)
        [] pc = "total"   -> own(TotalSteps[left], 0)
        [] pc = "hour"    -> IF AskedHour = now \div 2 THEN Frame("none", DevCe[at], "none", 0)
                             ELSE own("hour", AskedHour)

(* The sum over all that was read.                                         *)
CeSumRight(got) == Len(got) = 1 /\ got[1].what # "junk"

(* read_ce: all that was read, if its sum is right; neither the address    *)
(* nor the kind is looked at.                                              *)
Ce102Taken(got) == IF CeSumRight(got) THEN {got[1]} ELSE {}

Ce102Value(f) == [Value(f.kind, f.n) EXCEPT !.dev = f.dev]

(* The thread: the port is opened and the configuration loaded anew.       *)
Ce102Start == flying = <<>>

Ce102Init ==
  /\ HeatInit("ce102", Ce102Meters)
  /\ Ce102Start
  /\ dead = {} /\ pc = "current" /\ step = 0 /\ left = 1

(* ReadDataCurrent: four values.                                           *)
Ce102Current ==
  /\ driver = "ce102" /\ pc = "current"
  /\ \E got \in Gets(Ce102Answer) :
       /\ Heard(Ce102Answer, got)
       /\ rows' = IF Ce102Taken(got) = {} THEN rows
                  ELSE StoreCurrent(rows, Key(DevCe[at], 0, CurrentSteps[left], 0), Ce102Value(got[1]))
  /\ IF left < Len(CurrentSteps) THEN left' = left + 1 /\ UNCHANGED pc
     ELSE left' = 1 /\ pc' = "total"
  /\ UNCHANGED <<driver, now, rest, at, step, asked, buffer, errors, alarmed>>

(* ReadAllArchive: three totals under the hour it is.                      *)
Ce102Total ==
  /\ driver = "ce102" /\ pc = "total"
  /\ \E got \in Gets(Ce102Answer) :
       /\ Heard(Ce102Answer, got)
       /\ rows' = IF Ce102Taken(got) = {} THEN rows
                  ELSE StoreArchive(rows, Key(DevCe[at], 1, TotalSteps[left], now \div 2),
                                    Ce102Value(got[1]))
  /\ IF left < Len(TotalSteps) THEN left' = left + 1 /\ UNCHANGED pc
     ELSE left' = 1 /\ pc' = "hour"
  /\ UNCHANGED <<driver, now, rest, at, step, asked, buffer, errors, alarmed>>

(* ReadAllArchive: an hour; the time may go on before the answer is there. *)
Ce102Hour ==
  /\ driver = "ce102" /\ pc = "hour"
  /\ \/ UNCHANGED <<now, rest>>
     \/ rest = 0 /\ now + 1 \in Span[driver] /\ now' = now + 1 /\ rest' = 2
  /\ \E got \in Gets(Ce102Answer) :
       /\ Heard(Ce102Answer, got)
       /\ rows' = IF Ce102Taken(got) = {} \/ got[1].what = "none" THEN rows
                  ELSE StoreArchive(rows, Key(DevCe[at], 0, "hour", StoredHour), Ce102Value(got[1]))
  /\ IF left < Depth THEN left' = left + 1 /\ UNCHANGED pc ELSE left' = 1 /\ pc' = "stop"
  /\ UNCHANGED <<driver, at, step, asked, buffer, errors, alarmed>>

(* The stop check, and a new thread.                                       *)
Ce102Stop ==
  /\ driver = "ce102" /\ pc = "stop"
  /\ pc' = "current" /\ at' = 1 /\ flying' = <<>> /\ RoundOver
  /\ UNCHANGED <<driver, now, step, left, asked, buffer, rows, errors, alarmed, dead, budget, hurt>>

Ce102Next == Ce102Current \/ Ce102Total \/ Ce102Hour \/ Ce102Stop
=============================================================================
