--------------------------------- MODULE Irp ----------------------------------
(***************************************************************************)
(* The driver of the IRP heat meters on one line, irp.cpp.  It asks for    *)
(* the addresses at which a meter is going to write its next records and   *)
(* reads blocks of records backwards from there; the memory is a ring, but *)
(* the walk does not go round it.  read_irp takes the first of the frames  *)
(* it reads, and does not compare its address: "ok" is set to 0xFF again   *)
(* with the next byte.  The time is counted in days.                       *)
(***************************************************************************)
EXTENDS HeatBase

CONSTANTS DevIrp,      \* the table dev_irp: a sequence of numbers of devices
          Places,      \* records in a ring
          DaysPerYear,
          IrpAlarm     \* failures that make an event (6 in the code)

ASSUME IrpAssumption ==
  /\ DevIrp \in Seq(Nat) /\ Places \in Nat \ {0} /\ DaysPerYear \in Nat \ {0}
  /\ IrpAlarm \in Nat \ {0}

(* LoadIRPConfig: a meter for each row, with the address of the row.       *)
IrpMeters == {DevIrp[r] : r \in DOMAIN DevIrp}
Irp == DevIrp[at]
BlockOf == [day |-> 3, tech |-> 4]

(* A meter: the place of the next record, and those of the last days.      *)
Pointer == now % Places
DayAt(place) == now - 1 - ((now - 1 - place) % Places)

(* send_irp, which always succeeds: a read of the meter's memory.          *)
IrpAnswer(area) ==
  CASE area = "pointer" -> Frame("pointers", Irp, "none", Pointer)
    [] area = "current" -> Frame("current", Irp, "current", now)
    [] area \in {"day", "tech"} -> Frame("block", Irp, area, asked - BlockOf[area] * left)

-----------------------------------------------------------------------------
(* Is a block that starts at a place asked for?                            *)
Within(start) == start > 0

(* read_irp: the first frame, if its sum is right.                         *)
Taken(got) == IF got # <<>> /\ got[1].what # "junk" THEN {got[1]} ELSE {}

(* ParseData: a row for each record of this year.  Of another block than   *)
(* the one that was asked for it makes something or nothing.               *)
Parsed(frame, kind) ==
  LET days == {n \in {DayAt(frame.n + i) : i \in 0 .. BlockOf[kind] - 1} :
                 n >= 0 /\ n \div DaysPerYear = now \div DaysPerYear}
      row(n) == [key |-> Key(Irp, 0, kind, n),
                 value |-> [Value(frame.kind, n) EXCEPT !.dev = frame.dev]]
  IN  IF frame.what = "block" /\ frame.kind = kind
        THEN {StoreArchives(rows, {row(n) : n \in days})}
        ELSE {rows, StoreArchive(rows, Key(Irp, 0, kind, 0), Value("junk", 0))}

-----------------------------------------------------------------------------
(* OpenCom: without the port the driver goes on, and nobody answers.       *)
IrpOpened == {{}, IrpMeters}

IrpInit ==
  /\ HeatInit("irp", IrpMeters)
  /\ dead \in IrpOpened
  /\ pc = "pointer" /\ step = 0 /\ left = 1

(* After the archives of a meter: at the start (step 0) its current        *)
(* values, else (1) the archives of the next, and after all (2) the        *)
(* current values of all.                                                  *)
ArchivesDone ==
  /\ left' = 1
  /\ IF step = 0 THEN pc' = "current" /\ UNCHANGED <<at, step>>
     ELSE IF at < Len(DevIrp) THEN pc' = "pointer" /\ at' = at + 1 /\ UNCHANGED step
     ELSE pc' = "current" /\ at' = 1 /\ step' = 2
  /\ SameRound

CurrentDone ==
  IF at < Len(DevIrp)
    THEN /\ at' = at + 1 /\ SameRound /\ UNCHANGED step
         /\ pc' = IF step = 0 THEN "pointer" ELSE "current"
    ELSE pc' = "pointer" /\ at' = 1 /\ step' = 1 /\ RoundOver

(* The blocks that are asked for come first: the walk goes backwards.      *)
GoOn(kind, df) ==
  IF df <= Depth /\ Within(asked' - BlockOf[kind] * df)
    THEN pc' = kind /\ left' = df /\ SameRound /\ UNCHANGED <<at, step>>
    ELSE IF kind = "day" /\ Within(asked' - BlockOf["tech"])
           THEN pc' = "tech" /\ left' = 1 /\ SameRound /\ UNCHANGED <<at, step>>
           ELSE ArchivesDone

(* Mutant: it counts twice there, too.                                     *)
IrpNoValuesTwice(d) == Counted(d, 2, IrpAlarm)

(* Current values that did not come count once, and make no event.         *)
IrpNoValues(d) == Counted(d, 1, IrpAlarm)

(* A failed poll counts twice: for the answer that is missing, and in the  *)
(* "else" of the test of its length.                                       *)
IrpUnanswered(d) == Failed(d, 2, IrpAlarm)

(* Mutant: the walk begins though no addresses have come.                  *)
MarkedAlways(got) == TRUE

(* The markers have come, and lie within their areas.                      *)
Marked(got) == \E f \in Taken(got) : f.what = "pointers"

(* ReadLastArchive: the addresses; another answer is no valid marker.      *)
IrpPointer ==
  /\ driver = "irp" /\ pc = "pointer"
  /\ LET answer == IrpAnswer("pointer")
     IN  \E got \in Gets(answer) :
           /\ Heard(answer, got)
           /\ IF Marked(got)
                THEN /\ asked' = IF got = <<>> THEN asked ELSE got[1].n
                     /\ GoOn("day", 1)
                     /\ Answered(Irp)
                ELSE /\ ArchivesDone /\ UNCHANGED asked
                     /\ IF Taken(got) = {} THEN IrpUnanswered(Irp)
                        ELSE UNCHANGED <<errors, alarmed>>
  /\ UNCHANGED <<driver, now, buffer, rows>>

(* ReadLastArchive: a block of the archive of days, or of the days'        *)
(* technical values.                                                       *)
IrpBlock ==
  /\ driver = "irp" /\ pc \in {"day", "tech"}
  /\ LET answer == IrpAnswer(pc)
     IN  \E got \in Gets(answer) :
           /\ Heard(answer, got)
           /\ rows' \in IF Taken(got) = {} THEN {rows} ELSE Parsed(got[1], pc)
  /\ UNCHANGED asked
  /\ GoOn(pc, left + 1)
  /\ UNCHANGED <<driver, now, buffer, errors, alarmed>>

(* ReadDataCurrent: nine values; another answer may look like values or    *)
(* not.                                                                    *)
IrpCurrent ==
  /\ driver = "irp" /\ pc = "current"
  /\ LET answer == IrpAnswer("current")
         key == Key(Irp, 0, "current", 0)
     IN  \E got \in Gets(answer) :
           /\ Heard(answer, got)
           /\ IF Taken(got) = {} THEN IrpNoValues(Irp) /\ UNCHANGED <<rows, alarmed>>
              ELSE /\ Answered(Irp)
                   /\ rows' \in IF got[1].what = "current"
                                  THEN {StoreCurrent(rows, key,
                                         [Value("current", got[1].n) EXCEPT !.dev = got[1].dev])}
                                  ELSE {rows, StoreCurrent(rows, key, Value("junk", 0))}
  /\ CurrentDone
  /\ UNCHANGED <<driver, now, left, asked, buffer>>

IrpNext == IrpPointer \/ IrpBlock \/ IrpCurrent
=============================================================================
