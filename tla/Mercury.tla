------------------------------- MODULE Mercury --------------------------------
(***************************************************************************)
(* The driver of the Mercury 230 and SET-4TM power meters, mercury230.cpp. *)
(* A pass opens the port for the meters of either type, greets each meter, *)
(* and reads its half hours, days, months and current values.  Protocol 13 *)
(* goes through a concentrator, which answers in place of a meter that     *)
(* does not: read_mercury returns its refusal as a success, and the caller *)
(* takes what is still in its array.  The time is counted in half hours.   *)
(***************************************************************************)
EXTENDS HeatBase

CONSTANTS MerTable,      \* the meters, those of type m230 before the sets
          MerPlaces,     \* records in the ring of half hours
          MonthsPerYear,
          SetYears,      \* years the archive of a SET-4TM is taken of (2015)
          MerParams,     \* the current values, in the order of their requests
          MerLimit       \* failures in a row that are written down (10)

ASSUME MerAssumption ==
  /\ MerTable \in Seq([dev : Nat \ {0}, type : {"m230", "set"}, protocol : {13, 14},
                       early : BOOLEAN])
  /\ MerPlaces \in Nat \ {0} /\ MonthsPerYear \in Nat \ {0} /\ MerLimit \in Nat \ {0}
  /\ SetYears \subseteq Nat /\ MerParams \in Seq(STRING)

VARIABLES known,    \* "serial" is greater than 0
          conn,     \* conn of each meter in the table of devices
          deaf      \* fd is -1: every read fails

merVars == <<known, conn, deaf>>

-----------------------------------------------------------------------------
HourOf(t) == t \div 2
DayOf(t) == HourOf(t) \div HoursPerDay
MonthOf(t) == DayOf(t) \div DaysPerMonth
YearOf(t) == MonthOf(t) \div MonthsPerYear

Mer == MerTable[at]
MerMeters == {MerTable[r].dev : r \in DOMAIN MerTable}

(* LoadMercuryConfig, at the start and after each pass: the devices as     *)
(* they were when the process began, with no failures.                     *)
MerLoaded == [d \in MerMeters |-> 0]

(* OpenCom empties the line.                                               *)
MerOpened == flying' = <<>>

(* The memory of a meter: the record of "now" is the newest.  A request is *)
(* for two records; the second may be what was there a turn before.        *)
Label(place) == now - ((now - place) % MerPlaces)
Block(place) ==
  LET whole == Label((place + 1) % MerPlaces) = Label(place) + 1
  IN  Frame("block", Mer.dev, IF whole THEN "hour" ELSE "torn", Label(place))

(* send_mercury, and what is sent back by the meter, or the concentrator.  *)
Refusal == Frame("refusal", 0, "none", 0)
MerAnswer(op) ==
  LET own(what, kind, n) == Frame(what, Mer.dev, kind, n)
  IN  CASE op = "drain"   -> Silence
        [] op = "hour"    -> IF Mer.type = "m230" THEN Block(asked)
                             ELSE own("block", "half", asked)
        [] op = "day"     -> own("value", "day", DayOf(now) - 1)
        [] op = "month"   -> own("value", "month", asked - 1)
        [] op \in {"daytotal", "monthtotal"} -> own("value", "total", 0)
        [] op = "current" -> own("value", MerParams[left], 0)
        [] op = "pointer" -> own("pointer", "none", now)
        [] OTHER          -> own(op, "none", 0)
MerSent(op) ==
  IF deaf THEN Silence
  ELSE IF Mer.protocol = 13 /\ Mer.dev \in dead /\ op # "drain" THEN Refusal
  ELSE MerAnswer(op)

MerHeard(op, got) ==
  \/ Heard(MerSent(op), got)
  \/ /\ Mer.protocol = 13 /\ MerSent(op).what \notin {"silence", "refusal"}
     /\ "refused" \in Faults /\ budget > 0
     /\ budget' = budget - 1 /\ hurt' = hurt \cup {"refused"}
     /\ got = Append(flying, Refusal) /\ flying' = <<>> /\ UNCHANGED dead
MerGets(op) == Gets(MerSent(op)) \cup {Append(flying, Refusal)}

(* The sums of protocols 13 and 14: either is worked out, the second is    *)
(* compared with nothing.  Over several frames it is wrong.                *)
MerSumRight(got) ==
  Mer.protocol = 13 => Len(got) = 1 /\ got[1].what # "junk"

(* read_mercury: the bytes of an answer, from its front.                   *)
MerTaken(got) == IF got # <<>> /\ MerSumRight(got) THEN {got[1]} ELSE {}

(* A value out of the array: after a refusal one byte of it is new.        *)
MerValue(frame) ==
  IF frame.what = "value" THEN [Value(frame.kind, frame.n) EXCEPT !.dev = frame.dev]
  ELSE Value("junk", 0)

(* The time goes on while an answer is awaited.                            *)
Passing ==
  \/ UNCHANGED <<now, rest>>
  \/ rest = 0 /\ now + 1 \in Span[driver] /\ now' = now + 1 /\ rest' = 2

MerFrame == UNCHANGED <<driver, at, alarmed>>
Unlinked == UNCHANGED <<errors, known, conn, deaf>>

-----------------------------------------------------------------------------
MerInit ==
  /\ HeatInit("mercury", MerMeters)
  /\ errors = MerLoaded
  /\ dead = {} /\ pc = "port" /\ step = 0 /\ left = 1
  /\ known = FALSE /\ deaf = FALSE
  /\ conn = [d \in MerMeters |-> "none"]

(* The thread: without a port the first meter is left out, and the others  *)
(* are asked all the same, since fd is not 0.                              *)
MerPort ==
  /\ driver = "mercury" /\ pc = "port"
  /\ \/ pc' = "open" /\ deaf' = FALSE /\ MerOpened /\ UNCHANGED <<budget, hurt>>
     \/ /\ "port" \in Faults /\ budget > 0 /\ budget' = budget - 1 /\ hurt' = hurt \cup {"port"}
        /\ pc' = "turn" /\ deaf' = TRUE /\ flying' = <<>>
  /\ left' = 1
  /\ UNCHANGED <<now, rest, step, asked, buffer, rows, errors, known, conn, dead>> /\ MerFrame

(* Mutant: the failures are kept over a pass.                              *)
MerReloadKeeping == errors

(* What the table of meters holds of failures when a pass is over.         *)
MerReload == MerLoaded

(* The thread: the next meter, with the port opened again for another      *)
(* type, and after the last one LoadMercuryConfig.                         *)
MerTurn ==
  /\ driver = "mercury" /\ pc = "turn"
  /\ step' = 0 /\ left' = 1
  /\ IF at < Len(MerTable)
       THEN /\ at' = at + 1 /\ SameRound /\ UNCHANGED errors
            /\ pc' = IF MerTable[at + 1].type = Mer.type THEN "open" ELSE "port"
       ELSE at' = 1 /\ RoundOver /\ errors' = MerReload /\ pc' = "port"
  /\ UNCHANGED <<driver, now, asked, buffer, rows, alarmed, known, conn, deaf, lineVars>>

(* ReadInfo: three attempts to open a session; the last answer tells a     *)
(* silent concentrator from a silent meter.  In protocol 14 another answer *)
(* may begin with a 0 as well.                                             *)
MerOpen ==
  /\ driver = "mercury" /\ pc = "open"
  /\ \E got \in MerGets("open") :
       /\ MerHeard("open", got)
       /\ \E opened \in {f.what = "open" : f \in MerTaken(got)} \cup
                        (IF Mer.protocol = 14 /\ got # <<>> THEN {TRUE} ELSE {}) \cup
                        (IF got = <<>> \/ MerTaken(got) = {} THEN {FALSE} ELSE {}) :
            IF opened THEN pc' = "info" /\ step' = 1 /\ left' = 1 /\ UNCHANGED <<errors, conn>>
            ELSE IF left < 3 THEN left' = left + 1 /\ UNCHANGED <<pc, step, errors, conn>>
            ELSE LET many == errors[Mer.dev] + 1 > MerLimit
                     link == IF MerTaken(got) # {} THEN "bus" ELSE "down"
                 IN  /\ pc' = "turn" /\ left' = 1 /\ UNCHANGED step
                     /\ errors' = [errors EXCEPT ![Mer.dev] = IF many THEN 0 ELSE @ + 1]
                     /\ conn' = IF many THEN [conn EXCEPT ![Mer.dev] = link] ELSE conn
  /\ known' = FALSE
  /\ UNCHANGED <<now, rest, asked, buffer, rows, deaf>> /\ MerFrame

InfoSteps == <<"serial", "drain", "soft", "drain", "time", "kn", "a">>

(* ReadInfo, the session being open: the number, the version, the time in  *)
(* up to two attempts, and the coefficients, with two reads for what comes *)
(* too late.  It has succeeded, whatever is answered.                      *)
MerInfo ==
  /\ driver = "mercury" /\ pc = "info"
  /\ LET op == InfoSteps[step]
     IN  \E got \in MerGets(op) :
           /\ MerHeard(op, got)
           /\ known' = IF op = "serial" THEN MerTaken(got) # {} ELSE known
           /\ LET timed == op = "time" /\ known /\ MerTaken(got) # {}
              IN  \E dated \in IF ~timed THEN {FALSE}
                               ELSE {f.what = "time" : f \in MerTaken(got)} \cup
                                    {f.what \notin {"time", "refusal"} : f \in MerTaken(got)} :
                    /\ errors' = IF timed THEN [errors EXCEPT ![Mer.dev] = 0] ELSE errors
                    /\ conn' = IF dated THEN [conn EXCEPT ![Mer.dev] = "up"] ELSE conn
                    /\ IF op = "time" /\ ~dated /\ left = 1
                         THEN left' = 2 /\ UNCHANGED <<pc, step>>
                         ELSE
                            /\ left' = 1
                            /\ IF op = "a" \/ (op = "kn" /\ MerTaken(got) = {})
                                 THEN /\ step' = 8
                                      /\ pc' = IF Mer.type = "m230" THEN "pointer" ELSE "current"
                                 ELSE step' = step + 1 /\ UNCHANGED pc
  /\ UNCHANGED <<now, rest, asked, buffer, rows, deaf>> /\ MerFrame

-----------------------------------------------------------------------------
(* Mutant: the newest record itself is where the walk begins.              *)
WalkStartNewest(n) == n % MerPlaces

(* ReadAllArchive: the first record of the last whole pair, whose time is  *)
(* on the hour, if the ring does not turn in between; a late type of meter *)
(* counts its records otherwise, and the walk begins at the newest.        *)
WalkStart(n) ==
  LET place == n % MerPlaces
      back == IF n % 2 = 1 THEN 3 ELSE 2
  IN  IF Mer.early /\ place >= back THEN place - back ELSE place

(* The pair before.  Below the start of the ring it is the last place, not *)
(* the last but one.                                                       *)
WalkBack(place) == IF place >= 2 THEN place - 2 ELSE MerPlaces - 1

(* ReadAllArchive(99): where the newest record is.  It is looked at for a  *)
(* date; another answer does not look like one.                            *)
MerPointer ==
  /\ driver = "mercury" /\ pc = "pointer"
  /\ \E got \in MerGets("pointer") :
       /\ MerHeard("pointer", got)
       /\ LET marked == {f \in MerTaken(got) :
                           f.what = "pointer" /\ (Mer.type = "set" => YearOf(f.n) \in SetYears)}
          IN  IF marked = {} THEN pc' = "day" /\ left' = 1 /\ UNCHANGED asked
              ELSE /\ pc' = "hour" /\ left' = Depth
                   /\ asked' = IF Mer.type = "m230" THEN WalkStart(got[1].n)
                               ELSE HourOf(got[1].n) - 1
       /\ buffer' = Junk
  /\ UNCHANGED <<now, rest, step, rows>> /\ Unlinked /\ MerFrame

(* Two records make an hour, whose date is that of the first; its reactive *)
(* power has a row like it, which is left out.  A refusal leaves the date  *)
(* and the values in the array.                                            *)
MerHour(frame) ==
  LET f == IF frame.what = "refusal" THEN buffer ELSE frame
      hour == IF f.kind = "half" THEN f.n ELSE HourOf(f.n)
      value == [Value(f.kind, f.n) EXCEPT !.dev = f.dev]
  IN  IF f.what = "block"
        THEN {IF hour >= 0 THEN StoreArchiveOf(rows, Key(Mer.dev, 0, "hour", hour), value) ELSE rows}
      ELSE {rows} \cup (IF Mer.protocol = 14 /\ frame.what # "refusal"
                          THEN {StoreArchiveOf(rows, Key(Mer.dev, 0, "hour", 0), Value("junk", 0))}
                        ELSE {})

(* ReadAllArchive(99), Mercury 230: a request of the walk.                 *)
MerBlock ==
  /\ driver = "mercury" /\ pc = "hour" /\ Mer.type = "m230"
  /\ \E got \in MerGets("hour") :
       /\ MerHeard("hour", got)
       /\ IF MerTaken(got) = {} THEN UNCHANGED <<rows, buffer>>
          ELSE /\ rows' \in MerHour(got[1])
               /\ buffer' = IF got[1].what = "refusal" THEN buffer ELSE got[1]
  /\ asked' = WalkBack(asked)
  /\ IF left > 1 THEN left' = left - 1 /\ UNCHANGED pc ELSE left' = 1 /\ pc' = "day"
  /\ UNCHANGED <<now, rest, step>> /\ Unlinked /\ MerFrame

(* Mutant: only what looks like a date is counted.                         *)
VskUncounted(matches) == left - matches

(* The counter of requests is unsigned, and each place near the end of an  *)
(* answer that looks like a date takes one off, inside the search.         *)
Vsk(matches) == left - matches - 1

(* ReadAllArchive(99), SET-4TM.  Below 0 the counter is 2^32 - 1, and the  *)
(* walk does not end in years (bound: one such place in an answer).        *)
SetBlock ==
  /\ driver = "mercury" /\ pc = "hour" /\ Mer.type = "set"
  /\ \E matches \in 0 .. 1 :
       /\ IF matches = 0
            THEN \E got \in MerGets("hour") :
                   /\ MerHeard("hour", got)
                   /\ rows' \in IF MerTaken(got) = {} \/ YearOf(2 * asked) \notin SetYears
                                  THEN {rows} ELSE MerHour(got[1])
          ELSE /\ "matched" \in Faults /\ budget > 0 /\ MerSent("hour").what = "block"
               /\ budget' = budget - 1 /\ hurt' = hurt \cup {"matched"}
               /\ UNCHANGED <<rows, flying, dead>>
       /\ LET vsk == Vsk(matches)
          IN  /\ left' = IF vsk > 0 THEN vsk ELSE 1
              /\ pc' = IF vsk > 0 THEN "hour" ELSE IF vsk = 0 THEN "day" ELSE "endless"
  /\ asked' = IF asked > 0 THEN asked - 1 ELSE 0
  /\ UNCHANGED <<now, rest, step, buffer>> /\ Unlinked /\ MerFrame

(* ReadAllArchive: yesterday's value and the total, dated when the answer  *)
(* is there.                                                               *)
MerDay ==
  /\ driver = "mercury" /\ pc \in {"day", "daytotal"}
  /\ Passing
  /\ \E got \in MerGets(pc) :
       /\ MerHeard(pc, got)
       /\ rows' = IF MerTaken(got) = {} THEN rows
                  ELSE StoreArchiveOf(rows, Key(Mer.dev, 0, pc, DayOf(now') - 1), MerValue(got[1]))
  /\ IF pc = "day" THEN pc' = "daytotal" /\ UNCHANGED <<asked, left>>
     ELSE pc' = "month" /\ asked' = MonthOf(now') /\ left' = Depth
  /\ UNCHANGED <<step, buffer>> /\ Unlinked /\ MerFrame

-----------------------------------------------------------------------------
Void == 0 - 1

(* Mutant: the date is that of the month itself.                           *)
MonthDateOwn(m) == m - 1

(* The value of a month is dated in the next one; that of December would   *)
(* be dated in month 13, which is no date.                                 *)
MonthDate(m) == IF m % MonthsPerYear = 0 THEN Void ELSE m

(* A row with no date is inserted, and not found again.                    *)
MerMonthStored(kind, value) ==
  LET key == Key(Mer.dev, 0, kind, MonthDate(asked))
  IN  IF MonthDate(asked) = Void THEN rows \cup {[key |-> key, value |-> value]}
      ELSE StoreArchiveOf(rows, key, value)

(* In the last quarter of an hour the archives are read once more.         *)
MerAgain ==
  \/ pc' = "turn" /\ UNCHANGED step
  \/ now % 2 = 1 /\ pc' = "day" /\ step' = 9

(* ReadAllArchive: a month, and the total, the months going backwards.     *)
MerMonth ==
  /\ driver = "mercury" /\ pc \in {"month", "monthtotal"}
  /\ \E got \in MerGets(pc) :
       /\ MerHeard(pc, got)
       /\ rows' = IF MerTaken(got) = {} THEN rows ELSE MerMonthStored(pc, MerValue(got[1]))
  /\ IF pc = "month" THEN pc' = "monthtotal" /\ UNCHANGED <<asked, left, step>>
     ELSE /\ asked' = IF asked > 0 THEN asked - 1 ELSE 0
          /\ IF left > 1 THEN pc' = "month" /\ left' = left - 1 /\ UNCHANGED step
             ELSE /\ left' = 1
                  /\ IF step = 9 THEN pc' = "turn" /\ UNCHANGED step
                     ELSE IF Mer.type = "m230" THEN pc' = "current" /\ UNCHANGED step
                     ELSE MerAgain
  /\ UNCHANGED <<now, rest, buffer>> /\ Unlinked /\ MerFrame

(* ReadDataCurrent: the value, and that of the last five minutes (here of  *)
(* the hour), for which type 9 stands; the amperage has none of those, and *)
(* is left out.  The sum is read and not stored.                           *)
MerCurrent ==
  /\ driver = "mercury" /\ pc = "current"
  /\ \E got \in MerGets("current") :
       /\ MerHeard("current", got)
       /\ rows' = IF MerTaken(got) = {} \/ MerParams[left] = "sum" THEN rows
                  ELSE LET value == MerValue(got[1])
                       IN  StoreArchiveOf(
                             StoreCurrentOf(rows, Key(Mer.dev, 0, MerParams[left], 0), value),
                             Key(Mer.dev, 9, MerParams[left], HourOf(now)), value)
  /\ IF left < Len(MerParams) THEN left' = left + 1 /\ UNCHANGED <<pc, step>>
     ELSE /\ left' = 1
          /\ IF Mer.type = "set" THEN pc' = "pointer" /\ UNCHANGED step ELSE MerAgain
  /\ UNCHANGED <<now, rest, asked, buffer>> /\ Unlinked /\ MerFrame

MerNext ==
  \/ MerPort \/ MerTurn \/ MerOpen \/ MerInfo \/ MerPointer \/ MerBlock \/ SetBlock
  \/ MerDay \/ MerMonth \/ MerCurrent
=============================================================================
