--------------------------------- MODULE Km5 ----------------------------------
(***************************************************************************)
(* The driver of the KM-5 heat meters, km_5.cpp.  For each channel of a    *)
(* meter (a parameter of one of its pipes) it asks for the current values  *)
(* and then walks through the archives twice: the number of the newest     *)
(* record, and from there the records backwards.  A record says its date   *)
(* and holds the values of all channels.  The second time the differences  *)
(* to the return pipe are stored as well.  No answer is compared with its  *)
(* request; values are taken to be within the limits the code sets, which  *)
(* a meter in order keeps.                                                 *)
(***************************************************************************)
EXTENDS HeatBase

CONSTANTS KmDevices,  \* numbers of the devices of this type in the table device
          DevKm,      \* the table dev_km: a sequence of [dev, pipe, kinds, heat]
          KmAlarm     \* failures that make an event (16 in the code)

ASSUME KmAssumption ==
  /\ KmDevices \subseteq Nat
  /\ DevKm \in Seq([dev : Nat, pipe : Nat \ {0}, heat : BOOLEAN,
                    kinds : {<<"hour", "day", "month">>, <<"hour">>, <<"day", "month">>}])
  /\ KmAlarm \in Nat \ {0}

(* LoadKMConfig: the channels, in the order of the devices.                *)
KmTable == SelectSeq(DevKm, LAMBDA c : c.dev \in KmDevices)
KmMeters == {KmTable[c].dev : c \in DOMAIN KmTable}
Ch == KmTable[at]

(* The meter's clock closes a record at the end of its hour, day or month. *)
Newest(kind) ==
  CASE kind = "hour" -> now - 1
    [] kind = "day" -> now \div HoursPerDay - 1
    [] kind = "month" -> now \div (HoursPerDay * DaysPerMonth) - 1
Latest(d, kind) == Frame("last", d, kind, Newest(kind))
Record(d, kind, n) ==
  IF n \in 0 .. Newest(kind) THEN {Frame("record", d, kind, n)}
  ELSE {Frame("none", d, kind, 0), Silence}

(* The part of the round: which archive, and is it the second time?        *)
KmKind == Ch.kinds[((step - 1) % Len(Ch.kinds)) + 1]
Second == step > Len(Ch.kinds)

(* send_km, which always succeeds, by the kind of frame.  The request for  *)
(* a record names an archive and a number, and no parameter.               *)
KmAnswers(frame) ==
  CASE frame = 0 -> {Frame("current", Ch.dev, "current", now)}
    [] frame = 1 -> {Latest(Ch.dev, KmKind)}
    [] frame = 2 -> Record(Ch.dev, KmKind, asked)

-----------------------------------------------------------------------------
(* read_km checks the sums over all bytes it has read: one frame or none.  *)
(* With type 2 nothing is copied of a wrong one, else its beginning is.    *)
Right(got) == Len(got) = 1 /\ got[1].what # "junk"
CopiedHead(got) == IF got = <<>> THEN buffer ELSE got[1]
CopiedAll(got) == IF Right(got) THEN got[1] ELSE buffer

(* Mutant: the result of the read is not looked at.                        *)
UsableAlways(got) == TRUE

(* Is there a record in the array that has just come?                      *)
Usable(got) == Right(got)

(* The date of a record.  An hour is labelled with its end; the code takes *)
(* one off, but leaves 0, the end of a day's last hour, at 0.              *)
KmDate(kind, n) ==
  IF kind = "hour" /\ (n + 1) % HoursPerDay = 0 THEN n + 1 ELSE n

(* The difference to the latest earlier record of pipe 2, as pipe 0.       *)
Differences(r, kind, n) ==
  LET date == KmDate(kind, n)
      earlier == {w \in r : w.key.dev = Ch.dev /\ w.key.kind = kind /\ w.key.pipe = 2
                            /\ w.key.date < date}
  IN  IF ~Ch.heat \/ earlier = {} THEN r
      ELSE LET prior == CHOOSE w \in earlier : \A x \in earlier : x.key.date <= w.key.date
           IN  StoreArchiveOf(r, Key(Ch.dev, 0, kind, date),
                            [Value(kind, n) EXCEPT !.since = prior.value.n])

(* A record in the buffer becomes a row of the archive that was asked for. *)
KmStored(record) ==
  LET kept == StoreArchiveOf(rows, Key(Ch.dev, Ch.pipe, KmKind, KmDate(record.kind, record.n)),
                           [Value(record.kind, record.n) EXCEPT !.dev = record.dev])
  IN  IF Second THEN Differences(kept, KmKind, record.n) ELSE kept

-----------------------------------------------------------------------------
(* OpenCom: without the port the thread ends, and km5_thread stays set.    *)
KmOpened == {"info", "gone"}

KmInit ==
  /\ HeatInit("km5", KmMeters)
  /\ pc \in KmOpened /\ step = 1 /\ left = 2
  /\ dead = {}

(* Mutant: the last channel of the table is not polled.                    *)
KmNextChannelFirst ==
  /\ at' = 1 /\ step' = 1 /\ left' = 2 /\ pc' = "info"
  /\ RoundOver

(* After the archives: the next channel, and the information of the meter  *)
(* before its first one.                                                   *)
KmNextChannel ==
  LET next == (at % Len(KmTable)) + 1
  IN  /\ at' = next /\ step' = 1 /\ left' = 2
      /\ pc' = IF next = 1 \/ KmTable[next].dev # Ch.dev THEN "info" ELSE "drain"
      /\ IF next = 1 THEN RoundOver ELSE SameRound

KmNextPart ==
  IF step < 2 * Len(Ch.kinds)
    THEN pc' = "last" /\ step' = step + 1 /\ SameRound /\ UNCHANGED <<at, left>>
    ELSE KmNextChannel

(* ReadInfo: two requests, the answers serve to show the meter's time.     *)
KmInfo ==
  /\ driver = "km5" /\ pc = "info"
  /\ \E answer \in KmAnswers(0) : \E got \in Gets(answer) : Heard(answer, got)
  /\ IF left > 1 THEN left' = left - 1 /\ UNCHANGED pc ELSE pc' = "drain" /\ UNCHANGED left
  /\ UNCHANGED <<driver, now, rest, at, step, asked, buffer, rows, errors, alarmed>>

(* ReadDataCurrent begins with 50 zero bytes, which nobody answers, and a  *)
(* read: what was still to come is thrown away.                            *)
KmDrain ==
  /\ driver = "km5" /\ pc = "drain"
  /\ pc' = "current" /\ flying' = <<>>
  /\ UNCHANGED <<driver, now, rest, at, step, left, asked, buffer, rows, errors, alarmed,
                 dead, budget, hurt>>

(* ReadDataCurrent: the current value, and a row of type 9 dated now.      *)
KmCurrent ==
  /\ driver = "km5" /\ pc = "current"
  /\ \E answer \in KmAnswers(0) : \E got \in Gets(answer) :
           /\ Heard(answer, got)
           /\ IF Right(got)
                THEN LET value == [Value("current", got[1].n) EXCEPT !.dev = got[1].dev]
                     IN  /\ rows' = StoreArchiveOf(
                               StoreCurrentOf(rows, Key(Ch.dev, Ch.pipe, "current", 0), value),
                               Key(Ch.dev, Ch.pipe, "spot", now), value)
                         /\ Answered(Ch.dev)
                ELSE Failed(Ch.dev, 1, KmAlarm) /\ UNCHANGED rows
  /\ pc' = "last"
  /\ UNCHANGED <<driver, now, rest, at, step, left, asked, buffer>>

(* ReadAllArchive, the number of the newest record.  Without an answer it  *)
(* is read out of what the array held before, at the start of the function *)
(* out of anything.  99 is a number the meter has no record of.            *)
KmLast ==
  /\ driver = "km5" /\ pc = "last"
  /\ \E answer \in KmAnswers(1) : \E got \in Gets(answer) :
           /\ Heard(answer, got)
           /\ buffer' \in IF got = <<>> /\ step \in {1, Len(Ch.kinds) + 1}
                            THEN {buffer, Junk} ELSE {CopiedHead(got)}
           /\ asked' \in IF buffer'.what = "last" THEN {buffer'.n}
                         ELSE IF buffer'.what = "junk" THEN {0, 99} ELSE {99}
  /\ pc' = "record" /\ left' = Depth
  /\ UNCHANGED <<driver, now, rest, at, step, rows, errors, alarmed>>

(* ReadAllArchive, the walk: an array that does not begin like a record    *)
(* ends it, a record that came is stored, and without one the array is as  *)
(* it was.                                                                 *)
KmRecord ==
  /\ driver = "km5" /\ pc = "record"
  /\ \E answer \in KmAnswers(2) : \E got \in Gets(answer) :
           /\ Heard(answer, got)
           /\ buffer' = CopiedAll(got)
           /\ \E like \in IF buffer'.what = "junk" THEN BOOLEAN ELSE {buffer'.what = "record"} :
                /\ rows' = IF like /\ Usable(got) THEN KmStored(buffer') ELSE rows
                /\ IF like /\ asked > 0 /\ left > 1
                     THEN asked' = asked - 1 /\ left' = left - 1
                          /\ SameRound /\ UNCHANGED <<pc, at, step>>
                     ELSE KmNextPart /\ UNCHANGED asked
  /\ UNCHANGED <<driver, now, errors, alarmed>>

KmNext == KmInfo \/ KmDrain \/ KmCurrent \/ KmLast \/ KmRecord
=============================================================================
