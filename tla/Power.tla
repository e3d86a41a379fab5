-------------------------------- MODULE Power ---------------------------------
(***************************************************************************)
(* The drivers of the power meters, one of them in a behaviour, and what   *)
(* their rows are worth.                                                   *)
(***************************************************************************)
EXTENDS Mercury, Ce303, Ce102

powerVars == <<heatVars, merVars>>

PowerTypeOK ==
  /\ driver \in {"mercury", "ce303", "ce102"} /\ now \in Span[driver] /\ rest \in 0 .. 2
  /\ at \in 1 .. CASE driver = "mercury" -> Len(MerTable)
                   [] driver = "ce303" -> Len(CeTable)
                   [] driver = "ce102" -> Len(DevCe)
  /\ left >= 1 /\ step \in 0 .. 9
  /\ driver = "mercury" /\ pc = "hour" => asked >= 0 /\ (Mer.type = "m230" => asked < MerPlaces)
  /\ Len(flying) <= 1
  /\ \A w, x \in rows : w.key = x.key /\ w.key.date # Void => w = x
  /\ budget \in 0 .. MaxFaults[driver]
  /\ \A d \in DOMAIN errors : errors[d] \in 0 .. MerLimit
  /\ conn \in [MerMeters -> {"none", "up", "bus", "down"}]

PowerInit ==
  \/ MerInit
  \/ /\ CeInit \/ Ce102Init
     /\ known = FALSE /\ deaf = FALSE /\ conn = [d \in MerMeters |-> "none"]

PowerDriver == MerNext \/ (CeNext /\ UNCHANGED merVars) \/ (Ce102Next /\ UNCHANGED merVars)
(* While a session is opened and the months are read no step looks at the  *)
(* time, and it stays (a restriction: it saves states).                    *)
PowerWorld == ((pc \notin {"open", "info", "month", "monthtotal"} /\ Tick) \/ Die) /\ UNCHANGED merVars
PowerStopped == pc \in {"gone", "endless"} /\ UNCHANGED powerVars
PowerNext == PowerDriver \/ PowerWorld \/ PowerStopped

PowerSpec == PowerInit /\ [][PowerNext]_powerVars /\ WF_powerVars(PowerDriver)

-----------------------------------------------------------------------------
Of(w) == CHOOSE m \in {MerTable[r] : r \in DOMAIN MerTable} : m.dev = w.key.dev

(* Though one answer is lost, late or wrong, a current value of a meter    *)
(* behind a concentrator is that parameter's of that meter; no answer is   *)
(* compared with its request (mercury230.cpp:1174), but one that comes     *)
(* late makes the sum over both wrong.  It takes two faults, a late answer *)
(* and a lost one, or a refusal taken for a success (mercury230.cpp:1195), *)
(* to store what belongs elsewhere.                                        *)
MerCurrentsAreOwn ==
  driver = "mercury" /\ "refused" \notin hurt /\ dead = {} =>
    \A w \in rows : (\E p \in DOMAIN MerParams : w.key.kind = MerParams[p]) /\ Of(w).protocol = 13 =>
      w.value.dev = w.key.dev /\ w.value.kind = w.key.kind

(* The hours carry their dates: though one answer is lost, late, wrong or  *)
(* refused, an hour of a Mercury 230 behind a concentrator is of that hour *)
(* and of both its halves, as long as the walk neither starts nor gets     *)
(* below the first places of the ring; there it loses its step, and pairs  *)
(* halves of two hours (mercury230.cpp:507, :549).                         *)
HoursArePaired ==
  driver = "mercury" /\ now < MerPlaces =>
    \A w \in rows : w.key.kind = "hour" /\ Of(w).type = "m230" /\ Of(w).protocol = 13 /\ Of(w).early =>
      w.value = [kind |-> "hour", n |-> 2 * w.key.date, since |-> 2 * w.key.date, dev |-> w.key.dev]

(* With one fault, the value of a day is that of the day, or of the day    *)
(* before if midnight came between its request and its answer              *)
(* (mercury230.cpp:632), and that of a month is of the month before its    *)
(* date, unless the fault was a refusal.                                   *)
DaysAndMonthsAreOwn ==
  driver = "mercury" /\ "refused" \notin hurt /\ dead = {} =>
    \A w \in rows : w.key.kind \in {"day", "month"} /\ Of(w).protocol = 13 =>
      /\ w.value.dev = w.key.dev /\ w.value.kind = w.key.kind
      /\ w.key.kind = "day" => w.value.n \in {w.key.date - 1, w.key.date}
      /\ w.key.kind = "month" => w.value.n = w.key.date - 1 \/ w.key.date = Void

(* A value of a CE303 is that parameter's and of that meter, though        *)
(* answers are lost or late, because each carries its name; but the row of *)
(* the power holds the energy half of the time (ce303.cpp:180), and what   *)
(* ends in a line end with nothing in it repeats the value before.         *)
CeNamesProtect ==
  driver = "ce303" /\ "garbled" \notin hurt =>
    \A w \in rows : w.value.dev = w.key.dev /\ CeRowOf(w.value.kind) = w.key.kind

(* Though one answer is lost, late or wrong, the value of an hour of a     *)
(* CE102 is that of the hour, or of the hour before if that one ended      *)
(* between the request and the answer (ce102.cpp:167, :176).               *)
CeHoursAreOwn ==
  driver = "ce102" =>
    \A w \in rows : w.key.kind = "hour" =>
      /\ w.value.dev = w.key.dev /\ w.value.kind = "hour"
      /\ w.value.n \in {w.key.date - 1, w.key.date}

(* What the rows of the meters whose answers have no names are worth.      *)
RowsAreOwn == MerCurrentsAreOwn /\ HoursArePaired /\ DaysAndMonthsAreOwn /\ CeHoursAreOwn

(* A power meter whose link has come up is never shown without it: its     *)
(* failures are forgotten with each pass (LoadMercuryConfig), so that they *)
(* never become the many that are written down (mercury230.cpp:306).       *)
SilenceKeepsLink == [][\A d \in MerMeters : conn[d] = "up" => conn'[d] = "up"]_powerVars

-----------------------------------------------------------------------------
Stored(d, kind, date) == \E w \in rows : w.key = Key(d, 0, kind, date)

(* The meters are asked again and again, each Mercury and SET-4TM as long  *)
(* as the walk of a SET-4TM meets nothing that looks like a date near the  *)
(* end of an answer (mercury230.cpp:592), or the port could be opened.     *)
EachIsAsked ==
  \A r \in DOMAIN MerTable :
    (driver = "mercury") ~> (pc = "open" /\ at = r) \/ hurt \cap {"matched"} # {}

(* A month has its row in the next but one, unless it is a December, whose *)
(* date is in month 13 (mercury230.cpp:705).                               *)
MonthsArrive ==
  \A r \in DOMAIN MerTable, m \in {MonthOf(t) : t \in Span["mercury"]} :
    m % MonthsPerYear # 0 =>
      (driver = "mercury" /\ MonthOf(now) = m) ~>
        \/ Stored(MerTable[r].dev, "month", m)
        \/ hurt # {} \/ dead # {}
=============================================================================
