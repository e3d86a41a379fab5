-------------------------------- MODULE Tekon --------------------------------
(***************************************************************************)
(* The Tekon-19 driver of tecon_19.cpp polling one device over UDP: the    *)
(* thread's passes over its channels, ReadDataCurrent, the hour walk of    *)
(* ReadAllArchive, and StoreData of func.cpp, with lost, late and garbled  *)
(* answers, database errors, stops, restarts and the passing of time.      *)
(*                                                                         *)
(* The socket does not block and read_tekon takes whatever datagram is     *)
(* first in it: nothing ties an answer to the request it answers.          *)
(* Units are hours; the record an hour has in the device is HourSlot of    *)
(* TekonCalendar, of which only the steps from hour to hour matter here.   *)
(***************************************************************************)
EXTENDS Integers, Sequences

CONSTANTS Chans,        \* number of channels of the device
          Span,         \* tp*5: how many records the walk goes back
          Lag,          \* the walk's dates start this far before now: 3
          First,        \* the oldest hour the device still holds
          Start,        \* the hour at which the model starts
          Horizon,      \* bound: time stops here
          HourSlot(_),  \* local hour -> record number
          Alarm,        \* failures in a row that are still tolerated, 15
          Faults,       \* what may happen to an answer
          MaxChan,      \* bound: channels loaded, over in-process restarts
          None          \* "no row", "no answer"

ASSUME TekonAssumption ==
  /\ Chans \in Nat \ {0}
  /\ Span \in Nat
  /\ Lag \in Nat \ {0}
  /\ First \in Nat
  /\ Start \in Nat
  /\ Horizon \in Nat
  /\ First + Span + Lag <= Start     \* a walk stays among the hours held,
  /\ Start <= Horizon                \* also when it takes until Horizon
  /\ Alarm \in Nat
  /\ Faults \subseteq {"lost", "late", "garbled"}
  /\ MaxChan \in Nat

(* Records are numbered down without a gap to record 0, and the hours held *)
(* at one time have records of their own.                                  *)
ASSUME SlotAssumption ==
  /\ \A u \in First .. Horizon + Lag :
       /\ HourSlot(u) \in Nat
       /\ HourSlot(u) > 0 /\ u > First => HourSlot(u - 1) = HourSlot(u) - 1
  /\ \A u, v \in First .. Horizon + Lag : HourSlot(u) = HourSlot(v) => u = v

VARIABLES now,          \* the local hour; hours before it are over
          pc,           \* where the thread is
          chan_num,     \* channels loaded
          r,            \* the channel in hand, from 0
          index, month, \* the walk: the record to read, the last one
          tims,         \* and the hour its value is dated with
          socket,       \* answers waiting to be received
          qerrors, conn, akt,
          data          \* prdata/hours rows of type 1: channel -> hour -> value

vars == <<now, pc, chan_num, r, index, month, tims, socket, qerrors, conn,
          akt, data>>

walk == <<index, month, tims>>
status == <<qerrors, conn, akt>>

-----------------------------------------------------------------------------
Channels == 0 .. Chans - 1

Units == First .. Horizon

(* An answer: a current value, the value of an hour, anything else.        *)
Reading(c, u) == <<"hour", c, u>>
Current(c) == <<"current", c>>
Service == <<"service">>
Noise == <<"noise">>

Answers == {Service, Noise} \cup {Current(c) : c \in 0 .. MaxChan}
             \cup {Reading(c, u) : c \in Channels, u \in First - 1 .. Horizon}

TypeOK ==
  /\ now \in Start .. Horizon
  /\ pc \in {"off", "open", "greet", "current", "archive", "hours", "check"}
  /\ chan_num \in 0 .. MaxChan
  /\ r \in 0 .. MaxChan /\ (pc = "hours" => r \in Channels)
  /\ index \in Nat
  /\ month \in Nat
  /\ tims \in Int
  /\ qerrors \in Nat
  /\ conn \in BOOLEAN
  /\ akt \in BOOLEAN
  /\ socket \in Seq(Answers)
  /\ data \in [Channels -> [Units -> Answers \cup {None}]]

(* The hour whose value record i holds: the one numbered i that is over.   *)
Held(i) ==
  LET us == {u \in First .. now - 1 : HourSlot(u + Lag) = i}
  IN  IF us = {} THEN First - 1 ELSE CHOOSE u \in us : TRUE

Init ==
  /\ now = Start
  /\ pc = "off"
  /\ chan_num = 0
  /\ r = 0
  /\ index = 0
  /\ month = 0
  /\ tims = 0
  /\ socket = <<>>
  /\ qerrors = 0
  /\ conn = FALSE
  /\ akt = TRUE
  /\ data = [c \in Channels |-> [u \in Units |-> None]]

-----------------------------------------------------------------------------
(* One request and the read that follows it 220 ms later.  A late answer   *)
(* is in the socket when the next request is made.                         *)

Arrived(answer, fate) ==
  socket \o (IF fate = "answered" THEN <<answer>>
             ELSE IF fate = "garbled" THEN <<Noise>> ELSE <<>>)

Got(answer, fate) ==
  LET box == Arrived(answer, fate)
  IN  IF box = <<>> THEN None ELSE Head(box)

Left(answer, fate) ==
  LET box == Arrived(answer, fate)
  IN  (IF box = <<>> THEN <<>> ELSE Tail(box))
        \o (IF fate = "late" THEN <<answer>> ELSE <<>>)

Fates == {"answered"} \cup Faults

-----------------------------------------------------------------------------
(* StoreData of an archive value: a row that is there stays as it is.  Its *)
(* UPDATE needs atof(row[3])==0 (in the overload with a channel it is      *)
(* disabled), and row[3] of prdata and hours is the type, never 0 here.    *)
StoreData(c, u, value) ==
  IF c \in Channels /\ u \in Units /\ data[c][u] = None
    THEN [data EXCEPT ![c][u] = value] ELSE data

-----------------------------------------------------------------------------
(* The thread starts: LoadTekonConfig counts the channels on top of those  *)
(* of the last start in this process, and copies the rest afresh.          *)

Load ==
  /\ pc = "off"
  /\ chan_num + Chans <= MaxChan
  /\ chan_num' = chan_num + Chans
  /\ qerrors' = 0
  /\ conn' = FALSE
  /\ akt' = TRUE
  /\ pc' = "open"
  /\ UNCHANGED <<now, r, walk, socket, data>>

(* OpenCom empties the port it opens, and a socket is a new one.           *)
Opened == <<>>

(* The line is opened for every pass: what was left in the old one is      *)
(* gone.  When that fails the thread tries again in the next pass.         *)
Open ==
  /\ pc = "open"
  /\ socket' = Opened
  /\ r' = 0
  /\ pc' = "greet"
  /\ UNCHANGED <<now, chan_num, walk, status, data>>

(* The requests with a frame of their own: one that wakes the adapter, the *)
(* access level, the task.  No answer to them is a value.                  *)
Greeted(fate) == Left(Service, fate)

(* Access level, task and clock of the device, before channel 0: the       *)
(* answers change nothing that is modelled.                                *)
Greet ==
  /\ pc = "greet"
  /\ \E fate \in Fates : socket' = Greeted(fate)
  /\ pc' = "current"
  /\ UNCHANGED <<now, chan_num, r, walk, status, data>>

(* Mutant: a good answer does not start the count again.                   *)
NoteCounting(ok) ==
  IF ok
    THEN conn' = TRUE /\ akt' = TRUE /\ qerrors' = qerrors
    ELSE /\ qerrors' = (IF qerrors > Alarm THEN qerrors ELSE qerrors + 1)
         /\ conn' = FALSE
         /\ akt' = (akt /\ qerrors + 1 <= Alarm)

(* A channel beyond those configured asks for parameter 0, which the       *)
(* device need not know.                                                   *)
FatesOf(c) == IF c \in Channels THEN Fates ELSE Fates \cup {"lost"}

(* The link's state after a current read.  qerrors is not counted past     *)
(* Alarm+1: nothing tells such values apart.                               *)
Note(ok) ==
  IF ok
    THEN conn' = TRUE /\ akt' = TRUE /\ qerrors' = 0
    ELSE /\ qerrors' = (IF qerrors > Alarm THEN qerrors ELSE qerrors + 1)
         /\ conn' = FALSE
         /\ akt' = (akt /\ qerrors + 1 <= Alarm)

ReadDataCurrent ==
  /\ pc = "current"
  /\ \E fate \in FatesOf(r) :
       /\ Note(Got(Current(r), fate) # None)
       /\ socket' = Left(Current(r), fate)
  /\ pc' = "archive"
  /\ UNCHANGED <<now, chan_num, r, walk, data>>

(* In the first twenty minutes of an hour no archive is read; a channel    *)
(* beyond those configured has no hour archive.                            *)
SkipArchive ==
  /\ pc = "archive"
  /\ pc' = "check"
  /\ UNCHANGED <<now, chan_num, r, walk, socket, status, data>>

(* Mutant: the loop is while (index>month), as that of the days.           *)
BeginWalkShort ==
  /\ pc = "archive"
  /\ r \in Channels
  /\ \E fate \in Fates : socket' = Left(Service, fate)
  /\ index' = HourSlot(now)
  /\ month' = (IF HourSlot(now) > Span THEN HourSlot(now) - Span ELSE 0) + 1
  /\ tims' = now - Lag
  /\ pc' = "hours"
  /\ UNCHANGED <<now, chan_num, r, status, data>>

(* Mutant: the dates start at the current hour.                            *)
BeginWalkNoLag ==
  /\ pc = "archive"
  /\ r \in Channels
  /\ \E fate \in Fates : socket' = Left(Service, fate)
  /\ index' = HourSlot(now)
  /\ month' = (IF HourSlot(now) > Span THEN HourSlot(now) - Span ELSE 0)
  /\ tims' = now
  /\ pc' = "hours"
  /\ UNCHANGED <<now, chan_num, r, status, data>>

(* The request before the loop is answered with a value nobody uses.       *)
BeginWalk ==
  /\ pc = "archive"
  /\ r \in Channels
  /\ \E fate \in Fates : socket' = Left(Service, fate)
  /\ index' = HourSlot(now)
  /\ month' = (IF HourSlot(now) > Span THEN HourSlot(now) - Span ELSE 0)
  /\ tims' = now - Lag
  /\ pc' = "hours"
  /\ UNCHANGED <<now, chan_num, r, status, data>>

(* One record: ask, read, store what came (the INSERT may fail unnoticed), *)
(* step back.  The walk ends at record 0, which it does not go round.      *)
ReadHour ==
  /\ pc = "hours"
  /\ \E fate \in Fates :
       LET answer == Reading(r, Held(index))
           value  == Got(answer, fate)
       IN  /\ socket' = Left(answer, fate)
           /\ \/ data' = IF value = None THEN data ELSE StoreData(r, tims, value)
              \/ data' = data
  /\ IF index = 0 \/ index - 1 < month
       THEN index' = 0 /\ tims' = 0 /\ pc' = "check"
       ELSE index' = index - 1 /\ tims' = tims - 1 /\ pc' = "hours"
  /\ UNCHANGED <<now, chan_num, r, month, status>>

(* The next channel, or the next pass.                                     *)
GoOn ==
  /\ pc = "check"
  /\ IF r + 1 < chan_num THEN r' = r + 1 /\ pc' = "current"
                         ELSE r' = 0 /\ pc' = "open"
  /\ UNCHANGED <<now, chan_num, walk, socket, status, data>>

(* The operator has switched the driver off: the thread ends here, with    *)
(* its socket open.  StartThreads may start it again in this process.      *)
Stop ==
  /\ pc = "check"
  /\ pc' = "off"
  /\ UNCHANGED <<now, chan_num, r, walk, socket, status, data>>

(* The process ends at any point: killed, or by the fault of taking a row  *)
(* from the result of a SELECT that failed.                                *)
Crash ==
  /\ chan_num # 0
  /\ pc' = "off"
  /\ chan_num' = 0
  /\ r' = 0
  /\ socket' = <<>>
  /\ UNCHANGED <<now, walk, status, data>>

(* The hour is over; the device writes its record.                         *)
Tick ==
  /\ now < Horizon
  /\ now' = now + 1
  /\ UNCHANGED <<pc, chan_num, r, walk, socket, status, data>>

Step ==
  \/ Load \/ Open \/ Greet \/ ReadDataCurrent \/ SkipArchive \/ BeginWalk
  \/ ReadHour \/ GoOn

Next == Step \/ Stop \/ Crash \/ Tick

Spec == Init /\ [][Next]_vars

-----------------------------------------------------------------------------
(* Devices answer, and fail to answer, for ever: what is tried again and   *)
(* again succeeds in the end.  Half an hour is long enough to read a       *)
(* channel, so the twenty minutes without archives are left in the end.    *)
Stored(c, u) == ReadHour /\ data[c][u] = None /\ data'[c][u] # None

Fairness ==
  /\ WF_vars(Step)
  /\ WF_vars(Tick)
  /\ \A c \in Channels : SF_vars(BeginWalk /\ r = c)
  /\ \A c \in Channels, u \in Units : SF_vars(Stored(c, u))

FairSpec == Spec /\ Fairness

-----------------------------------------------------------------------------
(* The archive promises of Ledger: lost answers, database errors, stops    *)
(* and crashes never put a value under another hour or channel, give an    *)
(* hour two values or take a value away.                                   *)
Archive == INSTANCE Ledger WITH book <- data

LedgerSpec == Archive!Spec

(* A device that counts as connected is active and has no failures on its  *)
(* account; one that counts as inactive has failed more than Alarm times.  *)
LinkTruthful ==
  /\ conn => akt /\ qerrors = 0
  /\ ~akt => qerrors > Alarm

(* What StoreData has written for an hour stays, whatever later answers    *)
(* say: first value wins, right or wrong.                                  *)
WriteOnce ==
  [][\A c \in Channels, u \in Units :
       data[c][u] # None => data'[c][u] = data[c][u]]_vars

(* The hours a walk at time t covers: Span back from its first one, but    *)
(* not beyond record 0.                                                    *)
Covered(t) ==
  LET back == IF HourSlot(t) > Span THEN Span ELSE HourSlot(t)
  IN  t - Lag - back .. t - Lag

(* A driver that keeps running fills every gap its walk still covers,      *)
(* however many answers and inserts were lost on the way.                  *)
CatchesUp ==
  <>[](pc # "off" /\ now = Horizon)
    => \A c \in Channels, u \in Covered(Horizon) : <>(data[c][u] # None)

(* The packets carry a number to tell the answers apart ("zapros + nomer   *)
(* paketa"): a value stored for an hour is the answer to the request for   *)
(* that hour, also when an answer is late.                                 *)
AnswersItsRequest ==
  \A c \in Channels, u \in Units : data[c][u] \in {None, Reading(c, u)}
=============================================================================
