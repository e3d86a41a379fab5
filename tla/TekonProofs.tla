----------------------------- MODULE TekonProofs -----------------------------
(***************************************************************************)
(* What holds of Tekon for any device, window, lag and numbering of the    *)
(* records that meets the assumptions.                                     *)
(*                                                                         *)
(* Whatever happens to the answers: types, the link's state, and a stored  *)
(* value that stays.  When answers may be lost but are neither late nor    *)
(* garbled: the driver keeps a Ledger.  The argument is that nothing is    *)
(* ever left in the socket, so what is received answers the last request,  *)
(* and that all along a walk the record in hand is the one that holds the  *)
(* hour in hand, because both step back together above record 0.           *)
(***************************************************************************)
EXTENDS Tekon, TLAPS

USE DEF Opened, Greeted

LEMMA AnswersAre ==
  /\ Service \in Answers /\ Noise \in Answers
  /\ \A c \in 0 .. MaxChan : Current(c) \in Answers
  /\ \A c \in Channels, u \in First - 1 .. Horizon : Reading(c, u) \in Answers
BY DEF Answers

(* What is received and what is left are answers.                          *)
LEMMA ExchangeType ==
  ASSUME socket \in Seq(Answers), NEW a \in Answers, NEW fate
  PROVE  /\ Got(a, fate) \in Answers \cup {None}
         /\ Left(a, fate) \in Seq(Answers)
<1>1. Noise \in Answers
  BY AnswersAre
<1>2. Arrived(a, fate) \in Seq(Answers)
  <2>1. <<a>> \in Seq(Answers) /\ <<Noise>> \in Seq(Answers) /\ <<>> \in Seq(Answers)
    BY <1>1
  <2>2. (IF fate = "answered" THEN <<a>>
         ELSE IF fate = "garbled" THEN <<Noise>> ELSE <<>>) \in Seq(Answers)
    BY <2>1, Zenon
  <2> HIDE DEF Answers
  <2> DEFINE x == IF fate = "answered" THEN <<a>>
                  ELSE IF fate = "garbled" THEN <<Noise>> ELSE <<>>
  <2>3. x \in Seq(Answers)
    BY <2>2
  <2> HIDE DEF x
  <2>4. socket \o x \in Seq(Answers)
    BY <2>3
  <2> QED BY <2>4 DEF x, Arrived
<1> DEFINE box == Arrived(a, fate)
<1>3. box \in Seq(Answers)
  BY <1>2
<1> HIDE DEF box
<1>4. box # <<>> => Head(box) \in Answers /\ Tail(box) \in Seq(Answers)
  BY <1>3
<1>5. Got(a, fate) \in Answers \cup {None}
  <2>1. Got(a, fate) = IF box = <<>> THEN None ELSE Head(box)
    BY DEF Got, box
  <2> QED BY <1>4, <2>1, Zenon
<1>6. Left(a, fate) \in Seq(Answers)
  <2> DEFINE x == IF box = <<>> THEN <<>> ELSE Tail(box)
             y == IF fate = "late" THEN <<a>> ELSE <<>>
  <2>1. x \in Seq(Answers)
    <3>1. <<>> \in Seq(Answers)
      OBVIOUS
    <3> QED BY <1>4, <3>1, Zenon
  <2>2. y \in Seq(Answers)
    <3>1. <<>> \in Seq(Answers) /\ <<a>> \in Seq(Answers)
      OBVIOUS
    <3> QED BY <3>1, Zenon
  <2>3. Left(a, fate) = x \o y
    BY DEF Left, box
  <2> HIDE DEF x, y
  <2>4. x \o y \in Seq(Answers)
    BY <2>1, <2>2
  <2> QED BY <2>3, <2>4
<1> QED BY <1>5, <1>6

LEMMA HeldType ==
  ASSUME now \in Start .. Horizon, NEW i
  PROVE  Held(i) \in First - 1 .. Horizon
<1> DEFINE us == {u \in First .. now - 1 : HourSlot(u + Lag) = i}
<1>1. us # {} => (CHOOSE u \in us : TRUE) \in us
  OBVIOUS
<1>2. Held(i) = IF us = {} THEN First - 1 ELSE CHOOSE u \in us : TRUE
  BY DEF Held
<1>3. us \subseteq First - 1 .. Horizon
  BY TekonAssumption
<1>4. First - 1 \in First - 1 .. Horizon
  BY TekonAssumption
<1> HIDE DEF us
<1>5. CASE us = {}
  BY <1>2, <1>4, <1>5
<1>6. CASE us # {}
  BY <1>1, <1>2, <1>3, <1>6
<1> QED BY <1>5, <1>6

LEMMA StoreType ==
  ASSUME data \in [Channels -> [Units -> Answers \cup {None}]],
         NEW c, NEW u, NEW v \in Answers \cup {None}
  PROVE  StoreData(c, u, v) \in [Channels -> [Units -> Answers \cup {None}]]
BY DEF StoreData

-----------------------------------------------------------------------------
LEMMA InitType == Init => TypeOK
<1> SUFFICES ASSUME Init PROVE TypeOK
  OBVIOUS
<1>1. socket \in Seq(Answers)
  BY DEF Init
<1>2. data \in [Channels -> [Units -> Answers \cup {None}]]
  BY DEF Init
<1>3. now \in Start .. Horizon /\ chan_num \in 0 .. MaxChan
  BY TekonAssumption DEF Init
<1>4. pc = "off" /\ r \in 0 .. MaxChan /\ index \in Nat /\ month \in Nat
        /\ tims \in Int /\ qerrors \in Nat
  BY TekonAssumption DEF Init
<1>5. conn \in BOOLEAN /\ akt \in BOOLEAN
  BY DEF Init
<1> QED BY <1>1, <1>2, <1>3, <1>4, <1>5 DEF TypeOK

LEMMA StepType == TypeOK /\ [Next]_vars => TypeOK'
<1> SUFFICES ASSUME TypeOK, [Next]_vars PROVE TypeOK'
  OBVIOUS
<1> USE TekonAssumption
<1>1. CASE Load
  <2>1. chan_num' \in 0 .. MaxChan
    BY <1>1 DEF TypeOK, Load
  <2>2. pc' = "open" /\ qerrors' \in Nat
    BY <1>1 DEF Load
  <2>3. conn' \in BOOLEAN /\ akt' \in BOOLEAN
    BY <1>1 DEF Load
  <2>4. UNCHANGED <<now, r, walk, socket, data>>
    BY <1>1 DEF Load
  <2> QED BY <2>1, <2>2, <2>3, <2>4 DEF TypeOK, walk
<1>2. CASE Open
  <2>1. <<>> \in Seq(Answers)
    OBVIOUS
  <2> QED BY <1>2, <2>1 DEF TypeOK, Open, walk, status
<1>3. CASE Greet
  <2>1. socket' \in Seq(Answers)
    BY <1>3, ExchangeType, AnswersAre DEF TypeOK, Greet
  <2> QED BY <1>3, <2>1 DEF TypeOK, Greet, walk, status
<1>4. CASE ReadDataCurrent
  <2>1. socket' \in Seq(Answers)
    BY <1>4, ExchangeType, AnswersAre DEF TypeOK, ReadDataCurrent
  <2>2. qerrors' \in Nat /\ conn' \in BOOLEAN /\ akt' \in BOOLEAN
    <3>1. PICK fate \in FatesOf(r) : Note(Got(Current(r), fate) # None)
      BY <1>4 DEF ReadDataCurrent
    <3> DEFINE ok == Got(Current(r), fate) # None
    <3>2. CASE ok
      BY <3>1, <3>2 DEF Note
    <3>3. CASE ~ok
      <4>1. qerrors' \in Nat
        BY <3>1, <3>3 DEF Note, TypeOK
      <4>2. conn' \in BOOLEAN /\ akt' \in BOOLEAN
        BY <3>1, <3>3 DEF Note
      <4> QED BY <4>1, <4>2
    <3> QED BY <3>2, <3>3
  <2> QED BY <1>4, <2>1, <2>2 DEF TypeOK, ReadDataCurrent, walk
<1>5. CASE SkipArchive
  BY <1>5 DEF TypeOK, SkipArchive, walk, status
<1>6. CASE BeginWalk
  <2>1. socket' \in Seq(Answers)
    BY <1>6, ExchangeType, AnswersAre DEF TypeOK, BeginWalk
  <2>2. HourSlot(now) \in Nat
    BY SlotAssumption DEF TypeOK
  <2>3. index' \in Nat /\ month' \in Nat /\ tims' \in Int
    BY <1>6, <2>2 DEF TypeOK, BeginWalk
  <2> QED BY <1>6, <2>1, <2>3 DEF TypeOK, BeginWalk, status
<1>7. CASE ReadHour
  <2>1. PICK fate \in Fates :
          LET answer == Reading(r, Held(index))
              value  == Got(answer, fate)
          IN  /\ socket' = Left(answer, fate)
              /\ \/ data' = IF value = None THEN data ELSE StoreData(r, tims, value)
                 \/ data' = data
    BY <1>7 DEF ReadHour
  <2>2. Reading(r, Held(index)) \in Answers
    BY <1>7, HeldType, AnswersAre DEF ReadHour, TypeOK
  <2> DEFINE answer == Reading(r, Held(index))
             value == Got(answer, fate)
  <2>3. socket' = Left(answer, fate)
        /\ (data' = StoreData(r, tims, value) \/ data' = data)
    BY <2>1
  <2> HIDE DEF answer, value
  <2>4. value \in Answers \cup {None} /\ socket' \in Seq(Answers)
    BY <2>2, <2>3, ExchangeType DEF answer, value, TypeOK
  <2>5. data' \in [Channels -> [Units -> Answers \cup {None}]]
    BY <2>3, <2>4, StoreType DEF TypeOK
  <2>6. index' \in Nat /\ tims' \in Int /\ pc' \in {"check", "hours"}
    BY <1>7 DEF ReadHour, TypeOK
  <2>7. r \in Channels /\ UNCHANGED <<now, chan_num, r, month, status>>
    BY <1>7 DEF ReadHour, TypeOK
  <2> QED BY <2>4, <2>5, <2>6, <2>7 DEF TypeOK, status
<1>8. CASE GoOn
  BY <1>8 DEF TypeOK, GoOn, walk, status
<1>9. CASE Stop
  BY <1>9 DEF TypeOK, Stop, walk, status
<1>10. CASE Crash
  <2>1. <<>> \in Seq(Answers)
    OBVIOUS
  <2> QED BY <1>10, <2>1 DEF TypeOK, Crash, walk, status
<1>11. CASE Tick
  BY <1>11 DEF TypeOK, Tick, walk, status
<1>12. CASE UNCHANGED vars
  BY <1>12 DEF TypeOK, vars
<1> QED BY <1>1, <1>2, <1>3, <1>4, <1>5, <1>6, <1>7, <1>8, <1>9, <1>10,
           <1>11, <1>12 DEF Next, Step

(* Every variable keeps its range.                                         *)
THEOREM TekonType == Spec => []TypeOK
BY InitType, StepType, PTL DEF Spec

-----------------------------------------------------------------------------
(* A connected device is active and has no failures counted; one taken for *)
(* inactive has failed more than Alarm times in a row (tecon_19.cpp:203).  *)
THEOREM LinkState == Spec => []LinkTruthful
<1>1. Init => LinkTruthful
  BY DEF Init, LinkTruthful
<1>2. TypeOK /\ LinkTruthful /\ [Next]_vars => LinkTruthful'
  <2> SUFFICES ASSUME TypeOK, LinkTruthful, [Next]_vars
               PROVE  LinkTruthful'
    OBVIOUS
  <2>1. CASE ReadDataCurrent
    <3>1. PICK fate \in FatesOf(r) : Note(Got(Current(r), fate) # None)
      BY <2>1 DEF ReadDataCurrent
    <3>2. CASE Got(Current(r), fate) # None
      BY <3>1, <3>2 DEF Note, LinkTruthful
    <3>3. CASE ~(Got(Current(r), fate) # None)
      <4>1. /\ qerrors' = IF qerrors > Alarm THEN qerrors ELSE qerrors + 1
            /\ conn' = FALSE
            /\ akt' = (akt /\ qerrors + 1 <= Alarm)
        BY <3>1, <3>3 DEF Note
      <4>2. qerrors \in Nat /\ Alarm \in Nat
        BY TekonAssumption DEF TypeOK
      <4>3. qerrors > Alarm \/ qerrors + 1 <= Alarm \/ qerrors' > Alarm
        BY <4>1, <4>2
      <4>4. qerrors > Alarm => qerrors' > Alarm
        BY <4>1
      <4>5. ~akt => qerrors > Alarm
        BY DEF LinkTruthful
      <4>6. ~akt' => qerrors' > Alarm
        BY <4>1, <4>3, <4>4, <4>5, Zenon
      <4> QED BY <4>1, <4>6 DEF LinkTruthful
    <3> QED BY <3>2, <3>3
  <2>2. CASE Load
    BY <2>2 DEF Load, LinkTruthful
  <2>3. CASE UNCHANGED status
    BY <2>3 DEF status, LinkTruthful
  <2> QED BY <2>1, <2>2, <2>3
          DEF Next, Step, Open, Greet, SkipArchive, BeginWalk, ReadHour, GoOn,
              Stop, Crash, Tick, vars, status
<1> QED BY <1>1, <1>2, TekonType, PTL DEF Spec

(* First value wins, whatever happens to the answers (func.cpp:307-324).   *)
THEOREM FirstValueStays == Spec => WriteOnce
<1>1. TypeOK /\ [Next]_vars
        => [\A c \in Channels, u \in Units :
              data[c][u] # None => data'[c][u] = data[c][u]]_vars
  <2> SUFFICES ASSUME TypeOK, Next, NEW c \in Channels, NEW u \in Units,
                      data[c][u] # None
               PROVE  data'[c][u] = data[c][u]
    OBVIOUS
  <2>1. CASE ReadHour
    <3>1. data' = data \/ \E v : data' = StoreData(r, tims, v)
      BY <2>1 DEF ReadHour
    <3>2. ASSUME NEW v, data' = StoreData(r, tims, v)
          PROVE  data'[c][u] = data[c][u]
      BY <3>2 DEF StoreData, TypeOK
    <3> QED BY <3>1, <3>2
  <2>2. CASE data' = data
    BY <2>2
  <2> QED BY <2>1, <2>2
          DEF Next, Step, Load, Open, Greet, ReadDataCurrent, SkipArchive,
              BeginWalk, GoOn, Stop, Crash, Tick
<1> QED BY <1>1, TekonType, PTL DEF Spec, WriteOnce

-----------------------------------------------------------------------------
(* The link loses answers and does nothing worse.                          *)
OnlyLost == Faults \subseteq {"lost"}

NothingLeft == socket = <<>>

(* In a walk the record is that of the date, and the way down to month     *)
(* stays among the hours the device holds.                                 *)
InStep ==
  pc = "hours" =>
    /\ month <= index
    /\ First <= tims - (index - month)
    /\ tims + Lag <= now
    /\ HourSlot(tims + Lag) = index

IInv == TypeOK /\ InStep /\ NothingLeft

LEMMA Received ==
  ASSUME OnlyLost, NothingLeft, NEW a, NEW fate \in Fates \cup {"lost"}
  PROVE  Got(a, fate) \in {None, a} /\ Left(a, fate) = <<>>
<1>0. <<>> \o <<>> = <<>> /\ <<>> \o <<a>> = <<a>>
  <2>1. <<>> \in Seq({a}) /\ <<a>> \in Seq({a})
    OBVIOUS
  <2> QED BY <2>1
<1>1. CASE fate = "answered"
  <2>1. Arrived(a, fate) = <<a>>
    BY <1>0, <1>1, Zenon DEF Arrived, NothingLeft
  <2>2. Head(<<a>>) = a /\ Tail(<<a>>) = <<>> /\ <<a>> # <<>>
    OBVIOUS
  <2>3. Got(a, fate) = a
    BY <2>1, <2>2, Zenon DEF Got
  <2>4. fate # "late"
    BY <1>1
  <2>5. Left(a, fate) = <<>>
    BY <1>0, <2>1, <2>2, <2>4, Zenon DEF Left
  <2> QED BY <2>3, <2>5
<1>2. CASE fate = "lost"
  <2>1. fate # "answered" /\ fate # "garbled" /\ fate # "late"
    BY <1>2
  <2>2. Arrived(a, fate) = <<>>
    BY <1>0, <2>1, Zenon DEF Arrived, NothingLeft
  <2>3. Got(a, fate) = None
    BY <2>2, Zenon DEF Got
  <2>4. Left(a, fate) = <<>>
    BY <1>0, <2>1, <2>2, Zenon DEF Left
  <2> QED BY <2>3, <2>4
<1> QED BY <1>1, <1>2 DEF Fates, OnlyLost

(* The record in hand holds the hour in hand.                              *)
LEMMA RightHour ==
  ASSUME TypeOK, InStep, pc = "hours"
  PROVE  tims \in Units /\ Held(index) = tims
<1> USE TekonAssumption DEF TypeOK, InStep
<1>1. tims \in First .. now - 1 /\ now <= Horizon
  OBVIOUS
<1>2. tims \in Units
  BY <1>1 DEF Units
<1>3. ASSUME NEW u \in First .. now - 1, HourSlot(u + Lag) = index
      PROVE  u = tims
  <2>1. u + Lag \in First .. Horizon + Lag /\ tims + Lag \in First .. Horizon + Lag
    BY <1>1
  <2>2. HourSlot(u + Lag) = HourSlot(tims + Lag)
    BY <1>3
  <2>3. u + Lag = tims + Lag
    BY <2>1, <2>2, SlotAssumption
  <2> QED BY <1>1, <2>3
<1>4. HourSlot(tims + Lag) = index
  OBVIOUS
<1>5. {u \in First .. now - 1 : HourSlot(u + Lag) = index} = {tims}
  BY <1>1, <1>3, <1>4
<1>6. (CHOOSE u \in {tims} : TRUE) = tims
  OBVIOUS
<1>7. Held(index) = tims
  BY <1>5, <1>6 DEF Held
<1> QED BY <1>2, <1>7

LEMMA StepInStep ==
  ASSUME TypeOK, InStep, [Next]_vars PROVE InStep'
<1> USE TekonAssumption
<1>1. CASE BeginWalk
  <2>1. HourSlot(now) \in Nat
    BY SlotAssumption DEF TypeOK
  <2>2. now - Lag + Lag = now
    BY DEF TypeOK
  <2>3. HourSlot(tims' + Lag) = index'
    BY <1>1, <2>2 DEF BeginWalk
  <2>4. month' <= index' /\ index' - month' <= Span
    BY <1>1, <2>1 DEF BeginWalk
  <2>5. First <= tims' - (index' - month') /\ tims' + Lag <= now'
    BY <1>1, <2>1, <2>4 DEF BeginWalk, TypeOK
  <2> QED BY <2>3, <2>4, <2>5 DEF InStep
<1>2. CASE ReadHour
  <2>1. pc = "hours" /\ month' = month /\ now' = now
    BY <1>2 DEF ReadHour
  <2>2. CASE index = 0 \/ index - 1 < month
    BY <1>2, <2>2 DEF ReadHour, InStep
  <2>3. CASE ~(index = 0 \/ index - 1 < month)
    <3>1. index' = index - 1 /\ tims' = tims - 1
      BY <1>2, <2>3 DEF ReadHour
    <3>2. index > 0 /\ month <= index - 1
      BY <2>3 DEF TypeOK
    <3>3. tims + Lag \in First .. Horizon + Lag /\ tims + Lag > First
      BY <2>1, <3>2 DEF TypeOK, InStep
    <3>4. HourSlot(tims + Lag) = index
      BY <2>1 DEF InStep
    <3>5. \A u \in First .. Horizon + Lag :
            HourSlot(u) > 0 /\ u > First => HourSlot(u - 1) = HourSlot(u) - 1
      BY SlotAssumption
    <3>6. HourSlot(tims + Lag) > 0
      BY <3>2, <3>4 DEF TypeOK
    <3>7. PICK u \in First .. Horizon + Lag : u = tims + Lag
      BY <3>3
    <3>8. HourSlot(u - 1) = HourSlot(u) - 1
      BY <3>3, <3>5, <3>6, <3>7
    <3>9. tims' + Lag = u - 1
      BY <3>1, <3>7 DEF TypeOK
    <3>10. HourSlot(tims' + Lag) = index'
      BY <3>1, <3>4, <3>7, <3>8, <3>9
    <3> QED BY <2>1, <3>1, <3>2, <3>10 DEF InStep, TypeOK
  <2> QED BY <2>2, <2>3
<1>3. CASE Tick
  BY <1>3 DEF Tick, walk, InStep, TypeOK
<1>4. CASE UNCHANGED <<pc, walk, now>>
  BY <1>4 DEF walk, InStep
<1>5. CASE pc' # "hours"
  BY <1>5 DEF InStep
<1> QED BY <1>1, <1>2, <1>3, <1>4, <1>5
        DEF Next, Step, Load, Open, Greet, ReadDataCurrent, SkipArchive, GoOn,
            Stop, Crash, vars, walk

LEMMA StepNothingLeft ==
  ASSUME OnlyLost, NothingLeft, [Next]_vars PROVE NothingLeft'
<1>1. CASE Greet
  BY <1>1, Received DEF Greet, NothingLeft
<1>2. CASE ReadDataCurrent
  BY <1>2, Received DEF ReadDataCurrent, FatesOf, NothingLeft
<1>3. CASE BeginWalk
  BY <1>3, Received DEF BeginWalk, NothingLeft
<1>4. CASE ReadHour
  BY <1>4, Received DEF ReadHour, NothingLeft
<1>5. CASE socket' = socket \/ socket' = <<>>
  BY <1>5 DEF NothingLeft
<1> QED BY <1>1, <1>2, <1>3, <1>4, <1>5
        DEF Next, Step, Load, Open, SkipArchive, GoOn, Stop, Crash, Tick, vars

LEMMA InitIInv == Init => IInv
BY InitType DEF Init, IInv, InStep, NothingLeft

(* A step of the driver is an entry in the ledger or no change of it.      *)
LEMMA StepLedger ==
  ASSUME OnlyLost, IInv, [Next]_vars
  PROVE  [Archive!Next]_data
<1>1. CASE ReadHour
  <2>1. tims \in Units /\ Held(index) = tims
    BY <1>1, RightHour DEF IInv, ReadHour
  <2>2. r \in Channels
    BY <1>1 DEF IInv, TypeOK, ReadHour
  <2>3. PICK fate \in Fates :
          \/ data' = IF Got(Reading(r, tims), fate) = None THEN data
                     ELSE StoreData(r, tims, Got(Reading(r, tims), fate))
          \/ data' = data
    BY <1>1, <2>1 DEF ReadHour
  <2>4. Got(Reading(r, tims), fate) \in {None, Reading(r, tims)}
    BY Received DEF IInv
  <2>5. data' = data \/ data' = StoreData(r, tims, Reading(r, tims))
    BY <2>3, <2>4
  <2>6. CASE data' = StoreData(r, tims, Reading(r, tims)) /\ data' # data
    <3>1. data[r][tims] = None
          /\ data' = [data EXCEPT ![r][tims] = Reading(r, tims)]
      BY <2>6 DEF StoreData
    <3>2. Archive!Enter(r, tims)
      BY <3>1 DEF Archive!Enter
    <3> QED BY <2>1, <2>2, <3>2 DEF Archive!Next
  <2> QED BY <2>5, <2>6
<1>2. CASE data' = data
  BY <1>2
<1> QED BY <1>1, <1>2
        DEF Next, Step, Load, Open, Greet, ReadDataCurrent, SkipArchive,
            BeginWalk, GoOn, Stop, Crash, Tick, vars

(* With nothing worse than lost answers, the driver implements Ledger:     *)
(* every value it writes is that of the channel and the hour it is written *)
(* for, once, over every restart, crash and database error.                *)
THEOREM DriverKeepsLedger == OnlyLost => (Spec => LedgerSpec)
<1> SUFFICES ASSUME OnlyLost PROVE Spec => LedgerSpec
  OBVIOUS
<1>1. Init => Archive!Init
  BY DEF Init, Archive!Init
<1>2. IInv /\ [Next]_vars => IInv'
  BY StepType, StepInStep, StepNothingLeft DEF IInv
<1>3. IInv /\ [Next]_vars => [Archive!Next]_data
  BY StepLedger
<1> QED BY <1>1, <1>2, <1>3, InitIInv, PTL DEF Spec, LedgerSpec, Archive!Spec

=============================================================================
