------------------------------ MODULE MeterProofs ------------------------------
(***************************************************************************)
(* The drivers of the heat meters and of the power meters, for any tables  *)
(* of meters, walks and faults.                                            *)
(***************************************************************************)
EXTENDS Heat, Power, TLAPS

(* What a read gets begins with what was under way, if anything was.       *)
LEMMA InFront ==
  ASSUME NEW f, NEW g
  PROVE  /\ <<>> \o <<>> = <<>> /\ <<>> \o <<g>> = <<g>> /\ <<f>> \o <<>> = <<f>>
         /\ Len(<<f>> \o <<g>>) = 2 /\ (<<f>> \o <<g>>)[1] = f
OBVIOUS

LEMMA Arrives ==
  ASSUME NEW answer, NEW got, Heard(answer, got), answer.what # "silence"
  PROVE  /\ flying' \in {<<>>, <<answer>>} /\ hurt \subseteq hurt'
         /\ "garbled" \notin hurt' => got \in {flying \o <<>>, flying \o <<answer>>}
<1>1. \/ /\ flying' = <<>> /\ UNCHANGED hurt
         /\ got = flying \o <<>> \/ got = flying \o <<answer>>
      \/ flying' = <<>> /\ hurt' = hurt \cup {"lost"} /\ got = flying \o <<>>
      \/ flying' = <<answer>> /\ hurt' = hurt \cup {"late"} /\ got = flying \o <<>>
      \/ flying' = <<>> /\ hurt' = hurt \cup {"garbled"}
  BY DEF Heard
<1>2. QED BY <1>1

-----------------------------------------------------------------------------
VktRowsAreOwn ==
  \A w \in rows : w.key.kind \in {"hour", "day"} =>
    /\ w.value.dev = w.key.dev /\ w.value.kind = w.key.kind
    /\ w.value.n = w.key.date

(* As long as nothing but dates and greetings has been refused, the meter  *)
(* has the list, the type and the date the driver has in mind.             *)
VktInv ==
  driver = "vkt" =>
    /\ step \in 1 .. 3 /\ DOMAIN meter = {"list", "type", "date"}
    /\ pc = "date" => VktKind # "total"
    /\ pc = "data" /\ VktKind = "total" => left = 1
    /\ hurt \subseteq {"date", "greeting"} =>
         /\ VktRowsAreOwn
         /\ pc \in {"type", "date", "data"} =>
              meter.list = IF VktKind = "total" THEN "total" ELSE "archive"
         /\ pc \in {"date", "data"} => meter.type = VktKind
         /\ pc = "data" /\ VktKind # "total" => meter.date = asked

LEMMA Kinds ==
  ASSUME step \in 1 .. 3
  PROVE  VktKind \in {"hour", "day", "total"} /\ (step % 3) + 1 \in 1 .. 3
BY DEF VktKind, Parts

(* What is done after a date leaves what is known of the meter alone.      *)
LEMMA NextDate ==
  ASSUME step \in 1 .. 3, VktKind = "total" => left = 1, VktNextDate
  PROVE  /\ step' \in 1 .. 3 /\ pc' \in {"date", "list"}
         /\ pc' = "date" => step' = step /\ VktKind # "total"
<1>1. CASE left > 1
  BY <1>1 DEF VktNextDate
<1>2. CASE ~(left > 1)
  BY <1>2, Kinds DEF VktNextDate
<1>3. QED BY <1>1, <1>2

LEMMA CallHurts ==
  ASSUME NEW call, NEW accident, Call(call, accident)
  PROVE  /\ hurt \subseteq hurt' /\ call \in {"answered", "refused"}
         /\ call = "refused" => accident \in hurt'
BY DEF Call

LEMMA VktBeforeWalk ==
  ASSUME VktInv, VktGreet \/ VktList \/ VktType PROVE VktInv'
<1> SUFFICES ASSUME driver' = "vkt" PROVE VktInv'
  BY DEF VktInv
<1>1. CASE VktGreet
  <2>1. UNCHANGED <<driver, step, rows, meter>> /\ pc' \in {"greet", "list"} /\ hurt \subseteq hurt'
    BY <1>1, CallHurts DEF VktGreet
  <2>2. QED BY <1>1, <2>1 DEF VktInv, VktRowsAreOwn, VktKind, VktGreet
<1>2. CASE VktList
  <2>1. PICK call \in {"answered", "refused"} :
          /\ Call(call, "list")
          /\ meter' = IF call = "refused" THEN meter
                      ELSE [meter EXCEPT !.list = IF VktKind = "total" THEN "total" ELSE "archive"]
    BY <1>2 DEF VktList
  <2>0. DOMAIN meter = {"list", "type", "date"} /\ DOMAIN meter' = DOMAIN meter
    BY <1>2, <2>1 DEF VktInv, VktList
  <2>2. UNCHANGED <<driver, step, rows>> /\ pc' = "type" /\ hurt \subseteq hurt'
    BY <1>2, <2>1, CallHurts DEF VktList
  <2>3. hurt' \subseteq {"date", "greeting"} => call = "answered"
    BY <2>1, CallHurts
  <2>4. driver = "vkt" /\ VktKind' = VktKind
    BY <1>2, <2>2 DEF VktList, VktKind
  <2>5. call = "answered" => meter'.list = IF VktKind = "total" THEN "total" ELSE "archive"
    BY <2>1, <2>0
  <2>6. QED BY <2>2, <2>3, <2>4, <2>5, <2>0 DEF VktInv, VktRowsAreOwn
<1>3. CASE VktType
  <2>1. PICK call \in {"answered", "refused"} :
          /\ Call(call, "type")
          /\ meter' = IF call = "refused" THEN meter ELSE [meter EXCEPT !.type = VktKind]
    BY <1>3 DEF VktType
  <2>0. DOMAIN meter = {"list", "type", "date"} /\ DOMAIN meter' = DOMAIN meter
    BY <1>3, <2>1 DEF VktInv, VktType
  <2>2. /\ UNCHANGED <<driver, step, rows>> /\ hurt \subseteq hurt'
        /\ pc' = (IF VktKind = "total" THEN "data" ELSE "date")
        /\ left' = (IF VktKind = "total" THEN 1 ELSE Depth)
    BY <1>3, <2>1, CallHurts DEF VktType
  <2>3. hurt' \subseteq {"date", "greeting"} => call = "answered"
    BY <2>1, CallHurts
  <2>4. driver = "vkt" /\ pc = "type" /\ VktKind' = VktKind
    BY <1>3, <2>2 DEF VktType, VktKind
  <2>5. call = "answered" => meter'.list = meter.list /\ meter'.type = VktKind
    BY <2>1, <2>0
  <2>6. QED BY <2>2, <2>3, <2>4, <2>5, <2>0 DEF VktInv, VktRowsAreOwn
<1>4. QED BY <1>1, <1>2, <1>3

LEMMA VktDateStep == ASSUME VktInv, VktDate PROVE VktInv'
<1>1. PICK call \in {"answered", "refused"} :
        /\ IF Known(meter.type, asked) THEN Call(call, "date")
           ELSE call = "refused" /\ Call("answered", "date")
        /\ meter' = IF call = "refused" THEN meter ELSE [meter EXCEPT !.date = asked]
        /\ IF Skips(call) THEN VktNextDate
           ELSE pc' = "data" /\ SameRound /\ UNCHANGED <<step, left, asked>>
  BY DEF VktDate
<1>2. driver = "vkt" /\ pc = "date" /\ UNCHANGED <<driver, rows>> /\ step \in 1 .. 3 /\ VktKind # "total"
      /\ DOMAIN meter = {"list", "type", "date"} /\ DOMAIN meter' = DOMAIN meter
  BY <1>1 DEF VktDate, VktInv
<1>3. hurt \subseteq hurt'
  BY <1>1, CallHurts
<1>4. CASE call = "refused"
  <2>1. step' \in 1 .. 3 /\ pc' \in {"date", "list"} /\ (pc' = "date" => step' = step) /\ meter' = meter
    BY <1>1, <1>2, <1>4, NextDate DEF Skips
  <2>2. pc' = "date" => VktKind' = VktKind
    BY <2>1 DEF VktKind
  <2>3. QED BY <1>2, <1>3, <2>1, <2>2 DEF VktInv, VktRowsAreOwn
<1>5. CASE call = "answered"
  <2>1. pc' = "data" /\ UNCHANGED <<step, asked>>
    BY <1>1, <1>5 DEF Skips
  <2>2. hurt' \subseteq {"date", "greeting"} =>
          meter'.list = meter.list /\ meter'.type = meter.type
    BY <1>1, <1>2, <1>5
  <2>3. meter'.date = asked
    BY <1>1, <1>2, <1>5
  <2>4. VktKind' = VktKind
    BY <2>1 DEF VktKind
  <2>5. QED BY <1>2, <1>3, <2>1, <2>2, <2>3, <2>4 DEF VktInv, VktRowsAreOwn
<1>6. QED BY <1>4, <1>5

(* What the meter has in its registers is the record that was asked for.   *)
LEMMA VktContent ==
  ASSUME VktInv, driver = "vkt", pc = "data", hurt \subseteq {"date", "greeting"}
  PROVE  IF VktKind = "total" THEN Content = Frame("record", DevVkt, "total", now)
         ELSE Content = Frame("record", DevVkt, VktKind, Place(VktKind, asked))
<1>1. step \in 1 .. 3
  BY DEF VktInv
<1>2. VktKind \in {"hour", "day", "total"}
  BY <1>1, Kinds
<1>3. /\ meter.type = VktKind
      /\ meter.list = (IF VktKind = "total" THEN "total" ELSE "archive")
      /\ VktKind # "total" => meter.date = asked
  BY DEF VktInv
<1>4. CASE VktKind = "total"
  BY <1>3, <1>4 DEF Content
<1>5. CASE VktKind \in {"hour", "day"}
  <2>1. meter.type \in {"hour", "day"} /\ meter.list = "archive" /\ VktKind # "total"
    BY <1>3, <1>5
  <2>2. meter.date = asked
    BY <1>3, <2>1
  <2>3. Content = Frame("record", DevVkt, meter.type, Place(meter.type, meter.date))
    BY <2>1 DEF Content
  <2>4. QED BY <1>3, <2>1, <2>2, <2>3
<1>6. QED BY <1>2, <1>4, <1>5

LEMMA VktDataStep == ASSUME VktInv, VktData PROVE VktInv'
<1>1. PICK call \in {"answered", "refused"} :
        Call(call, "data") /\ buffer' = (IF call = "refused" THEN buffer ELSE Content)
  BY DEF VktData
<1>2. /\ driver = "vkt" /\ pc = "data" /\ UNCHANGED <<driver, meter>> /\ step \in 1 .. 3
      /\ VktKind = "total" => left = 1
      /\ rows' = VktStored(buffer') /\ VktNextDate
      /\ DOMAIN meter = {"list", "type", "date"}
  BY DEF VktData, VktInv
<1>3. hurt \subseteq hurt' /\ (hurt' \subseteq {"date", "greeting"} => call = "answered")
  BY <1>1, CallHurts
<1>4. step' \in 1 .. 3 /\ pc' \in {"date", "list"} /\ (pc' = "date" => step' = step /\ VktKind # "total")
  BY <1>2, NextDate
<1>5. pc' = "date" => VktKind' = VktKind
  BY <1>4 DEF VktKind
<1>6. hurt' \subseteq {"date", "greeting"} => VktRowsAreOwn'
  <2> SUFFICES ASSUME hurt' \subseteq {"date", "greeting"} PROVE VktRowsAreOwn'
    OBVIOUS
  <2>1. VktRowsAreOwn /\ buffer' = Content
    BY <1>1, <1>2, <1>3 DEF VktInv
  <2> DEFINE value == [Value(buffer'.kind, buffer'.n) EXCEPT !.dev = buffer'.dev]
             key == Key(DevVkt, 0, VktKind, Place(VktKind, asked))
             total == [key |-> Key(DevVkt, 0, "total", 0), value |-> value]
             heat == [key |-> Key(DevVkt, 0, "heat", 0), value |-> value]
             row == [key |-> key, value |-> value]
  <2>2. VktKind \in {"hour", "day", "total"}
    BY <1>2, Kinds
  <2>3. \A w \in rows' :
          \/ w \in rows \/ w = total \/ w = heat \/ (VktKind # "total" /\ w = row)
    BY <1>2 DEF VktStored, VktCurrentRow, VktArchiveRow, StoreCurrent, StoreArchive, RowOf
  <2>4. total.key.kind = "total" /\ heat.key.kind = "heat"
    BY DEF Key
  <2>5. VktKind # "total" =>
          /\ row.value.dev = row.key.dev /\ row.value.kind = row.key.kind
          /\ row.value.n = row.key.date
    <3> SUFFICES ASSUME VktKind # "total"
                 PROVE  /\ row.value.dev = row.key.dev /\ row.value.kind = row.key.kind
                        /\ row.value.n = row.key.date
      OBVIOUS
    <3>1. buffer' = Frame("record", DevVkt, VktKind, Place(VktKind, asked))
      BY <1>2, <1>3, <2>1, VktContent
    <3>2. QED BY <3>1 DEF Frame, Value, Key
  <2> HIDE DEF total, heat, row
  <2>6. QED BY <2>1, <2>3, <2>4, <2>5 DEF VktRowsAreOwn
<1>7. QED BY <1>2, <1>3, <1>4, <1>5, <1>6 DEF VktInv

LEMMA OthersThanVkt ==
  KmNext \/ IrpNext => driver' = driver /\ driver \in {"km5", "irp"}
BY DEF KmNext, KmInfo, KmDrain, KmCurrent, KmLast, KmRecord,
       IrpNext, IrpPointer, IrpBlock, IrpCurrent

LEMMA InitVkt == Init => VktInv
BY DEF Init, KmInit, IrpInit, VktInit, VktConnected, HeatInit, VktInv, VktRowsAreOwn, VktKind, Parts

LEMMA StepVkt == ASSUME VktInv, [Next]_vars PROVE VktInv'
<1>1. CASE UNCHANGED vars
  BY <1>1 DEF VktInv, VktRowsAreOwn, VktKind, vars, heatVars, lineVars, vktVars
<1>2. CASE World
  BY <1>2 DEF World, Tick, Die, lineVars, vktVars, VktInv, VktRowsAreOwn, VktKind
<1>3. CASE VktNext
  BY <1>3, VktBeforeWalk, VktDateStep, VktDataStep DEF VktNext
<1>4. CASE KmNext \/ IrpNext
  BY <1>4, OthersThanVkt DEF VktInv
<1>5. QED BY <1>1, <1>2, <1>3, <1>4 DEF Next, Driver, Stopped

(* However many dates are refused, a row of a VKT-7 is of the kind and the *)
(* date it is stored under, until a call of another kind is refused.       *)
THEOREM VktRefusals == Spec => []RefusedDatesAreHarmless
<1>1. Init => VktInv
  BY InitVkt
<1>2. VktInv /\ [Next]_vars => VktInv'
  BY StepVkt
<1>3. VktInv => RefusedDatesAreHarmless
  BY DEF VktInv, VktRowsAreOwn, RefusedDatesAreHarmless, Own, Dated
<1>4. QED BY <1>1, <1>2, <1>3, PTL DEF Spec

-----------------------------------------------------------------------------
(* What the lines below know of the table of channels: SelectSeq keeps     *)
(* some of the rows of the table (its definition the provers do not have). *)
KmRow == [dev : Nat, pipe : Nat \ {0}, heat : BOOLEAN,
          kinds : {<<"hour", "day", "month">>, <<"hour">>, <<"day", "month">>}]
KmOnLine == KmTable # <<>> /\ KmTable \in Seq({DevKm[c] : c \in DOMAIN DevKm})

Clocked == {"km5", "vkt", "irp"} \subseteq DOMAIN Span

LEMMA Channels ==
  ASSUME KmOnLine
  PROVE  /\ KmTable \in Seq(KmRow) /\ Len(KmTable) \in Nat \ {0}
         /\ DOMAIN KmTable = 1 .. Len(KmTable)
<1>1. \A c \in DOMAIN DevKm : DevKm[c] \in KmRow
  <2>1. DevKm \in Seq(KmRow)
    BY KmAssumption DEF KmRow
  <2>2. QED BY <2>1
<1>2. KmTable \in Seq(KmRow)
  BY <1>1 DEF KmOnLine
<1>3. Len(KmTable) # 0
  BY <1>2 DEF KmOnLine
<1>4. QED BY <1>2, <1>3

(* The part of the round says the kind of the archive.                     *)
LEMMA PartKinds ==
  ASSUME KmOnLine, at \in 1 .. Len(KmTable), step \in 1 .. 2 * Len(Ch.kinds)
  PROVE  /\ Ch \in KmRow /\ Len(Ch.kinds) \in 1 .. 3
         /\ KmKind \in {"hour", "day", "month"}
         /\ KmKind = "hour" => step \in {1, Len(Ch.kinds) + 1} /\ Ch.kinds[1] = "hour"
         /\ step = 1 /\ Ch.kinds[1] = "hour" => KmKind = "hour"
<1>1. Ch \in KmRow
  BY Channels DEF Ch
<1>2. Ch.kinds \in {<<"hour", "day", "month">>, <<"hour">>, <<"day", "month">>}
  BY <1>1 DEF KmRow
<1>3. CASE Ch.kinds = <<"hour", "day", "month">>
  <2>1. Len(Ch.kinds) = 3 /\ step \in 1 .. 6
    BY <1>3
  <2>2. /\ Ch.kinds[1] = "hour" /\ Ch.kinds[2] = "day" /\ Ch.kinds[3] = "month"
    BY <1>3
  <2>3. KmKind = Ch.kinds[((step - 1) % 3) + 1]
    BY <2>1 DEF KmKind
  <2>4. ((step - 1) % 3) + 1 = (IF step \in {1, 4} THEN 1 ELSE IF step \in {2, 5} THEN 2 ELSE 3)
    BY <2>1
  <2>5. QED BY <1>1, <2>1, <2>2, <2>3, <2>4
<1>4. CASE Ch.kinds = <<"hour">>
  <2>1. Len(Ch.kinds) = 1 /\ step \in 1 .. 2 /\ Ch.kinds[1] = "hour"
    BY <1>4
  <2>2. ((step - 1) % 1) + 1 = 1
    BY <2>1
  <2>3. QED BY <1>1, <2>1, <2>2 DEF KmKind
<1>5. CASE Ch.kinds = <<"day", "month">>
  <2>1. Len(Ch.kinds) = 2 /\ step \in 1 .. 4 /\ Ch.kinds[1] = "day" /\ Ch.kinds[2] = "month"
    BY <1>5
  <2>2. ((step - 1) % 2) + 1 \in {1, 2}
    BY <2>1
  <2>3. KmKind \in {"day", "month"}
    BY <2>1, <2>2 DEF KmKind
  <2>4. QED BY <1>1, <2>1, <2>3
<1>6. QED BY <1>2, <1>3, <1>4, <1>5

(* What a read gets, in all fates of an answer.                            *)
LEMMA Hears ==
  ASSUME NEW answer, NEW got, Heard(answer, got)
  PROVE  /\ flying' = <<>> \/ (flying' = <<answer>> /\ answer.what # "silence")
         /\ hurt \subseteq hurt' /\ dead' = dead
         /\ \/ got = flying \o <<>>
            \/ got = flying \o <<answer>> /\ answer.what # "silence"
            \/ got = flying \o <<Junk>>
BY DEF Heard

LEMMA AfterLast ==
  ASSUME NEW n \in Nat \ {0}, NEW i \in 1 .. n
  PROVE  (i % n) + 1 = IF i < n THEN i + 1 ELSE 1
<1>1. CASE i < n
  <2>1. i % n = i
    BY <1>1
  <2>2. QED BY <1>1, <2>1
<1>2. CASE i = n
  <2>1. i % n = 0
    BY <1>2
  <2>2. QED BY <1>2, <2>1
<1>3. QED BY <1>1, <1>2

(* Where the driver goes from one archive.                                 *)
LEMMA NextPart ==
  ASSUME KmOnLine, at \in 1 .. Len(KmTable), step \in 1 .. 2 * Len(Ch.kinds), KmNextPart
  PROVE  \/ /\ step < 2 * Len(Ch.kinds) /\ step' = step + 1 /\ at' = at /\ left' = left
            /\ pc' = "last" /\ rest' = rest
         \/ /\ step = 2 * Len(Ch.kinds) /\ step' = 1 /\ left' = 2 /\ pc' \in {"info", "drain"}
            /\ \/ at < Len(KmTable) /\ at' = at + 1 /\ rest' = rest
               \/ at = Len(KmTable) /\ at' = 1 /\ RoundOver
<1>1. CASE step < 2 * Len(Ch.kinds)
  BY <1>1 DEF KmNextPart, SameRound
<1>2. CASE step = 2 * Len(Ch.kinds)
  <2>1. KmNextChannel
    BY <1>2, PartKinds DEF KmNextPart
  <2>2. (at % Len(KmTable)) + 1 = IF at < Len(KmTable) THEN at + 1 ELSE 1
    BY Channels, AfterLast
  <2>3. CASE at < Len(KmTable)
    <3>1. at + 1 # 1
      BY Channels
    <3>2. at' = at + 1 /\ step' = 1 /\ left' = 2 /\ pc' \in {"info", "drain"} /\ rest' = rest
      BY <2>1, <2>2, <2>3, <3>1 DEF KmNextChannel, SameRound
    <3>3. QED BY <1>2, <2>3, <3>2
  <2>4. CASE at = Len(KmTable)
    <3>1. (at % Len(KmTable)) + 1 = 1
      BY <2>2, <2>4, Channels
    <3>2. at' = 1 /\ step' = 1 /\ left' = 2 /\ pc' \in {"info", "drain"} /\ RoundOver
      BY <2>1, <3>1 DEF KmNextChannel
    <3>3. QED BY <1>2, <2>4, <3>2
  <2>5. at < Len(KmTable) \/ at = Len(KmTable)
    <3>1. Len(KmTable) \in Nat /\ at \in 1 .. Len(KmTable)
      BY Channels
    <3>2. QED BY <3>1
  <2>6. QED BY <2>3, <2>4, <2>5
<1>3. QED BY <1>1, <1>2, PartKinds

LEMMA ChannelStep == ASSUME KmOnLine, at' \in 1 .. Len(KmTable), step' = 1
                     PROVE  step' \in 1 .. 2 * Len(Ch'.kinds)
<1>1. Ch' \in KmRow
  BY Channels DEF Ch
<1>2. Ch'.kinds \in {<<"hour", "day", "month">>, <<"hour">>, <<"day", "month">>}
  BY <1>1 DEF KmRow
<1>3. Len(Ch'.kinds) \in 1 .. 3
  BY <1>2
<1>4. QED BY <1>3

KmKinds == {"hour", "day", "month"}

(* What a read of the walk may find in front of the answer: the answer to  *)
(* the request before, which was of the same meter and archive.            *)
OfArchive(f) ==
  /\ f.what \in {"last", "record", "none"}
  /\ f.what = "record" => f.dev = Ch.dev /\ f.kind = KmKind /\ f.n \in Nat
KmUnderWay == flying = <<>> \/ \E f : flying = <<f>> /\ OfArchive(f)

KmRowsAreOwn ==
  \A w \in rows : w.key.kind \in KmKinds /\ w.key.pipe # 0 =>
    /\ w.value.dev = w.key.dev /\ w.value.kind = w.key.kind
    /\ w.value.n \in Nat /\ w.key.date = KmDate(w.key.kind, w.value.n)

KmInv ==
  driver = "km5" =>
    /\ at \in 1 .. Len(KmTable) /\ step \in 1 .. 2 * Len(Ch.kinds)
    /\ pc = "record" => KmUnderWay
    /\ KmRowsAreOwn

LEMMA InitKm == ASSUME KmOnLine, Init PROVE KmInv
<1> SUFFICES ASSUME driver = "km5" PROVE KmInv
  BY DEF KmInv
<1>1. at = 1 /\ step = 1 /\ rows = {} /\ pc # "record"
  BY DEF Init, KmInit, IrpInit, VktInit, HeatInit, KmOpened
<1>2. at \in 1 .. Len(KmTable)
  BY <1>1, Channels
<1>3. step \in 1 .. 2 * Len(Ch.kinds)
  <2>1. Ch \in KmRow
    BY <1>2, Channels DEF Ch
  <2>2. Ch.kinds \in {<<"hour", "day", "month">>, <<"hour">>, <<"day", "month">>}
    BY <2>1 DEF KmRow
  <2>3. Len(Ch.kinds) \in 1 .. 3
    BY <2>2
  <2>4. QED BY <1>1, <2>3
<1>4. QED BY <1>1, <1>2, <1>3 DEF KmInv, KmRowsAreOwn

(* The current values come before the walks and have rows of their own.    *)
LEMMA KmBeforeWalk ==
  ASSUME KmOnLine, KmInv, KmInfo \/ KmDrain \/ KmCurrent PROVE KmInv'
<1>1. driver = "km5" /\ UNCHANGED <<driver, at, step>> /\ pc' # "record"
  BY DEF KmInfo, KmDrain, KmCurrent
<1>2. at \in 1 .. Len(KmTable) /\ step \in 1 .. 2 * Len(Ch.kinds) /\ KmRowsAreOwn
  BY <1>1 DEF KmInv
<1>3. Ch' = Ch
  BY <1>1 DEF Ch
<1>4. CASE KmInfo \/ KmDrain
  <2>1. rows' = rows
    BY <1>4 DEF KmInfo, KmDrain
  <2>2. QED BY <1>1, <1>2, <1>3, <2>1 DEF KmInv, KmRowsAreOwn
<1>5. CASE KmCurrent
  <2>1. \A w \in rows' : w \in rows \/ w.key.kind \in {"current", "spot"}
    <3>1. PICK got :
            IF Right(got)
              THEN LET value == [Value("current", got[1].n) EXCEPT !.dev = got[1].dev]
                   IN  rows' = StoreArchiveOf(
                               StoreCurrentOf(rows, Key(Ch.dev, Ch.pipe, "current", 0), value),
                               Key(Ch.dev, Ch.pipe, "spot", now), value)
              ELSE UNCHANGED rows
      BY <1>5 DEF KmCurrent
    <3> DEFINE current == Key(Ch.dev, Ch.pipe, "current", 0)
               spot == Key(Ch.dev, Ch.pipe, "spot", now)
    <3>2. current.kind = "current" /\ spot.kind = "spot"
      BY DEF Key
    <3> HIDE DEF current, spot
    <3>3. \A value : \A w \in StoreArchiveOf(StoreCurrentOf(rows, current, value), spot, value) :
            w \in rows \/ w.key = current \/ w.key = spot
      BY DEF StoreArchiveOf, StoreArchive, StoreCurrentOf, StoreCurrent, RowOf
    <3>4. QED BY <3>1, <3>2, <3>3 DEF current, spot
  <2>2. KmRowsAreOwn'
    BY <1>2, <2>1 DEF KmRowsAreOwn, KmKinds
  <2>3. QED BY <1>1, <1>2, <1>3, <2>2 DEF KmInv
<1>6. QED BY <1>4, <1>5

LEMMA KmLastStep == ASSUME KmOnLine, KmInv, KmLast PROVE KmInv'
<1>1. driver = "km5" /\ UNCHANGED <<driver, at, step, rows>>
  BY DEF KmLast
<1>2. at \in 1 .. Len(KmTable) /\ step \in 1 .. 2 * Len(Ch.kinds) /\ KmRowsAreOwn
  BY <1>1 DEF KmInv
<1>3. Ch' = Ch /\ KmKind' = KmKind
  BY <1>1 DEF Ch, KmKind
<1>4. PICK answer \in KmAnswers(1) : \E got : Heard(answer, got)
  BY DEF KmLast
<1>5. answer.what = "last"
  BY <1>4 DEF KmAnswers, Latest, Frame
<1>6. flying' = <<>> \/ flying' = <<answer>>
  BY <1>4, Hears
<1>7. KmUnderWay'
  BY <1>5, <1>6 DEF KmUnderWay, OfArchive
<1>8. QED BY <1>1, <1>2, <1>3, <1>7 DEF KmInv, KmRowsAreOwn

(* The new rows of a record: one of the channel, and one of pipe 0.        *)
LEMMA StoredRecord ==
  ASSUME NEW record
  PROVE  \A w \in KmStored(record) :
           \/ w \in rows
           \/ w.key.pipe = 0
           \/ w = [key |-> Key(Ch.dev, Ch.pipe, KmKind, KmDate(record.kind, record.n)),
                   value |-> [Value(record.kind, record.n) EXCEPT !.dev = record.dev]]
<1> DEFINE key == Key(Ch.dev, Ch.pipe, KmKind, KmDate(record.kind, record.n))
           value == [Value(record.kind, record.n) EXCEPT !.dev = record.dev]
           kept == StoreArchiveOf(rows, key, value)
<1>1. \A w \in kept : w \in rows \/ w = [key |-> key, value |-> value]
  BY DEF StoreArchiveOf, StoreArchive
<1>2. \A w \in Differences(kept, KmKind, record.n) : w \in kept \/ w.key.pipe = 0
  <2> DEFINE other == Key(Ch.dev, 0, KmKind, KmDate(KmKind, record.n))
  <2>1. other.pipe = 0
    BY DEF Key
  <2> HIDE DEF other, kept
  <2>2. \A v : \A w \in StoreArchiveOf(kept, other, v) : w \in kept \/ w.key.pipe = 0
    BY <2>1 DEF StoreArchiveOf, StoreArchive
  <2>3. \/ Differences(kept, KmKind, record.n) = kept
        \/ \E v : Differences(kept, KmKind, record.n) = StoreArchiveOf(kept, other, v)
    BY DEF Differences, other
  <2>4. QED BY <2>2, <2>3
<1>3. KmStored(record) \in {kept, Differences(kept, KmKind, record.n)}
  BY DEF KmStored
<1>4. QED BY <1>1, <1>2, <1>3

(* A frame that comes alone and is a record is of the archive asked for.   *)
LEMMA OneRecord ==
  ASSUME NEW answer \in KmAnswers(2), NEW got, Heard(answer, got), KmUnderWay,
         KmOnLine, at \in 1 .. Len(KmTable), step \in 1 .. 2 * Len(Ch.kinds),
         Right(got), got[1].what = "record"
  PROVE  got[1].dev = Ch.dev /\ got[1].kind = KmKind /\ got[1].n \in Nat
<1>1. OfArchive(answer) \/ answer.what = "silence"
  BY DEF KmAnswers, Record, Frame, Silence, OfArchive
<1>2. Len(got) = 1 /\ got[1].what # "junk"
  BY DEF Right
<1>3. CASE flying = <<>>
  <2>1. got \in {<<>>, <<Junk>>} \/ (got = <<answer>> /\ answer.what # "silence")
    BY <1>3, Hears, InFront
  <2>2. got # <<>>
    BY <1>2
  <2>3. got # <<Junk>>
    BY <1>2 DEF Junk, Frame
  <2>4. QED BY <1>1, <2>1, <2>2, <2>3 DEF OfArchive
<1>4. CASE \E f : flying = <<f>> /\ OfArchive(f)
  <2>1. PICK f : flying = <<f>> /\ OfArchive(f)
    BY <1>4
  <2>2. got = <<f>> \/ got = <<f>> \o <<answer>> \/ got = <<f>> \o <<Junk>>
    BY <2>1, Hears, InFront
  <2>3. got = <<f>>
    BY <1>2, <2>2, InFront
  <2>4. QED BY <2>1, <2>3 DEF OfArchive
<1>5. QED BY <1>3, <1>4 DEF KmUnderWay

LEMMA KmRecordStep == ASSUME KmOnLine, KmInv, KmRecord PROVE KmInv'
<1>1. driver = "km5" /\ driver' = driver /\ pc = "record"
  BY DEF KmRecord
<1>2. at \in 1 .. Len(KmTable) /\ step \in 1 .. 2 * Len(Ch.kinds) /\ KmRowsAreOwn /\ KmUnderWay
  BY <1>1 DEF KmInv
<1>3. PICK answer, got, like :
        /\ answer \in KmAnswers(2) /\ like \in BOOLEAN
        /\ Heard(answer, got)
        /\ buffer' = CopiedAll(got)
        /\ buffer'.what # "junk" => like = (buffer'.what = "record")
        /\ rows' = IF like /\ Usable(got) THEN KmStored(buffer') ELSE rows
        /\ \/ UNCHANGED <<pc, at, step>>
           \/ KmNextPart
  BY DEF KmRecord
<1>4. KmRowsAreOwn'
  <2> SUFFICES ASSUME like, Usable(got) PROVE KmRowsAreOwn'
    BY <1>2, <1>3 DEF KmRowsAreOwn
  <2>1. Right(got) /\ buffer' = got[1] /\ got[1].what = "record"
    BY <1>3 DEF Usable, CopiedAll, Right
  <2>2. got[1].dev = Ch.dev /\ got[1].kind = KmKind /\ got[1].n \in Nat
    BY <1>2, <1>3, <2>1, OneRecord
  <2> DEFINE n == got[1].n
             new == [key |-> Key(Ch.dev, Ch.pipe, KmKind, KmDate(KmKind, n)),
                     value |-> [Value(KmKind, n) EXCEPT !.dev = Ch.dev]]
  <2>3. \A w \in rows' : w \in rows \/ w.key.pipe = 0 \/ w = new
    BY <1>3, <2>1, <2>2, StoredRecord
  <2>4. /\ new.value.dev = new.key.dev /\ new.value.kind = new.key.kind
        /\ new.value.n \in Nat /\ new.key.date = KmDate(new.key.kind, new.value.n)
    BY <2>2 DEF Key, Value
  <2> HIDE DEF new
  <2>5. QED BY <1>2, <2>3, <2>4 DEF KmRowsAreOwn
<1>5. CASE UNCHANGED <<pc, at, step>>
  <2>1. Ch' = Ch /\ KmKind' = KmKind
    BY <1>5 DEF Ch, KmKind
  <2>2. OfArchive(answer) \/ answer.what = "silence"
    BY <1>3 DEF KmAnswers, Record, Frame, Silence, OfArchive
  <2>3. flying' = <<>> \/ (flying' = <<answer>> /\ answer.what # "silence")
    BY <1>3, Hears
  <2>4. KmUnderWay'
    BY <2>1, <2>2, <2>3 DEF KmUnderWay, OfArchive
  <2>5. QED BY <1>2, <1>4, <1>5, <2>1, <2>4 DEF KmInv
<1>6. CASE KmNextPart
  <2>1. at' \in 1 .. Len(KmTable) /\ step' \in 1 .. 2 * Len(Ch'.kinds) /\ pc' # "record"
    <3>1. CASE step' = 1 /\ at' \in {1, at + 1} /\ at' <= Len(KmTable)
      <4>1. at' \in 1 .. Len(KmTable)
        BY <1>2, <3>1
      <4>2. pc' # "record"
        BY <1>2, <1>6, NextPart
      <4>3. QED BY <3>1, <4>1, <4>2, ChannelStep
    <3>2. CASE step < 2 * Len(Ch.kinds) /\ step' = step + 1 /\ at' = at /\ pc' = "last"
      <4>1. Ch' = Ch
        BY <3>2 DEF Ch
      <4>2. Len(Ch.kinds) \in 1 .. 3
        BY <1>2, PartKinds
      <4>3. QED BY <1>2, <3>2, <4>1, <4>2
    <3>3. \/ step < 2 * Len(Ch.kinds) /\ step' = step + 1 /\ at' = at /\ pc' = "last"
          \/ step' = 1 /\ at < Len(KmTable) /\ at' = at + 1
          \/ step' = 1 /\ at' = 1
      BY <1>2, <1>6, NextPart
    <3>4. Len(KmTable) \in Nat \ {0}
      BY Channels
    <3>5. \/ step < 2 * Len(Ch.kinds) /\ step' = step + 1 /\ at' = at /\ pc' = "last"
          \/ step' = 1 /\ at' \in {1, at + 1} /\ at' <= Len(KmTable)
      BY <1>2, <3>3, <3>4
    <3>6. QED BY <3>1, <3>2, <3>5
  <2>2. QED BY <1>4, <2>1 DEF KmInv
<1>7. QED BY <1>3, <1>5, <1>6

LEMMA OthersThanKm ==
  VktNext \/ IrpNext => driver' = driver /\ driver \in {"vkt", "irp"}
BY DEF VktNext, VktGreet, VktList, VktType, VktDate, VktData,
       IrpNext, IrpPointer, IrpBlock, IrpCurrent

LEMMA StepKm == ASSUME KmOnLine, KmInv, [Next]_vars PROVE KmInv'
<1>1. CASE UNCHANGED vars \/ World
  <2>1. UNCHANGED <<driver, at, step, pc, flying, rows>>
    BY <1>1 DEF vars, heatVars, lineVars, World, Tick, Die
  <2>2. Ch' = Ch /\ KmKind' = KmKind
    BY <2>1 DEF Ch, KmKind
  <2>3. QED BY <2>1, <2>2 DEF KmInv, KmRowsAreOwn, KmUnderWay, OfArchive
<1>2. CASE KmNext
  BY <1>2, KmBeforeWalk, KmLastStep, KmRecordStep DEF KmNext
<1>3. CASE VktNext \/ IrpNext
  BY <1>3, OthersThanKm DEF KmInv
<1>4. QED BY <1>1, <1>2, <1>3 DEF Next, Driver, Stopped

-----------------------------------------------------------------------------
(* After a multiple of h the remainders count from 0.                      *)
LEMMA AfterMultiple ==
  ASSUME NEW h \in Nat, h >= 3, NEW a \in Nat, a % h = 0
  PROVE  (a + 1) % h = 1 /\ (a + 2) % h = 2
<1>1. PICK q \in Int : a = h * q
  OBVIOUS
<1>2. a + 1 = h * q + 1 /\ a + 2 = h * q + 2
  BY <1>1
<1>3. (a + 1) % h = 1
  BY <1>2
<1>4. (a + 2) % h = 2
  BY <1>2
<1>5. QED BY <1>3, <1>4

(* The label of an hour, n or n + 1.                                       *)
LEMMA HourLabel ==
  ASSUME NEW n \in Int
  PROVE  /\ KmDate("hour", n) \in Int
         /\ (n + 1) % HoursPerDay = 0 => KmDate("hour", n) = n + 1
         /\ (n + 1) % HoursPerDay # 0 => KmDate("hour", n) = n
<1>1. KmDate("hour", n) = IF (n + 1) % HoursPerDay = 0 THEN n + 1 ELSE n
  BY HeatAssumption DEF KmDate
<1>2. QED BY <1>1

Spans(date, n, since) == n - since <= (IF date % HoursPerDay \in {0, 1} THEN 2 ELSE 1)

(* Among rows of earlier hours none of which is left out, the latest is no *)
(* further away than the labels say.                                       *)
LEMMA LatestEarlier ==
  ASSUME HoursPerDay >= 3, NEW n \in Nat, NEW e, e # {},
         \A w \in e : /\ w.key.date < KmDate("hour", n)
                      /\ w.value.n \in Nat /\ w.key.date = KmDate("hour", w.value.n),
         \A w \in e : \A m \in Nat :
           m < n /\ w.key.date < KmDate("hour", m) /\ KmDate("hour", m) < KmDate("hour", n) =>
             \E x \in e : x.key.date = KmDate("hour", m)
  PROVE  /\ \E w \in e : \A x \in e : x.key.date <= w.key.date
         /\ \A w \in e : (\A x \in e : x.key.date <= w.key.date) =>
              Spans(KmDate("hour", n), n, w.value.n)
<1> DEFINE L(m) == KmDate("hour", m)
           h == HoursPerDay
<1>1. h \in Nat
  BY HeatAssumption
<1>2. \A m \in Nat : /\ L(m) \in Nat /\ m <= L(m) /\ L(m) <= m + 1
                     /\ (m + 1) % h = 0 <=> L(m) = m + 1
  <2> TAKE m \in Nat
  <2>1. L(m) = IF (m + 1) % h = 0 THEN m + 1 ELSE m
    BY HeatAssumption DEF KmDate
  <2>2. QED BY <2>1
<1>3. \A a \in Nat : a % h = 0 => (a + 1) % h = 1 /\ (a + 2) % h = 2
  BY <1>1, AfterMultiple
<1>4. \A m \in Nat : (m + 1) % h # 0 => L(m) = m
  BY HeatAssumption DEF KmDate
<1>5. \A m \in Nat \ {0} : m % h # 0 => m - 1 \in Nat /\ L(m - 1) = m - 1
  <2> TAKE m \in Nat \ {0}
  <2>1. m - 1 \in Nat /\ (m - 1) + 1 = m
    OBVIOUS
  <2>2. QED BY <1>4, <2>1
<1>6. \A m \in Nat : L(m) <= m + 1 /\ m <= L(m)
  BY <1>2
<1>7. \A w \in e : w.key.date = L(w.value.n) /\ w.key.date \in Nat /\ w.key.date < L(n)
  BY <1>2
<1> HIDE DEF L, h
<1>8. PICK r \in e : TRUE
  OBVIOUS
<1>9. ASSUME NEW m \in Nat, m < n, L(m) = m, m < L(n)
      PROVE  \E x \in e : x.key.date >= m
  <2>1. CASE r.key.date < m
    BY <1>9, <2>1 DEF L
  <2>2. CASE ~(r.key.date < m)
    BY <1>7, <2>2
  <2>3. QED BY <2>1, <2>2
<1>10. CASE (n + 1) % h = 0
  <2>1. n % h # 0
    BY <1>3, <1>10
  <2>2. n # 0
    BY <1>1, <2>1 DEF h
  <2>3. n - 1 \in Nat /\ L(n) = n + 1
    BY <1>2, <1>10, <2>2
  <2>4. L(n - 1) = n - 1
    BY <1>5, <2>1, <2>2
  <2>5. \E x \in e : x.key.date >= n - 1
    BY <1>9, <2>3, <2>4
  <2>6. \E w \in e : \A x \in e : x.key.date <= w.key.date
    BY <1>7, <2>3, <2>5
  <2>7. ASSUME NEW w \in e, \A x \in e : x.key.date <= w.key.date
        PROVE  Spans(L(n), n, w.value.n)
    <3>1. w.key.date >= n - 1
      BY <1>7, <2>5, <2>7
    <3>2. w.value.n \in Nat /\ w.value.n >= n - 2
      BY <1>2, <1>7, <3>1
    <3>3. L(n) % h = 0
      BY <1>10, <2>3
    <3>4. QED BY <3>2, <3>3 DEF Spans, h
  <2>8. QED BY <2>6, <2>7 DEF L
<1>11. CASE n % h = 0
  <2>1. (n + 1) % h = 1
    BY <1>3, <1>11
  <2>2. L(n) = n
    BY <1>4, <2>1
  <2>3. n # 0
    BY <1>7, <1>8, <2>2
  <2>4. n # 1 /\ n # 2
    <3>1. 1 % h = 1 /\ 2 % h = 2
      BY <1>1, <1>3 DEF h
    <3>2. QED BY <1>11, <3>1
  <2>5. n - 2 \in Nat /\ n - 1 \in Nat
    BY <2>3, <2>4
  <2>6. (n - 1) % h # 0
    BY <1>3, <1>11, <2>5
  <2>7. (n - 2) % h # 0
    BY <1>3, <1>11, <2>5
  <2>8. L(n - 2) = n - 2
    <3>1. n - 1 \in Nat \ {0} /\ (n - 1) - 1 = n - 2
      BY <2>4, <2>5
    <3>2. QED BY <1>5, <2>6, <3>1
  <2>9. \E x \in e : x.key.date >= n - 2
    BY <1>9, <2>2, <2>5, <2>8
  <2>10. \E w \in e : \A x \in e : x.key.date <= w.key.date
    BY <1>7, <2>2, <2>9
  <2>11. ASSUME NEW w \in e, \A x \in e : x.key.date <= w.key.date
         PROVE  Spans(L(n), n, w.value.n)
    <3>1. w.key.date >= n - 2
      BY <1>7, <2>9, <2>11
    <3>2. w.value.n \in Nat /\ w.key.date = L(w.value.n)
      BY <1>7
    <3>3. w.value.n # n - 3
      <4>1. CASE w.value.n = n - 3
        <5>1. L(w.value.n) # n - 2
          BY <1>2, <2>7, <3>2, <4>1
        <5>2. QED BY <1>2, <3>1, <3>2, <4>1, <5>1
      <4>2. QED BY <4>1
    <3>4. w.value.n >= n - 2
      <4>1. w.key.date <= w.value.n + 1
        BY <1>6, <3>2
      <4>2. w.key.date \in Nat
        BY <1>7
      <4>3. QED BY <3>1, <3>2, <3>3, <4>1, <4>2
    <3>5. QED BY <1>11, <2>2, <3>2, <3>4 DEF Spans, h
  <2>12. QED BY <2>10, <2>11 DEF L
<1>12. CASE n % h # 0 /\ (n + 1) % h # 0
  <2>1. n # 0
    BY <1>1, <1>12 DEF h
  <2>2. n - 1 \in Nat /\ L(n) = n
    BY <1>4, <1>12, <2>1
  <2>3. L(n - 1) = n - 1
    BY <1>5, <1>12, <2>1
  <2>4. \E x \in e : x.key.date >= n - 1
    BY <1>9, <2>2, <2>3
  <2>5. \E w \in e : \A x \in e : x.key.date <= w.key.date
    BY <1>7, <2>2, <2>4
  <2>6. ASSUME NEW w \in e, \A x \in e : x.key.date <= w.key.date
        PROVE  Spans(L(n), n, w.value.n)
    <3>1. w.key.date = n - 1 /\ w.value.n \in Nat /\ w.key.date = L(w.value.n)
      BY <1>7, <2>2, <2>4, <2>6
    <3>2. CASE w.value.n = n - 1
      BY <3>1, <3>2 DEF Spans
    <3>3. CASE w.value.n = n - 2
      <4>1. (n - 1) % h = 0
        BY <1>2, <3>1, <3>3
      <4>2. n % h = 1
        BY <1>3, <2>2, <4>1
      <4>3. QED BY <2>2, <3>3, <4>2 DEF Spans, h
    <3>4. w.value.n <= n - 1 /\ n - 1 <= w.value.n + 1
      BY <1>6, <3>1
    <3>5. QED BY <3>1, <3>2, <3>3, <3>4
  <2>7. QED BY <2>5, <2>6 DEF L
<1>13. QED BY <1>10, <1>11, <1>12

(* Is the hour n of a meter in pipe 2?                                     *)
Covered(r, d, n) == \E w \in r : w.key = Key(d, 2, "hour", KmDate("hour", n))

(* From its first row on, pipe 2 of a meter has every hour, but for the    *)
(* last one while the round is going on in which it closed.                *)
Unbroken ==
  \A w \in rows : w.key.kind = "hour" /\ w.key.pipe = 2 =>
    \A n \in Nat :
      n <= (IF rest = 0 THEN now - 1 ELSE now - 2) /\ w.key.date < KmDate("hour", n) =>
        Covered(rows, w.key.dev, n)

(* A walk leaves no hour out.                                              *)
WalkUnbroken ==
  pc = "record" =>
    /\ asked \in Int
    /\ KmKind = "hour" =>
         /\ asked <= now - 1
         /\ Ch.pipe = 2 =>
              \A n \in Nat : asked < n /\ n <= (IF rest = 2 THEN now - 2 ELSE now - 1) =>
                Covered(rows, Ch.dev, n)

(* In the last round of an hour the channels already polled have the one   *)
(* that has closed.                                                        *)
RoundCovers ==
  rest = 1 /\ now > 0 =>
    \A c \in 1 .. Len(KmTable) :
      KmTable[c].pipe = 2 /\ KmTable[c].kinds[1] = "hour" /\ (c < at \/ (c = at /\ step > 1)) =>
        Covered(rows, KmTable[c].dev, now - 1)

HaveChannels ==
  \A w \in rows : w.key.kind = "hour" /\ w.key.pipe = 2 =>
    \E c \in 1 .. Len(KmTable) :
      KmTable[c].dev = w.key.dev /\ KmTable[c].pipe = 2 /\ KmTable[c].kinds[1] = "hour"

DifferencesAreShort ==
  \A w \in rows : w.key.kind = "hour" /\ w.key.pipe = 0 =>
    Spans(w.key.date, w.value.n, w.value.since)

DiffInv ==
  driver = "km5" /\ hurt = {} /\ dead = {} =>
    /\ now \in Nat /\ rest \in 0 .. 2 /\ flying = <<>>
    /\ Unbroken /\ WalkUnbroken /\ RoundCovers /\ HaveChannels /\ DifferencesAreShort

LEMMA StillCovered ==
  ASSUME rows \subseteq rows'
  PROVE  \A d, n : Covered(rows, d, n) => Covered(rows', d, n)
BY DEF Covered

(* Without faults a read gets the answer to its request.                   *)
LEMMA QuietRead ==
  ASSUME NEW answer, NEW got, Heard(answer, got), flying = <<>>, hurt' = {}, dead = {}
  PROVE  /\ hurt = {} /\ flying' = <<>> /\ dead' = {}
         /\ got = IF answer.what = "silence" THEN <<>> ELSE <<answer>>
<1>1. \A kind : hurt' # hurt \cup {kind}
  OBVIOUS
<1>2. /\ got = flying \o (IF answer.what = "silence" THEN <<>> ELSE <<answer>>)
      /\ flying' = <<>> /\ hurt' = hurt /\ dead' = dead
  BY <1>1 DEF Heard
<1>3. QED BY <1>2, InFront

(* Rows of current values are none of those the invariant is about.        *)
LEMMA DiffBeforeWalk ==
  ASSUME DiffInv, KmInfo \/ KmDrain \/ KmCurrent PROVE DiffInv'
<1> SUFFICES ASSUME hurt' = {}, dead' = {} PROVE DiffInv'
  BY DEF DiffInv
<1>1. driver = "km5" /\ UNCHANGED <<driver, now, rest, at, step, asked>> /\ pc' # "record"
  BY DEF KmInfo, KmDrain, KmCurrent
<1>2. dead = {} /\ hurt = {} /\ (flying = <<>> => flying' = <<>>)
  <2>1. CASE KmDrain
    BY <2>1 DEF KmDrain
  <2>2. CASE KmInfo \/ KmCurrent
    <3>1. PICK answer, got : Heard(answer, got)
      BY <2>2 DEF KmInfo, KmCurrent
    <3>2. dead' = dead /\ hurt \subseteq hurt'
      BY <3>1, Hears
    <3>3. QED BY <3>1, <3>2, QuietRead
  <2>3. QED BY <2>1, <2>2
<1>3. /\ \A w \in rows' : w \in rows \/ w.key.kind \in {"current", "spot"}
      /\ \A w \in rows : w \in rows' \/ w.key.kind \in {"current", "spot"}
  <2>1. CASE KmInfo \/ KmDrain
    BY <2>1 DEF KmInfo, KmDrain
  <2>2. CASE KmCurrent
    <3>1. PICK got :
            IF Right(got)
              THEN LET value == [Value("current", got[1].n) EXCEPT !.dev = got[1].dev]
                   IN  rows' = StoreArchiveOf(
                               StoreCurrentOf(rows, Key(Ch.dev, Ch.pipe, "current", 0), value),
                               Key(Ch.dev, Ch.pipe, "spot", now), value)
              ELSE UNCHANGED rows
      BY <2>2 DEF KmCurrent
    <3> DEFINE current == Key(Ch.dev, Ch.pipe, "current", 0)
               spot == Key(Ch.dev, Ch.pipe, "spot", now)
    <3>2. current.kind = "current" /\ spot.kind = "spot"
      BY DEF Key
    <3> HIDE DEF current, spot
    <3>3. \A value :
            /\ \A w \in StoreArchiveOf(StoreCurrentOf(rows, current, value), spot, value) :
                 w \in rows \/ w.key = current \/ w.key = spot
            /\ \A w \in rows :
                 \/ w \in StoreArchiveOf(StoreCurrentOf(rows, current, value), spot, value)
                 \/ w.key = current
      BY DEF StoreArchiveOf, StoreArchive, StoreCurrentOf, StoreCurrent, RowOf
    <3>4. QED BY <3>1, <3>2, <3>3 DEF current, spot
  <2>3. QED BY <2>1, <2>2
<1>4. \A w : w.key.kind = "hour" => (w \in rows <=> w \in rows')
  BY <1>3
<1>5. \A d, n : Covered(rows, d, n) => Covered(rows', d, n)
  <2>1. \A d, n : Key(d, 2, "hour", n).kind = "hour"
    BY DEF Key
  <2>2. QED BY <1>4, <2>1 DEF Covered
<1>6. DiffInv => now \in Nat /\ rest \in 0 .. 2 /\ flying = <<>> /\ Unbroken /\ RoundCovers
                 /\ HaveChannels /\ DifferencesAreShort
  BY <1>1, <1>2 DEF DiffInv
<1>7. Unbroken'
  BY <1>1, <1>4, <1>5, <1>6 DEF Unbroken
<1>8. WalkUnbroken'
  BY <1>1 DEF WalkUnbroken
<1>9. RoundCovers'
  BY <1>1, <1>5, <1>6 DEF RoundCovers
<1>10. HaveChannels'
  BY <1>4, <1>6 DEF HaveChannels
<1>11. DifferencesAreShort'
  BY <1>4, <1>6 DEF DifferencesAreShort
<1>12. QED BY <1>1, <1>2, <1>6, <1>7, <1>8, <1>9, <1>10, <1>11 DEF DiffInv

(* A walk begins with the newest record.                                   *)
LEMMA DiffLast ==
  ASSUME KmOnLine, KmInv, DiffInv, KmLast PROVE DiffInv'
<1> SUFFICES ASSUME hurt' = {}, dead' = {} PROVE DiffInv'
  BY DEF DiffInv
<1>1. driver = "km5" /\ UNCHANGED <<driver, now, rest, at, step, rows>>
  BY DEF KmLast
<1>2. PICK answer, got :
        /\ answer \in KmAnswers(1) /\ Heard(answer, got)
        /\ got # <<>> => buffer' = CopiedHead(got)
        /\ buffer'.what = "last" => asked' = buffer'.n
  BY DEF KmLast
<1>3. dead = {} /\ hurt = {}
  BY <1>2, Hears
<1>4. now \in Nat /\ rest \in 0 .. 2 /\ flying = <<>> /\ Unbroken /\ RoundCovers
      /\ HaveChannels /\ DifferencesAreShort
  BY <1>1, <1>3 DEF DiffInv
<1>5. answer = Frame("last", Ch.dev, KmKind, Newest(KmKind))
  BY <1>2 DEF KmAnswers, Latest
<1>6. answer.what = "last" /\ answer.n = Newest(KmKind)
  BY <1>5 DEF Frame
<1>7. got = <<answer>> /\ flying' = <<>>
  BY <1>2, <1>3, <1>4, <1>6, QuietRead
<1>8. buffer' = answer
  <2>1. got # <<>> /\ got[1] = answer
    BY <1>7
  <2>2. QED BY <1>2, <2>1 DEF CopiedHead
<1>9. asked' = Newest(KmKind)
  BY <1>2, <1>6, <1>8
<1>10. KmKind \in KmKinds
  BY <1>1, PartKinds DEF KmInv, KmKinds
<1>11. Newest(KmKind) \in Int /\ Newest("hour") = now - 1
  <2>1. now \div HoursPerDay \in Int /\ HoursPerDay * DaysPerMonth \in Nat \ {0}
    BY <1>4, HeatAssumption
  <2>2. now \div (HoursPerDay * DaysPerMonth) \in Int
    BY <1>4, <2>1
  <2>3. Newest("hour") = now - 1 /\ Newest("day") = now \div HoursPerDay - 1
        /\ Newest("month") = now \div (HoursPerDay * DaysPerMonth) - 1
    BY DEF Newest
  <2>4. QED BY <1>4, <1>10, <2>1, <2>2, <2>3 DEF KmKinds
<1>12. KmKind' = KmKind /\ Ch' = Ch
  BY <1>1 DEF KmKind, Ch
<1>13. WalkUnbroken'
  <2>1. asked' \in Int /\ (KmKind' = "hour" => asked' = now - 1)
    BY <1>9, <1>11, <1>12
  <2>2. \A n \in Nat : asked' < n /\ n <= (IF rest' = 2 THEN now' - 2 ELSE now' - 1) /\ KmKind' = "hour"
           => FALSE
    BY <1>1, <1>4, <2>1
  <2>3. QED BY <1>1, <1>4, <2>1, <2>2 DEF WalkUnbroken
<1>14. Unbroken' /\ RoundCovers' /\ HaveChannels' /\ DifferencesAreShort'
  BY <1>1, <1>4 DEF Unbroken, RoundCovers, HaveChannels, DifferencesAreShort, Covered
<1>15. QED BY <1>1, <1>4, <1>7, <1>13, <1>14 DEF DiffInv

(* What a record asked for brings without faults.                          *)
LEMMA QuietRecord ==
  ASSUME KmOnLine, KmInv, KmRecord, hurt' = {}, dead = {}, flying = <<>>,
         pc = "record" => asked \in Int /\ (KmKind = "hour" => asked <= now - 1), now \in Nat
  PROVE  /\ hurt = {} /\ flying' = <<>>
         /\ IF asked \in 0 .. Newest(KmKind)
              THEN rows' = KmStored(Frame("record", Ch.dev, KmKind, asked))
              ELSE rows' = rows
         /\ \/ UNCHANGED <<pc, at, step, rest>> /\ asked > 0 /\ asked' = asked - 1
            \/ KmNextPart
<1>1. PICK answer, got, like :
        /\ answer \in KmAnswers(2) /\ like \in BOOLEAN
        /\ Heard(answer, got)
        /\ buffer' = CopiedAll(got)
        /\ buffer'.what # "junk" => like = (buffer'.what = "record")
        /\ rows' = IF like /\ Usable(got) THEN KmStored(buffer') ELSE rows
        /\ IF like /\ asked > 0 /\ left > 1
             THEN asked' = asked - 1 /\ SameRound /\ UNCHANGED <<pc, at, step>>
             ELSE KmNextPart
  BY DEF KmRecord
<1>2. /\ hurt = {} /\ flying' = <<>>
      /\ got = IF answer.what = "silence" THEN <<>> ELSE <<answer>>
  BY <1>1, QuietRead
<1>3. /\ \/ UNCHANGED <<pc, at, step, rest>> /\ asked > 0 /\ asked' = asked - 1
         \/ KmNextPart
  BY <1>1 DEF SameRound
<1>4. CASE asked \in 0 .. Newest(KmKind)
  <2>1. answer = Frame("record", Ch.dev, KmKind, asked) /\ answer.what = "record"
    BY <1>1, <1>4 DEF KmAnswers, Record, Frame
  <2>2. got = <<answer>> /\ Len(got) = 1 /\ got[1] = answer
    BY <1>2, <2>1
  <2>3. Right(got) /\ buffer' = answer
    BY <1>1, <2>1, <2>2 DEF Right, CopiedAll
  <2>4. like /\ Usable(got)
    BY <1>1, <2>1, <2>3 DEF Usable
  <2>5. rows' = KmStored(answer)
    BY <1>1, <2>3, <2>4
  <2>6. QED BY <1>2, <1>3, <1>4, <2>1, <2>5
<1>5. CASE asked \notin 0 .. Newest(KmKind)
  <2>1. answer.what \in {"none", "silence"}
    BY <1>1, <1>5 DEF KmAnswers, Record, Frame, Silence
  <2>2. ~(like /\ Usable(got))
    <3>1. CASE answer.what = "silence"
      <4>1. got = <<>> /\ Len(got) = 0
        BY <1>2, <3>1
      <4>2. QED BY <4>1 DEF Usable, Right
    <3>2. CASE answer.what = "none"
      <4>1. got = <<answer>> /\ Len(got) = 1 /\ got[1] = answer
        BY <1>2, <3>2
      <4>2. buffer' = answer
        BY <1>1, <3>2, <4>1 DEF CopiedAll, Right
      <4>3. QED BY <1>1, <3>2, <4>2
    <3>3. QED BY <2>1, <3>1, <3>2
  <2>3. rows' = rows
    BY <1>1, <2>2
  <2>4. QED BY <1>2, <1>3, <1>5, <2>3
<1>6. QED BY <1>4, <1>5

(* The earlier hours of pipe 2 that a difference may be taken to.          *)
Earlier(r, kind, n) ==
  {w \in r : w.key.dev = Ch.dev /\ w.key.kind = kind /\ w.key.pipe = 2
             /\ w.key.date < KmDate(kind, n)}

LEMMA StoredRows ==
  ASSUME NEW record, record.kind = KmKind
  PROVE  LET key == Key(Ch.dev, Ch.pipe, KmKind, KmDate(KmKind, record.n))
             other == Key(Ch.dev, 0, KmKind, KmDate(KmKind, record.n))
             kept == StoreArchiveOf(rows, key, [Value(record.kind, record.n) EXCEPT !.dev = record.dev])
             e == Earlier(kept, KmKind, record.n)
         IN  /\ rows \subseteq KmStored(record) /\ (\E w \in KmStored(record) : w.key = key)
             /\ \A w \in kept : w \in rows \/ w.key = key
             /\ \A w \in KmStored(record) :
                  \/ w \in rows
                  \/ w.key = key
                  \/ /\ w.key = other /\ e # {} /\ w.value.n = record.n
                     /\ w.value.since = (CHOOSE p \in e : \A x \in e : x.key.date <= p.key.date).value.n
<1> DEFINE key == Key(Ch.dev, Ch.pipe, KmKind, KmDate(KmKind, record.n))
           other == Key(Ch.dev, 0, KmKind, KmDate(KmKind, record.n))
           value == [Value(record.kind, record.n) EXCEPT !.dev = record.dev]
           kept == StoreArchiveOf(rows, key, value)
           e == Earlier(kept, KmKind, record.n)
           prior == CHOOSE p \in e : \A x \in e : x.key.date <= p.key.date
           span == [Value(KmKind, record.n) EXCEPT !.since = prior.value.n]
<1>1. rows \subseteq kept /\ (\A w \in kept : w \in rows \/ w.key = key) /\ \E w \in kept : w.key = key
  <2>1. CASE RowOf(rows, key) # {}
    BY <2>1 DEF StoreArchiveOf, StoreArchive, RowOf
  <2>2. CASE RowOf(rows, key) = {}
    <3>1. kept = rows \cup {[key |-> key, value |-> value]}
      BY <2>2 DEF StoreArchiveOf, StoreArchive
    <3> DEFINE new == [key |-> key, value |-> value]
    <3>2. kept = rows \cup {new} /\ new.key = key
      BY <3>1
    <3> HIDE DEF new, key, value, kept
    <3>3. QED BY <3>2
  <2>3. QED BY <2>1, <2>2
<1>2. span.n = record.n /\ span.since = prior.value.n
  BY DEF Value
<1>3. Differences(kept, KmKind, record.n) =
        IF ~Ch.heat \/ e = {} THEN kept ELSE StoreArchiveOf(kept, other, span)
  BY DEF Differences, Earlier
<1>4. KmStored(record) = IF Second THEN Differences(kept, KmKind, record.n) ELSE kept
  BY DEF KmStored
<1> HIDE DEF key, value, kept, e, prior, span, other
<1>5. kept \subseteq StoreArchiveOf(kept, other, span)
  BY DEF StoreArchiveOf, StoreArchive
<1>6. \A w \in StoreArchiveOf(kept, other, span) : w \in kept \/ (w.key = other /\ w.value = span)
  BY DEF StoreArchiveOf, StoreArchive
<1>7. rows \subseteq KmStored(record) /\ \E w \in KmStored(record) : w.key = key
  BY <1>1, <1>3, <1>4, <1>5
<1>8. \A w \in KmStored(record) :
        w \in rows \/ w.key = key \/ (w.key = other /\ e # {} /\ w.value = span)
  BY <1>1, <1>3, <1>4, <1>6
<1>9. \A w \in KmStored(record) :
        \/ w \in rows
        \/ w.key = key
        \/ w.key = other /\ e # {} /\ w.value.n = record.n /\ w.value.since = prior.value.n
  BY <1>2, <1>8
<1>10. QED BY <1>1, <1>7, <1>9 DEF key, value, kept, e, prior, other

LEMMA DiffRecord ==
  ASSUME KmOnLine, HoursPerDay >= 3, KmInv, DiffInv, KmRecord PROVE DiffInv'
<1> SUFFICES ASSUME hurt' = {}, dead' = {} PROVE DiffInv'
  BY DEF DiffInv
<1>1. driver = "km5" /\ UNCHANGED <<driver, now>> /\ pc = "record"
  BY DEF KmRecord
<1>2. dead = {} /\ hurt = {}
  <2>1. PICK answer, got : Heard(answer, got)
    BY DEF KmRecord
  <2>2. QED BY <2>1, Hears
<1>3. /\ now \in Nat /\ rest \in 0 .. 2 /\ flying = <<>>
      /\ Unbroken /\ WalkUnbroken /\ RoundCovers /\ HaveChannels /\ DifferencesAreShort
  BY <1>1, <1>2 DEF DiffInv
<1>4. /\ asked \in Int
      /\ KmKind = "hour" => asked <= now - 1
      /\ KmKind = "hour" /\ Ch.pipe = 2 =>
           \A n \in Nat : asked < n /\ n <= (IF rest = 2 THEN now - 2 ELSE now - 1) =>
             Covered(rows, Ch.dev, n)
  BY <1>1, <1>3 DEF WalkUnbroken
<1>5. at \in 1 .. Len(KmTable) /\ step \in 1 .. 2 * Len(Ch.kinds) /\ KmRowsAreOwn
  BY <1>1 DEF KmInv
<1>6. /\ Ch \in KmRow /\ Len(Ch.kinds) \in 1 .. 3 /\ KmKind \in KmKinds
      /\ KmKind = "hour" => Ch.kinds[1] = "hour"
      /\ step = 1 /\ Ch.kinds[1] = "hour" => KmKind = "hour"
  BY <1>5, PartKinds DEF KmKinds
<1>7. Ch.dev \in Nat /\ Ch.pipe \in Nat \ {0}
  BY <1>6 DEF KmRow
<1>8. /\ flying' = <<>>
      /\ IF asked \in 0 .. Newest(KmKind)
           THEN rows' = KmStored(Frame("record", Ch.dev, KmKind, asked))
           ELSE rows' = rows
      /\ \/ UNCHANGED <<pc, at, step, rest>> /\ asked > 0 /\ asked' = asked - 1
         \/ KmNextPart
  BY <1>2, <1>3, <1>4, QuietRecord
<1> DEFINE record == Frame("record", Ch.dev, KmKind, asked)
           key == Key(Ch.dev, Ch.pipe, KmKind, KmDate(KmKind, record.n))
           other == Key(Ch.dev, 0, KmKind, KmDate(KmKind, record.n))
           kept == StoreArchiveOf(rows, key, [Value(record.kind, record.n) EXCEPT !.dev = record.dev])
           e == Earlier(kept, KmKind, record.n)
           prior == CHOOSE p \in e : \A x \in e : x.key.date <= p.key.date
           isNew(w) == w.key = key \/ (/\ w.key = other /\ e # {} /\ w.value.n = record.n
                                       /\ w.value.since = prior.value.n)
<1>9. record.kind = KmKind /\ record.n = asked
  BY DEF Frame
<1>10. /\ key.dev = Ch.dev /\ key.pipe = Ch.pipe /\ key.kind = KmKind /\ key.date = KmDate(KmKind, asked)
       /\ other.pipe = 0 /\ other.kind = KmKind /\ other.date = KmDate(KmKind, asked)
  BY <1>9 DEF Key
<1>11. /\ rows \subseteq rows'
       /\ asked \in 0 .. Newest(KmKind) => \E w \in rows' : w.key = key
       /\ \A w \in rows' : w \in rows \/ (asked \in 0 .. Newest(KmKind) /\ isNew(w))
       /\ \A w \in kept : w \in rows \/ w.key = key
  <2>1. /\ rows \subseteq KmStored(record) /\ (\E w \in KmStored(record) : w.key = key)
        /\ \A w \in kept : w \in rows \/ w.key = key
        /\ \A w \in KmStored(record) : w \in rows \/ isNew(w)
    <3> HIDE DEF record
    <3>1. QED BY <1>9, StoredRows
  <2>2. QED BY <1>8, <2>1
<1> HIDE DEF record, key, other, kept, prior
<1>12. \A d, n : Covered(rows, d, n) => Covered(rows', d, n)
  BY <1>11, StillCovered
<1>13. Newest("hour") = now - 1
  BY DEF Newest
(* The hour that is asked for is there afterwards.                         *)
<1>14. KmKind = "hour" /\ Ch.pipe = 2 =>
         \A n \in Nat : asked <= n /\ n <= (IF rest = 2 THEN now - 2 ELSE now - 1) =>
           Covered(rows', Ch.dev, n)
  <2> SUFFICES ASSUME KmKind = "hour", Ch.pipe = 2, NEW n \in Nat, asked <= n,
                      n <= (IF rest = 2 THEN now - 2 ELSE now - 1)
               PROVE  Covered(rows', Ch.dev, n)
    OBVIOUS
  <2>1. CASE asked < n
    BY <1>4, <1>12, <2>1
  <2>2. CASE asked = n
    <3>1. asked \in 0 .. Newest(KmKind)
      BY <1>3, <1>4, <1>13, <2>2
    <3>2. key = Key(Ch.dev, 2, "hour", KmDate("hour", n))
      BY <1>9, <2>2 DEF key
    <3>3. QED BY <1>11, <3>1, <3>2 DEF Covered
  <2>3. QED BY <1>4, <2>1, <2>2
<1>15. \/ UNCHANGED <<pc, at, step, rest>> /\ asked > 0 /\ asked' = asked - 1
       \/ /\ at' = at /\ step' = step + 1 /\ step < 2 * Len(Ch.kinds) /\ rest' = rest /\ pc' # "record"
       \/ /\ step = 2 * Len(Ch.kinds) /\ step' = 1 /\ pc' # "record"
          /\ \/ at < Len(KmTable) /\ at' = at + 1 /\ rest' = rest
             \/ /\ at = Len(KmTable) /\ at' = 1
                /\ rest' = IF rest > 0 THEN rest - 1 ELSE 0
  <2>1. CASE KmNextPart
    BY <1>5, <2>1, NextPart DEF RoundOver
  <2>2. QED BY <1>8, <2>1
<1>16. step > 1 \/ step' > 1 \/ UNCHANGED <<pc, at, step, rest>>
  BY <1>5, <1>6, <1>15
<1>17. rest' \in 0 .. 2
  BY <1>3, <1>15
<1>18. Unbroken'
  <2> SUFFICES ASSUME NEW w \in rows', w.key.kind = "hour", w.key.pipe = 2, NEW n \in Nat,
                      n <= (IF rest' = 0 THEN now - 1 ELSE now - 2),
                      w.key.date < KmDate("hour", n)
               PROVE  Covered(rows', w.key.dev, n)
    BY <1>1 DEF Unbroken
  <2>1. CASE w \in rows /\ n <= (IF rest = 0 THEN now - 1 ELSE now - 2)
    BY <1>3, <1>12, <2>1 DEF Unbroken
  <2>2. CASE w \notin rows /\ n <= (IF rest = 0 THEN now - 1 ELSE now - 2)
    <3>1. w.key = key /\ KmKind = "hour" /\ Ch.pipe = 2 /\ w.key.dev = Ch.dev
      BY <1>10, <1>11, <2>2
    <3>2. asked \in Nat /\ KmDate("hour", asked) < KmDate("hour", n)
      BY <1>10, <1>11, <2>2, <3>1
    <3>3. asked <= n
      <4>1. CASE n < asked
        <5>1. KmDate("hour", n) <= n + 1 /\ KmDate("hour", asked) >= asked
              /\ KmDate("hour", n) \in Int /\ KmDate("hour", asked) \in Int
          BY <3>2, HourLabel
        <5>2. QED BY <3>2, <4>1, <5>1
      <4>2. QED BY <3>2, <4>1
    <3>4. n <= (IF rest = 2 THEN now - 2 ELSE now - 1)
      BY <1>3, <2>2
    <3>5. QED BY <1>14, <3>1, <3>3, <3>4
  <2>3. CASE ~(n <= (IF rest = 0 THEN now - 1 ELSE now - 2))
    <3>1. n = now - 1 /\ rest = 1 /\ rest' = 0 /\ now > 0
      BY <1>3, <1>15, <2>3
    <3>2. at = Len(KmTable) /\ step > 1
      BY <1>5, <1>6, <1>15, <3>1
    <3>3. PICK c \in 1 .. Len(KmTable) :
            KmTable[c].dev = w.key.dev /\ KmTable[c].pipe = 2 /\ KmTable[c].kinds[1] = "hour"
      <4>1. CASE w \in rows
        BY <1>3, <4>1 DEF HaveChannels
      <4>2. CASE w \notin rows
        BY <1>5, <1>6, <1>10, <1>11, <4>2 DEF Ch
      <4>3. QED BY <4>1, <4>2
    <3>4. c < at \/ c = at
      BY <1>5, <3>2
    <3>5. Covered(rows, KmTable[c].dev, now - 1)
      BY <1>3, <3>1, <3>2, <3>3, <3>4 DEF RoundCovers
    <3>6. QED BY <1>12, <3>1, <3>3, <3>5
  <2>4. QED BY <2>1, <2>2, <2>3
<1>19. WalkUnbroken'
  <2> SUFFICES ASSUME pc' = "record" PROVE WalkUnbroken'
    BY DEF WalkUnbroken
  <2>1. UNCHANGED <<at, step, rest>> /\ asked' = asked - 1
    BY <1>1, <1>15
  <2>2. Ch' = Ch /\ KmKind' = KmKind
    BY <2>1 DEF Ch, KmKind
  <2>3. asked' \in Int /\ (KmKind = "hour" => asked' <= now - 1)
    BY <1>3, <1>4, <2>1
  <2>4. KmKind = "hour" /\ Ch.pipe = 2 =>
          \A n \in Nat : asked' < n /\ n <= (IF rest = 2 THEN now - 2 ELSE now - 1) =>
            Covered(rows', Ch.dev, n)
    BY <1>4, <1>14, <2>1
  <2>5. QED BY <1>1, <2>1, <2>2, <2>3, <2>4 DEF WalkUnbroken
<1>20. RoundCovers'
  <2> SUFFICES ASSUME rest' = 1, now > 0, NEW c \in 1 .. Len(KmTable),
                      KmTable[c].pipe = 2, KmTable[c].kinds[1] = "hour",
                      c < at' \/ (c = at' /\ step' > 1)
               PROVE  Covered(rows', KmTable[c].dev, now - 1)
    BY <1>1 DEF RoundCovers
  <2>1. rest = 1
    <3>1. CASE rest # 1
      <4>1. at' = 1 /\ step' = 1
        BY <1>3, <1>15, <3>1
      <4>2. QED BY <4>1
    <3>2. QED BY <3>1
  <2>2. c < at \/ c = at
    BY <1>5, <1>15, <2>1
  <2>3. CASE c < at \/ step > 1
    BY <1>3, <1>12, <2>1, <2>2, <2>3 DEF RoundCovers
  <2>4. CASE c = at /\ ~(step > 1)
    <3>1. step = 1 /\ KmTable[c] = Ch
      BY <1>5, <2>4 DEF Ch
    <3>2. KmKind = "hour" /\ Ch.pipe = 2 /\ asked <= now - 1
      BY <1>4, <1>6, <3>1
    <3>3. now - 1 \in Nat
      BY <1>3
    <3>4. QED BY <1>14, <2>1, <3>1, <3>2, <3>3
  <2>5. QED BY <2>2, <2>3, <2>4
<1>21. HaveChannels'
  <2> SUFFICES ASSUME NEW w \in rows', w.key.kind = "hour", w.key.pipe = 2
               PROVE  \E c \in 1 .. Len(KmTable) :
                        KmTable[c].dev = w.key.dev /\ KmTable[c].pipe = 2 /\ KmTable[c].kinds[1] = "hour"
    BY DEF HaveChannels
  <2>1. CASE w \in rows
    BY <1>3, <2>1 DEF HaveChannels
  <2>2. CASE w \notin rows
    BY <1>5, <1>6, <1>10, <1>11, <2>2 DEF Ch
  <2>3. QED BY <2>1, <2>2
<1>22. DifferencesAreShort'
  <2> SUFFICES ASSUME NEW w \in rows', w \notin rows, w.key.kind = "hour", w.key.pipe = 0
               PROVE  Spans(w.key.date, w.value.n, w.value.since)
    BY <1>3 DEF DifferencesAreShort
  <2>1. /\ w.key = other /\ e # {} /\ w.value.n = asked /\ w.value.since = prior.value.n
        /\ asked \in Nat /\ KmKind = "hour"
    BY <1>7, <1>9, <1>10, <1>11
  <2>2. \A x \in e : /\ x.key.date < KmDate("hour", asked) /\ x \in rows
                     /\ x.key.dev = Ch.dev /\ x.key.pipe = 2 /\ x.key.kind = "hour"
    <3> SUFFICES ASSUME NEW x \in e PROVE /\ x.key.date < KmDate("hour", asked) /\ x \in rows
                     /\ x.key.dev = Ch.dev /\ x.key.pipe = 2 /\ x.key.kind = "hour"
      OBVIOUS
    <3>1. /\ x \in kept /\ x.key.date < KmDate("hour", asked)
          /\ x.key.dev = Ch.dev /\ x.key.pipe = 2 /\ x.key.kind = "hour"
      BY <1>9, <2>1 DEF Earlier
    <3>2. KmDate("hour", asked) \in Int
      BY <2>1, HourLabel
    <3>3. x.key # key
      BY <1>10, <2>1, <3>1, <3>2
    <3>4. QED BY <1>11, <3>1, <3>3
  <2>3. \A x \in e : x.value.n \in Nat /\ x.key.date = KmDate("hour", x.value.n)
    BY <1>5, <2>2 DEF KmRowsAreOwn, KmKinds
  <2>4. ASSUME NEW x \in e, NEW m \in Nat, m < asked, x.key.date < KmDate("hour", m),
               KmDate("hour", m) < KmDate("hour", asked)
        PROVE  \E y \in e : y.key.date = KmDate("hour", m)
    <3>1. m <= (IF rest = 0 THEN now - 1 ELSE now - 2)
      BY <1>3, <1>4, <2>1, <2>4
    <3>2. Covered(rows, Ch.dev, m)
      BY <1>3, <2>2, <2>4, <3>1 DEF Unbroken
    <3>3. PICK y \in rows : y.key = Key(Ch.dev, 2, "hour", KmDate("hour", m))
      BY <3>2 DEF Covered
    <3>4. /\ y.key.dev = Ch.dev /\ y.key.kind = "hour" /\ y.key.pipe = 2
          /\ y.key.date = KmDate("hour", m)
      BY <3>3 DEF Key
    <3>5. y \in kept
      BY <3>3 DEF kept, StoreArchiveOf, StoreArchive
    <3>6. y \in e
      BY <1>9, <2>1, <2>4, <3>4, <3>5 DEF Earlier
    <3>7. QED BY <3>4, <3>6
  <2> HIDE DEF e
  <2>5. /\ \E p \in e : \A x \in e : x.key.date <= p.key.date
        /\ \A p \in e : (\A x \in e : x.key.date <= p.key.date) =>
             Spans(KmDate("hour", asked), asked, p.value.n)
    BY <2>1, <2>2, <2>3, <2>4, LatestEarlier
  <2>6. prior \in e /\ \A x \in e : x.key.date <= prior.key.date
    BY <2>5 DEF prior
  <2>7. Spans(KmDate("hour", asked), asked, prior.value.n)
    BY <2>5, <2>6
  <2>8. QED BY <1>10, <2>1, <2>7
<1>23. QED BY <1>1, <1>3, <1>8, <1>17, <1>18, <1>19, <1>20, <1>21, <1>22 DEF DiffInv

LEMMA InitDiff == ASSUME Clocked, Init PROVE DiffInv
<1> SUFFICES ASSUME driver = "km5" PROVE DiffInv
  BY DEF DiffInv
<1>1. now \in Span["km5"] /\ rest = 1 /\ flying = <<>> /\ rows = {} /\ pc # "record" /\ at = 1 /\ step = 1
  BY DEF Init, KmInit, IrpInit, VktInit, HeatInit, KmOpened
<1>2. now \in Nat
  BY <1>1, HeatAssumption DEF Clocked
<1>3. RoundCovers
  <2>1. \A c \in 1 .. Len(KmTable) : ~(c < at \/ (c = at /\ step > 1))
    BY <1>1
  <2>2. QED BY <2>1 DEF RoundCovers
<1>4. QED BY <1>1, <1>2, <1>3 DEF DiffInv, Unbroken, WalkUnbroken, HaveChannels, DifferencesAreShort

LEMMA StepDiff ==
  ASSUME KmOnLine, HoursPerDay >= 3, KmInv, DiffInv, [Next]_vars PROVE DiffInv'
<1>1. CASE UNCHANGED vars
  <2>1. UNCHANGED <<driver, now, rest, at, step, pc, asked, flying, rows, hurt, dead>>
    BY <1>1 DEF vars, heatVars, lineVars
  <2>2. Ch' = Ch /\ KmKind' = KmKind
    BY <2>1 DEF Ch, KmKind
  <2>3. QED BY <2>1, <2>2 DEF DiffInv, Unbroken, WalkUnbroken, RoundCovers, HaveChannels,
                              DifferencesAreShort
<1>2. CASE World
  <2>1. CASE Die
    <3>1. dead' # {}
      BY <2>1 DEF Die
    <3>2. QED BY <3>1 DEF DiffInv
  <2>2. CASE Tick
    <3> SUFFICES ASSUME driver = "km5", hurt = {}, dead = {} PROVE DiffInv'
      BY <2>2 DEF DiffInv, Tick, lineVars
    <3>1. /\ UNCHANGED <<driver, at, step, pc, asked, flying, rows, hurt, dead>>
          /\ rest = 0 /\ rest' = 2 /\ now' = now + 1
      BY <2>2 DEF Tick, lineVars
    <3>2. Ch' = Ch /\ KmKind' = KmKind
      BY <3>1 DEF Ch, KmKind
    <3>3. now \in Nat /\ flying = <<>> /\ Unbroken /\ WalkUnbroken /\ HaveChannels /\ DifferencesAreShort
      BY DEF DiffInv
    <3>4. now' \in Nat /\ now' - 2 = now - 1 /\ now - 1 <= now' - 1
      BY <3>1, <3>3
    <3>5. Unbroken'
      BY <3>1, <3>3, <3>4 DEF Unbroken
    <3>6. WalkUnbroken'
      <4>1. pc # "record" \/ asked \in Int
        BY <3>3 DEF WalkUnbroken
      <4>2. CASE asked \in Int
        <5>1. asked <= now - 1 => asked <= now' - 1
          BY <3>1, <3>3, <4>2
        <5>2. QED BY <3>1, <3>2, <3>3, <3>4, <4>2, <5>1 DEF WalkUnbroken
      <4>3. CASE pc # "record"
        BY <3>1, <4>3 DEF WalkUnbroken
      <4>4. QED BY <4>1, <4>2, <4>3
    <3>7. RoundCovers' /\ HaveChannels' /\ DifferencesAreShort'
      BY <3>1, <3>3 DEF RoundCovers, HaveChannels, DifferencesAreShort
    <3>8. QED BY <3>1, <3>3, <3>4, <3>5, <3>6, <3>7 DEF DiffInv
  <2>3. QED BY <1>2, <2>1, <2>2 DEF World
<1>3. CASE KmNext
  BY <1>3, DiffBeforeWalk, DiffLast, DiffRecord DEF KmNext
<1>4. CASE VktNext \/ IrpNext
  BY <1>4, OthersThanKm DEF DiffInv
<1>5. QED BY <1>1, <1>2, <1>3, <1>4 DEF Next, Driver, Stopped

(* For any table of channels, depth of a walk and faults: a KM-5's row is  *)
(* of its meter, archive and date, an hour that of its label but for the   *)
(* first of a day; and without a fault no difference leaves out an hour    *)
(* that has a label of its own.                                            *)
THEOREM KmRows ==
  KmOnLine /\ Clocked /\ HoursPerDay >= 3 => (Spec => []KmRowsAreTrue)
<1> SUFFICES ASSUME KmOnLine, Clocked, HoursPerDay >= 3 PROVE Spec => []KmRowsAreTrue
  OBVIOUS
<1>1. Init => KmInv /\ DiffInv
  BY InitKm, InitDiff
<1>2. KmInv /\ DiffInv /\ [Next]_vars => KmInv' /\ DiffInv'
  BY StepKm, StepDiff
<1>3. KmInv /\ DiffInv => KmRowsAreTrue
  <2> SUFFICES ASSUME KmInv, DiffInv PROVE KmRowsAreTrue
    OBVIOUS
  <2>1. KmArchivesAreOwn
    BY DEF KmArchivesAreOwn, KmInv, KmRowsAreOwn, KmKinds, Own, Dated
  <2>2. HoursAreTrue
    <3> SUFFICES ASSUME driver = "km5", NEW w \in rows, w.key.kind = "hour", w.key.pipe # 0
                 PROVE  \/ w.value.n = w.key.date
                        \/ w.key.date % HoursPerDay = 0 /\ w.value.n = w.key.date - 1
      BY DEF HoursAreTrue
    <3>1. w.value.n \in Nat /\ w.key.date = KmDate("hour", w.value.n)
      BY DEF KmInv, KmRowsAreOwn, KmKinds
    <3>2. CASE (w.value.n + 1) % HoursPerDay = 0
      <4>1. w.key.date = w.value.n + 1
        BY <3>1, <3>2, HourLabel
      <4>2. w.value.n = w.key.date - 1
        BY <3>1, <4>1
      <4>3. QED BY <3>2, <4>1, <4>2
    <3>3. CASE (w.value.n + 1) % HoursPerDay # 0
      BY <3>1, <3>3, HourLabel
    <3>4. QED BY <3>2, <3>3
  <2>3. DifferencesSpanAnHour
    BY DEF DiffInv, DifferencesAreShort, Spans, DifferencesSpanAnHour
  <2>4. QED BY <2>1, <2>2, <2>3 DEF KmRowsAreTrue
<1>4. QED BY <1>1, <1>2, <1>3, PTL DEF Spec

-----------------------------------------------------------------------------
(* A late answer has used up the one fault, and what is under way when a   *)
(* block of days is asked for is such a block of the same meter: addresses *)
(* that come late begin no walk in the read that misses them, and are read *)
(* in front of an answer that cannot be late any more.                     *)
IrpUnderWay ==
  /\ budget \in {0, 1} /\ (flying = <<>> \/ budget = 0)
  /\ "late" \notin hurt => flying = <<>>
  /\ flying = <<>> \/ flying = <<flying[1]>>
  /\ pc = "day" /\ flying # <<>> =>
       flying[1].what = "block" /\ flying[1].kind = "day" /\ flying[1].dev = Irp

IrpInv ==
  driver = "irp" =>
    /\ IrpUnderWay
    /\ \A w \in rows : w.key.kind = "day" =>
         w.value.dev = w.key.dev /\ w.value.kind = "day" /\ w.value.n = w.key.date
    /\ "late" \notin hurt =>
         \A w \in rows : w.value.dev = w.key.dev /\ w.value.kind = w.key.kind

IrpFaults == MaxFaults["irp"] \in {0, 1}

(* What the three steps have in common: the first frame of a read is the   *)
(* one that was under way or the answer; a late answer leaves nothing read *)
(* if nothing was under way.                                               *)
LEMMA IrpHears ==
  ASSUME NEW answer, NEW got, answer.what # "silence", Heard(answer, got), IrpUnderWay
  PROVE  /\ budget' \in {0, 1} /\ (flying' = <<>> \/ budget' = 0)
         /\ hurt \subseteq hurt' /\ ("late" \notin hurt' => flying' = <<>>)
         /\ flying' = <<>> \/ (flying' = <<answer>> /\ got = <<>>)
         /\ Taken(got) # {} => got[1] = (IF flying = <<>> THEN answer ELSE flying[1])
<1> DEFINE Fate(kind, read, coming) ==
             /\ budget > 0 /\ budget' = budget - 1 /\ hurt' = hurt \cup {kind}
             /\ got = flying \o read /\ flying' = coming
<1>1. \/ /\ got = flying \o <<>> \/ got = flying \o <<answer>>
         /\ flying' = <<>> /\ UNCHANGED <<budget, hurt>>
      \/ Fate("lost", <<>>, <<>>)
      \/ Fate("late", <<>>, <<answer>>)
      \/ Fate("garbled", <<Junk>>, <<>>)
  BY DEF Heard
<1>2. budget \in {0, 1} /\ (flying = <<>> \/ budget = 0) /\ ("late" \notin hurt => flying = <<>>)
  BY DEF IrpUnderWay
<1>3. budget > 0 => flying = <<>>
  BY <1>2
<1>4. /\ <<>> \o <<>> = <<>> /\ <<>> \o <<answer>> = <<answer>> /\ <<>> \o <<Junk>> = <<Junk>>
  BY InFront
<1>5. CASE Fate("late", <<>>, <<answer>>)
  <2>1. got = <<>> /\ flying' = <<answer>> /\ budget' = 0 /\ hurt' = hurt \cup {"late"}
    BY <1>5, <1>2, <1>3, <1>4
  <2>2. QED BY <2>1 DEF Taken
<1>6. CASE Fate("lost", <<>>, <<>>)
  <2>1. got = <<>> /\ flying' = <<>> /\ budget' = 0 /\ hurt' = hurt \cup {"lost"}
    BY <1>6, <1>2, <1>3, <1>4
  <2>2. QED BY <2>1 DEF Taken
<1>7. CASE Fate("garbled", <<Junk>>, <<>>)
  <2>1. /\ got = <<Junk>> /\ flying' = <<>> /\ budget' = 0 /\ hurt \subseteq hurt'
    BY <1>7, <1>2, <1>3, <1>4
  <2>2. got # <<>> /\ got[1].what = "junk"
    BY <2>1 DEF Junk, Frame
  <2>3. QED BY <2>1, <2>2 DEF Taken
<1>8. CASE /\ got = flying \o <<>> \/ got = flying \o <<answer>>
           /\ flying' = <<>> /\ UNCHANGED <<budget, hurt>>
  <2>1. CASE flying = <<>>
    <3>1. got = <<>> \/ got = <<answer>>
      BY <2>1, <1>8, <1>4
    <3>2. got # <<>> => got[1] = answer
      BY <3>1
    <3>3. QED BY <1>2, <1>8, <2>1, <3>2 DEF Taken
  <2>2. CASE flying # <<>>
    <3>1. flying = <<flying[1]>>
      BY <2>2 DEF IrpUnderWay
    <3>2. got[1] = flying[1]
      BY <1>8, <3>1, InFront
    <3>3. QED BY <1>2, <1>8, <2>2, <3>2 DEF Taken
  <2>3. QED BY <2>1, <2>2
<1>9. QED BY <1>1, <1>5, <1>6, <1>7, <1>8

LEMMA RowsOfAnArea ==
  ASSUME IrpInv, driver = "irp", NEW f, NEW area \in {"day", "tech"}, rows' \in Parsed(f, area),
         area = "day" => f.what = "block" /\ f.kind = "day" /\ f.dev = Irp
  PROVE  /\ \A w \in rows' : w.key.kind = "day" =>
              w.value.dev = w.key.dev /\ w.value.kind = "day" /\ w.value.n = w.key.date
         /\ "late" \notin hurt /\ f.what = "block" /\ f.kind = area /\ f.dev = Irp =>
              \A w \in rows' : w.value.dev = w.key.dev /\ w.value.kind = w.key.kind
<1> DEFINE row(n) == [key |-> Key(Irp, 0, area, n),
                      value |-> [Value(f.kind, n) EXCEPT !.dev = f.dev]]
           OwnDay(w) == w.key.kind = "day" =>
                          w.value.dev = w.key.dev /\ w.value.kind = "day" /\ w.value.n = w.key.date
           OwnValue(w) == w.value.dev = w.key.dev /\ w.value.kind = w.key.kind
<1>1. CASE f.what = "block" /\ f.kind = area
  <2>1. PICK days : rows' = StoreArchives(rows, {row(n) : n \in days})
    BY <1>1 DEF Parsed
  <2>2. \A w \in rows' : w \in rows \/ \E n \in days : w = row(n)
    BY <2>1 DEF StoreArchives
  <2>3. ASSUME NEW n PROVE OwnDay(row(n)) /\ (f.dev = Irp => OwnValue(row(n)))
    BY <1>1 DEF Key, Value
  <2>4. \A w \in rows : OwnDay(w) /\ ("late" \notin hurt => OwnValue(w))
    BY DEF IrpInv
  <2> HIDE DEF row, OwnDay, OwnValue
  <2>5. \A w \in rows' : OwnDay(w) /\ ("late" \notin hurt /\ f.dev = Irp => OwnValue(w))
    BY <2>2, <2>3, <2>4
  <2>6. QED BY <2>5 DEF OwnDay, OwnValue
<1>2. CASE ~(f.what = "block" /\ f.kind = area)
  <2>1. area = "tech"
    BY <1>2
  <2>2. \A w \in rows' : w \in rows \/ w = [key |-> Key(Irp, 0, area, 0), value |-> Value("junk", 0)]
    BY <1>2 DEF Parsed, StoreArchive
  <2>3. QED BY <1>2, <2>1, <2>2 DEF IrpInv, Key
<1>3. QED BY <1>1, <1>2

LEMMA IrpPointerStep == ASSUME IrpInv, IrpPointer PROVE IrpInv'
<1>1. driver = "irp" /\ IrpUnderWay
  BY DEF IrpInv, IrpPointer
<1>2. PICK got : /\ Heard(IrpAnswer("pointer"), got)
                 /\ IF Marked(got) THEN GoOn("day", 1) ELSE ArchivesDone
  BY DEF IrpPointer
<1>3. IrpAnswer("pointer").what # "silence"
  BY DEF IrpAnswer, Frame
<1>4. /\ budget' \in {0, 1} /\ (flying' = <<>> \/ budget' = 0)
      /\ hurt \subseteq hurt' /\ ("late" \notin hurt' => flying' = <<>>)
      /\ flying' = <<>> \/ (flying' = <<IrpAnswer("pointer")>> /\ got = <<>>)
  BY <1>1, <1>2, <1>3, IrpHears
<1>5. pc' = "day" => flying' = <<>>
  <2>1. got = <<>> => ~Marked(got)
    BY DEF Marked, Taken
  <2>2. ArchivesDone => pc' # "day"
    BY DEF ArchivesDone
  <2>3. QED BY <1>2, <1>4, <2>1, <2>2
<1>6. rows' = rows
  BY DEF IrpPointer
<1>7. flying' = <<>> \/ flying' = <<flying'[1]>>
  BY <1>4
<1>8. IrpUnderWay'
  BY <1>4, <1>5, <1>7 DEF IrpUnderWay
<1>9. QED BY <1>1, <1>4, <1>6, <1>8 DEF IrpInv

LEMMA IrpBlockStep == ASSUME IrpInv, IrpBlock PROVE IrpInv'
<1>1. driver = "irp" /\ IrpUnderWay /\ pc \in {"day", "tech"}
  BY DEF IrpInv, IrpBlock
<1> DEFINE n == asked - BlockOf[pc] * left
           answer == Frame("block", Irp, pc, n)
<1>2. IrpAnswer(pc) = answer
  BY <1>1 DEF IrpAnswer
<1>3. PICK got : /\ Heard(IrpAnswer(pc), got)
                 /\ rows' \in IF Taken(got) = {} THEN {rows} ELSE Parsed(got[1], pc)
  BY DEF IrpBlock
<1>4. /\ budget' \in {0, 1} /\ (flying' = <<>> \/ budget' = 0)
      /\ hurt \subseteq hurt' /\ ("late" \notin hurt' => flying' = <<>>)
      /\ flying' = <<>> \/ flying' = <<answer>>
      /\ Taken(got) # {} => got[1] = (IF flying = <<>> THEN answer ELSE flying[1])
  <2>1. answer.what # "silence"
    BY DEF Frame
  <2> HIDE DEF answer
  <2>2. QED BY <1>1, <1>2, <1>3, <2>1, IrpHears
<1>5. pc' = "day" => pc = "day" /\ at' = at
  BY <1>1 DEF IrpBlock, GoOn, ArchivesDone
<1>6. /\ flying' = <<>> \/ flying' = <<flying'[1]>>
      /\ pc' = "day" /\ flying' # <<>> =>
           flying'[1].what = "block" /\ flying'[1].kind = "day" /\ flying'[1].dev = Irp'
  <2>1. flying' = <<answer>> => flying'[1] = answer
    OBVIOUS
  <2>2. answer.what = "block" /\ answer.kind = pc /\ answer.dev = Irp
    BY DEF Frame
  <2>3. pc' = "day" => Irp' = Irp
    BY <1>5 DEF Irp
  <2> HIDE DEF answer
  <2>4. QED BY <1>4, <1>5, <2>1, <2>2, <2>3
<1>7. ASSUME Taken(got) # {}
      PROVE  /\ pc = "day" => got[1].what = "block" /\ got[1].kind = "day" /\ got[1].dev = Irp
             /\ "late" \notin hurt => got[1].what = "block" /\ got[1].kind = pc /\ got[1].dev = Irp
  <2>1. answer.what = "block" /\ answer.kind = pc /\ answer.dev = Irp
    BY DEF Frame
  <2>2. "late" \notin hurt => got[1] = answer
    BY <1>1, <1>4, <1>7 DEF IrpUnderWay
  <2>3. CASE pc = "day" /\ flying # <<>>
    <3>1. flying[1].what = "block" /\ flying[1].kind = "day" /\ flying[1].dev = Irp
      BY <1>1, <2>3 DEF IrpUnderWay
    <3>2. got[1] = flying[1]
      BY <1>4, <1>7, <2>3
    <3> HIDE DEF answer
    <3>3. QED BY <2>1, <2>2, <2>3, <3>1, <3>2
  <2> HIDE DEF answer
  <2>4. QED BY <1>4, <1>7, <2>1, <2>2, <2>3
<1>8. /\ \A w \in rows' : w.key.kind = "day" =>
           w.value.dev = w.key.dev /\ w.value.kind = "day" /\ w.value.n = w.key.date
      /\ "late" \notin hurt =>
           \A w \in rows' : w.value.dev = w.key.dev /\ w.value.kind = w.key.kind
  <2>1. CASE Taken(got) = {}
    BY <1>1, <1>3, <2>1 DEF IrpInv
  <2>2. CASE Taken(got) # {}
    <3>1. rows' \in Parsed(got[1], pc)
      BY <1>3, <2>2
    <3>2. QED BY <1>1, <1>7, <2>2, <3>1, RowsOfAnArea
  <2>3. QED BY <2>1, <2>2
<1>9. driver' = "irp"
  BY <1>1 DEF IrpBlock
<1> HIDE DEF answer
<1>10. IrpUnderWay'
  BY <1>4, <1>6 DEF IrpUnderWay
<1>11. QED BY <1>4, <1>8, <1>9, <1>10 DEF IrpInv

LEMMA IrpCurrentStep == ASSUME IrpInv, IrpCurrent PROVE IrpInv'
<1> DEFINE answer == IrpAnswer("current")
           key == Key(Irp, 0, "current", 0)
           own(got) == [Value("current", got[1].n) EXCEPT !.dev = got[1].dev]
<1>1. driver = "irp" /\ IrpUnderWay
  BY DEF IrpInv, IrpCurrent
<1>2. answer = Frame("current", Irp, "current", now)
  BY DEF IrpAnswer
<1>3. PICK got :
        /\ Heard(answer, got)
        /\ \/ rows' = rows
           \/ /\ Taken(got) # {}
              /\ \/ got[1].what = "current" /\ rows' = StoreCurrent(rows, key, own(got))
                 \/ got[1].what # "current" /\ rows' = StoreCurrent(rows, key, Value("junk", 0))
  BY DEF IrpCurrent
<1>4. /\ budget' \in {0, 1} /\ (flying' = <<>> \/ budget' = 0)
      /\ hurt \subseteq hurt' /\ ("late" \notin hurt' => flying' = <<>>)
      /\ flying' = <<>> \/ (flying' = <<answer>> /\ got = <<>>)
      /\ Taken(got) # {} => got[1] = (IF flying = <<>> THEN answer ELSE flying[1])
  <2>1. answer.what # "silence"
    BY <1>2 DEF Frame
  <2> HIDE DEF answer
  <2>2. QED BY <1>1, <1>3, <2>1, IrpHears
<1>5. pc' # "day" /\ driver' = "irp"
  BY <1>1 DEF IrpCurrent, CurrentDone
<1>6. IrpUnderWay'
  <2>1. flying' = <<>> \/ flying' = <<flying'[1]>>
    BY <1>4
  <2> HIDE DEF answer
  <2>2. QED BY <1>4, <1>5, <2>1 DEF IrpUnderWay
<1>7. key.kind = "current" /\ key.dev = Irp
  BY DEF Key
<1>8. Taken(got) # {} /\ "late" \notin hurt =>
        /\ got[1].what = "current"
        /\ own(got).dev = Irp /\ own(got).kind = "current"
  <2>1. Taken(got) # {} /\ "late" \notin hurt => got[1] = answer
    BY <1>1, <1>4 DEF IrpUnderWay
  <2>2. answer.what = "current" /\ answer.dev = Irp
    BY <1>2 DEF Frame
  <2>3. own(got).dev = got[1].dev /\ own(got).kind = "current"
    BY DEF Value
  <2> HIDE DEF answer, own
  <2>4. QED BY <2>1, <2>2, <2>3
<1>9. \A w \in rows' : \/ w \in rows
                       \/ /\ w.key = key
                          /\ Taken(got) # {}
                          /\ got[1].what = "current" => w.value = own(got)
  <2> HIDE DEF key, own
  <2>1. QED BY <1>3 DEF StoreCurrent, RowOf
<1> HIDE DEF key, own, answer
<1>10. \A w \in rows' : w.key.kind = "day" => w \in rows
  BY <1>7, <1>9
<1>11. "late" \notin hurt =>
         \A w \in rows' : w.value.dev = w.key.dev /\ w.value.kind = w.key.kind
  BY <1>1, <1>7, <1>8, <1>9 DEF IrpInv
<1>12. QED BY <1>1, <1>4, <1>5, <1>6, <1>10, <1>11 DEF IrpInv

LEMMA OthersThanIrp ==
  ASSUME KmNext \/ VktNext
  PROVE  driver # "irp" /\ driver' = driver
<1>1. CASE KmNext
  BY <1>1 DEF KmNext, KmInfo, KmDrain, KmCurrent, KmLast, KmRecord
<1>2. CASE VktNext
  BY <1>2 DEF VktNext, VktGreet, VktList, VktType, VktDate, VktData
<1>3. QED BY <1>1, <1>2

LEMMA StepIrp == ASSUME IrpInv, [Next]_vars PROVE IrpInv'
<1>1. CASE UNCHANGED vars
  BY <1>1 DEF vars, heatVars, lineVars, IrpInv, IrpUnderWay, Irp
<1>2. CASE World
  BY <1>2 DEF World, Tick, Die, lineVars, IrpInv, IrpUnderWay, Irp
<1>3. CASE IrpNext
  BY <1>3, IrpPointerStep, IrpBlockStep, IrpCurrentStep DEF IrpNext
<1>4. CASE KmNext \/ VktNext
  BY <1>4, OthersThanIrp DEF IrpInv
<1>5. QED BY <1>1, <1>2, <1>3, <1>4 DEF Next, Driver, Stopped

(* With at most one fault, a day of an IRP is a day of the same meter,     *)
(* though the address in an answer is not compared; and without a late     *)
(* answer all its rows are its own.                                        *)
THEOREM IrpRows == IrpFaults => (Spec => []IrpRowsAreOwn)
<1>1. IrpFaults /\ Init => IrpInv
  <2> SUFFICES ASSUME IrpFaults, Init, driver = "irp" PROVE IrpInv
    BY DEF IrpInv
  <2>1. IrpInit
    BY DEF Init, KmInit, VktInit, HeatInit
  <2>2. pc = "pointer" /\ flying = <<>> /\ rows = {} /\ budget \in {0, 1}
    BY <2>1 DEF IrpInit, HeatInit, IrpFaults
  <2>3. QED BY <2>2 DEF IrpInv, IrpUnderWay
<1>2. IrpInv /\ [Next]_vars => IrpInv'
  BY StepIrp
<1>3. IrpInv => IrpRowsAreOwn
  BY DEF IrpInv, IrpRowsAreOwn, IrpDaysAreOwn, IrpValuesAreOwn, Own, Dated
<1>4. QED BY <1>1, <1>2, <1>3, PTL DEF Spec

-----------------------------------------------------------------------------
(* No driver ever has two rows of one key in the tables.                   *)
Keyed(r) == \A w, x \in r : w.key = x.key => w = x

LEMMA KeyedCurrent ==
  ASSUME NEW r, NEW key, NEW value, Keyed(r) PROVE Keyed(StoreCurrent(r, key, value))
BY DEF Keyed, StoreCurrent, RowOf

LEMMA KeyedArchive ==
  ASSUME NEW r, NEW key, NEW value, Keyed(r) PROVE Keyed(StoreArchive(r, key, value))
BY DEF Keyed, StoreArchive, RowOf

LEMMA KeyedArchives ==
  ASSUME NEW r, NEW new, Keyed(r), Keyed(new) PROVE Keyed(StoreArchives(r, new))
BY DEF Keyed, StoreArchives, RowOf

LEMMA KeyedRecord ==
  ASSUME NEW record, Keyed(rows) PROVE Keyed(KmStored(record))
<1> DEFINE key == Key(Ch.dev, Ch.pipe, KmKind, KmDate(record.kind, record.n))
           value == [Value(record.kind, record.n) EXCEPT !.dev = record.dev]
           kept == StoreArchive(rows, key, value)
<1>1. Keyed(kept)
  <2> HIDE DEF key, value
  <2>1. QED BY KeyedArchive
<1>2. KmStored(record) = IF Second THEN Differences(kept, KmKind, record.n) ELSE kept
  BY DEF KmStored, StoreArchiveOf
<1> HIDE DEF kept
<1>3. Keyed(Differences(kept, KmKind, record.n))
  <2> DEFINE date == KmDate(KmKind, record.n)
             since(prior) == [Value(KmKind, record.n) EXCEPT !.since = prior.value.n]
             zero == Key(Ch.dev, 0, KmKind, date)
  <2>1. \/ Differences(kept, KmKind, record.n) = kept
        \/ \E prior : Differences(kept, KmKind, record.n) = StoreArchive(kept, zero, since(prior))
    BY DEF Differences, StoreArchiveOf
  <2> HIDE DEF since, zero
  <2>2. QED BY <1>1, <2>1, KeyedArchive
<1>4. QED BY <1>1, <1>2, <1>3

LEMMA KeyedBlock ==
  ASSUME Keyed(rows), NEW f, NEW area \in {"day", "tech"}, rows' \in Parsed(f, area)
  PROVE  Keyed(rows')
<1> DEFINE row(n) == [key |-> Key(Irp, 0, area, n),
                      value |-> [Value(f.kind, n) EXCEPT !.dev = f.dev]]
<1>1. CASE f.what = "block" /\ f.kind = area
  <2>1. PICK days : rows' = StoreArchives(rows, {row(n) : n \in days})
    BY <1>1 DEF Parsed
  <2>2. \A n : row(n).key.date = n
    BY DEF Key
  <2> HIDE DEF row
  <2>3. Keyed({row(n) : n \in days})
    BY <2>2 DEF Keyed
  <2>4. QED BY <2>1, <2>3, KeyedArchives
<1>2. CASE ~(f.what = "block" /\ f.kind = area)
  <2>1. rows' \in {rows, StoreArchive(rows, Key(Irp, 0, area, 0), Value("junk", 0))}
    BY <1>2 DEF Parsed
  <2>2. QED BY <2>1, KeyedArchive
<1>3. QED BY <1>1, <1>2

(* The tables have rows and the walks are of more than one record.         *)
Equipped == KmOnLine /\ Clocked /\ DevIrp # <<>> /\ Depth >= 2

HeatTypes ==
  /\ now \in Span[driver] /\ rest \in 0 .. 2 /\ budget \in 0 .. MaxFaults[driver]
  /\ Keyed(rows) /\ (flying = <<>> \/ flying = <<flying[1]>>)
  /\ dead \subseteq DOMAIN errors /\ alarmed \subseteq DOMAIN errors

Short == {"info", "greet", "drain", "current"}

(* Where the drivers are: the channel or the meter, and the requests left. *)
HeatPlaces ==
  /\ driver \in {"km5", "vkt", "irp"} /\ left \in 1 .. Depth
  /\ pc \in Short => left \in 1 .. 2
  /\ driver = "km5" => DOMAIN errors = KmMeters
  /\ driver = "vkt" => at = 1
  /\ driver = "irp" =>
       /\ DOMAIN errors = IrpMeters /\ at \in 1 .. Len(DevIrp)
       /\ pc \in {"pointer", "current"} => left = 1

HeatTyped == HeatTypes /\ HeatPlaces

LEMMA Bounds ==
  ASSUME Equipped
  PROVE  /\ 1 \in 1 .. Depth /\ 2 \in 1 .. Depth /\ Depth \in Nat
         /\ Len(DevIrp) \in Nat \ {0} /\ DOMAIN DevIrp = 1 .. Len(DevIrp)
         /\ driver \in {"km5", "vkt", "irp"} => MaxFaults[driver] \in Nat /\ Span[driver] \subseteq Nat
<1>1. DevIrp \in Seq(Nat) /\ DevIrp # <<>>
  BY IrpAssumption DEF Equipped
<1>2. QED BY <1>1, HeatAssumption DEF Equipped, Clocked

(* A request and its read leave the line and the faults well-formed.       *)
LEMMA HeardTypes ==
  ASSUME Equipped, HeatTyped, NEW answer, NEW got, Heard(answer, got)
  PROVE  /\ budget' \in 0 .. MaxFaults[driver] /\ dead' = dead
         /\ flying' = <<>> \/ flying' = <<flying'[1]>>
<1>1. budget \in 0 .. MaxFaults[driver] /\ MaxFaults[driver] \in Nat
  BY Bounds DEF HeatTyped, HeatTypes, HeatPlaces
<1>2. budget' = budget \/ (budget > 0 /\ budget' = budget - 1)
  BY DEF Heard
<1>3. flying' = <<>> \/ flying' = <<answer>>
  BY DEF Heard
<1>4. QED BY <1>1, <1>2, <1>3 DEF Heard

LEMMA CallTypes ==
  ASSUME Equipped, HeatTyped, NEW call, NEW accident, Call(call, accident)
  PROVE  budget' \in 0 .. MaxFaults[driver] /\ UNCHANGED <<flying, dead>>
<1>1. budget \in 0 .. MaxFaults[driver] /\ MaxFaults[driver] \in Nat
  BY Bounds DEF HeatTyped, HeatTypes, HeatPlaces
<1>2. budget' = budget \/ (budget > 0 /\ budget' = budget - 1)
  BY DEF Call
<1>3. QED BY <1>1, <1>2 DEF Call

LEMMA RoundTypes ==
  ASSUME rest \in 0 .. 2, RoundOver \/ SameRound PROVE rest' \in 0 .. 2
BY DEF RoundOver, SameRound

LEMMA FailedTypes ==
  ASSUME NEW d \in DOMAIN errors, NEW by, NEW alarm, alarmed \subseteq DOMAIN errors,
         Failed(d, by, alarm) \/ Answered(d) \/ (Counted(d, by, alarm) /\ UNCHANGED alarmed)
  PROVE  DOMAIN errors' = DOMAIN errors /\ alarmed' \subseteq DOMAIN errors'
BY DEF Failed, Counted, Answered

LEMMA TypedKm ==
  ASSUME Equipped, HeatTyped, KmInv, KmInv', KmNext PROVE HeatTyped'
<1> USE DEF HeatTyped
<1>1. /\ driver = "km5" /\ driver' = driver /\ now' = now
      /\ now \in Span[driver] /\ rest \in 0 .. 2 /\ left \in 1 .. Depth /\ Keyed(rows)
      /\ DOMAIN errors = KmMeters /\ alarmed \subseteq KmMeters /\ dead \subseteq KmMeters
      /\ at \in 1 .. Len(KmTable) /\ step \in 1 .. 2 * Len(Ch.kinds)
  BY DEF KmNext, KmInfo, KmDrain, KmCurrent, KmLast, KmRecord, HeatTypes, HeatPlaces, KmInv
<1>2. /\ budget' \in 0 .. MaxFaults[driver] /\ dead' = dead
      /\ flying' = <<>> \/ flying' = <<flying'[1]>>
  <2>1. CASE KmDrain
    BY <2>1 DEF KmDrain, HeatTypes
  <2>2. CASE ~KmDrain
    <3>1. \E answer, got : Heard(answer, got)
      BY <2>2 DEF KmNext, KmInfo, KmCurrent, KmLast, KmRecord
    <3>2. QED BY <3>1, HeardTypes
  <2>3. QED BY <2>1, <2>2
<1>3. DOMAIN errors' = KmMeters /\ alarmed' \subseteq KmMeters
  <2>1. CASE KmCurrent
    <3>1. Ch.dev \in DOMAIN errors
      BY <1>1, Channels DEF Equipped, KmMeters, Ch
    <3>2. Failed(Ch.dev, 1, KmAlarm) \/ Answered(Ch.dev)
      BY <2>1 DEF KmCurrent
    <3>3. QED BY <1>1, <3>1, <3>2, FailedTypes
  <2>2. CASE ~KmCurrent
    BY <1>1, <2>2 DEF KmNext, KmInfo, KmDrain, KmLast, KmRecord
  <2>3. QED BY <2>1, <2>2
<1>4. Keyed(rows')
  <2>1. CASE KmCurrent
    <3>1. rows' = rows \/ \E k, v, l : rows' = StoreArchive(StoreCurrent(rows, k, v), l, v)
      BY <2>1 DEF KmCurrent, StoreArchiveOf, StoreCurrentOf
    <3>2. QED BY <1>1, <3>1, KeyedCurrent, KeyedArchive
  <2>2. CASE KmRecord
    <3>1. rows' = rows \/ rows' = KmStored(buffer')
      BY <2>2 DEF KmRecord
    <3>2. QED BY <1>1, <3>1, KeyedRecord
  <2>3. CASE ~KmCurrent /\ ~KmRecord
    BY <1>1, <2>3 DEF KmNext, KmInfo, KmDrain, KmLast
  <2>4. QED BY <2>1, <2>2, <2>3
<1>5. rest' \in 0 .. 2 /\ left' \in 1 .. Depth
      /\ (pc' \in Short => left' \in 1 .. 2)
  <2> USE DEF Short
  <2>1. CASE KmInfo
    BY <1>1, <2>1, Bounds DEF KmInfo, HeatPlaces
  <2>2. CASE KmDrain \/ KmCurrent
    BY <1>1, <2>2 DEF KmDrain, KmCurrent, HeatPlaces
  <2>3. CASE KmLast
    BY <1>1, <2>3, Bounds DEF KmLast
  <2>4. CASE KmRecord
    <3>1. \/ left > 1 /\ left' = left - 1 /\ SameRound /\ UNCHANGED pc
          \/ KmNextPart
      BY <2>4 DEF KmRecord
    <3>2. CASE KmNextPart
      <4>1. \/ left' = left /\ pc' = "last" /\ rest' = rest
            \/ left' = 2 /\ (rest' = rest \/ RoundOver)
        BY <1>1, <3>2, NextPart DEF Equipped
      <4>2. QED BY <1>1, <4>1, Bounds, RoundTypes
    <3>3. CASE left > 1 /\ left' = left - 1 /\ SameRound /\ UNCHANGED pc
      BY <1>1, <2>4, <3>3, Bounds DEF KmRecord, SameRound
    <3>4. QED BY <3>1, <3>2, <3>3
  <2>5. QED BY <2>1, <2>2, <2>3, <2>4 DEF KmNext
<1>6. QED BY <1>1, <1>2, <1>3, <1>4, <1>5 DEF HeatTypes, HeatPlaces

LEMMA TypedVkt ==
  ASSUME Equipped, HeatTyped, VktInv, VktNext PROVE HeatTyped'
<1> USE DEF HeatTyped
<1>1. /\ driver = "vkt" /\ driver' = driver /\ now' = now /\ at' = at
      /\ errors' = errors /\ alarmed' = alarmed
      /\ now \in Span[driver] /\ rest \in 0 .. 2 /\ left \in 1 .. Depth /\ Keyed(rows)
      /\ (flying = <<>> \/ flying = <<flying[1]>>) /\ at = 1 /\ (pc \in Short => left \in 1 .. 2)
      /\ dead \subseteq DOMAIN errors /\ alarmed \subseteq DOMAIN errors
  BY DEF VktNext, VktGreet, VktList, VktType, VktDate, VktData, HeatTypes, HeatPlaces
<1>2. budget' \in 0 .. MaxFaults[driver] /\ UNCHANGED <<flying, dead>>
  <2>1. \E call, accident : Call(call, accident)
    BY DEF VktNext, VktGreet, VktList, VktType, VktDate, VktData
  <2>2. QED BY <2>1, CallTypes
<1>3. Keyed(rows')
  <2>1. CASE VktData
    <3>1. \/ \E k, v : rows' = StoreCurrent(rows, k, v)
          \/ \E k, v, l, x : rows' = StoreCurrent(StoreArchive(rows, k, v), l, x)
      BY <2>1 DEF VktData, VktStored, VktCurrentRow, VktArchiveRow
    <3>2. QED BY <1>1, <3>1, KeyedCurrent, KeyedArchive
  <2>2. CASE ~VktData
    BY <1>1, <2>2 DEF VktNext, VktGreet, VktList, VktType, VktDate
  <2>3. QED BY <2>1, <2>2
<1>4. VktNextDate => rest' \in 0 .. 2 /\ left' \in 1 .. Depth /\ pc' \in {"date", "list"}
  <2>1. left > 1 => left - 1 \in 1 .. Depth
    BY <1>1, Bounds
  <2>2. QED BY <1>1, <2>1, RoundTypes DEF VktNextDate
<1>5. rest' \in 0 .. 2 /\ left' \in 1 .. Depth /\ (pc' \in Short => left' \in 1 .. 2)
  <2> USE DEF Short
  <2>1. CASE VktGreet
    BY <1>1, <2>1, Bounds DEF VktGreet
  <2>2. CASE VktList
    BY <1>1, <2>2 DEF VktList
  <2>3. CASE VktType
    <3>1. left' \in {1, Depth} /\ rest' = rest /\ pc' \in {"data", "date"}
      BY <2>3 DEF VktType
    <3>2. QED BY <1>1, <3>1, Bounds
  <2>4. CASE VktDate
    BY <1>1, <1>4, <2>4 DEF VktDate, SameRound
  <2>5. CASE VktData
    BY <1>4, <2>5 DEF VktData
  <2>6. QED BY <2>1, <2>2, <2>3, <2>4, <2>5 DEF VktNext
<1>6. QED BY <1>1, <1>2, <1>3, <1>5 DEF HeatTypes, HeatPlaces

LEMMA TypedIrp ==
  ASSUME Equipped, HeatTyped, IrpNext PROVE HeatTyped'
<1> USE DEF HeatTyped
<1>1. /\ driver = "irp" /\ driver' = driver /\ now' = now /\ dead' = dead
      /\ now \in Span[driver] /\ rest \in 0 .. 2 /\ left \in 1 .. Depth /\ Keyed(rows)
      /\ DOMAIN errors = IrpMeters /\ at \in 1 .. Len(DevIrp)
      /\ pc \in {"pointer", "current"} => left = 1
      /\ dead \subseteq IrpMeters /\ alarmed \subseteq IrpMeters
  BY DEF IrpNext, IrpPointer, IrpBlock, IrpCurrent, HeatTypes, HeatPlaces, Heard
<1>2. /\ budget' \in 0 .. MaxFaults[driver]
      /\ flying' = <<>> \/ flying' = <<flying'[1]>>
  <2>1. \E answer, got : Heard(answer, got)
    BY DEF IrpNext, IrpPointer, IrpBlock, IrpCurrent
  <2>2. QED BY <2>1, HeardTypes
<1>3. DOMAIN errors' = IrpMeters /\ alarmed' \subseteq IrpMeters
  <2>1. Irp \in DOMAIN errors
    BY <1>1, Bounds DEF Irp, IrpMeters
  <2>2. \/ UNCHANGED <<errors, alarmed>>
        \/ IrpUnanswered(Irp) \/ Answered(Irp) \/ (IrpNoValues(Irp) /\ UNCHANGED alarmed)
    BY DEF IrpNext, IrpPointer, IrpBlock, IrpCurrent
  <2>3. QED BY <1>1, <2>1, <2>2, FailedTypes DEF IrpUnanswered, IrpNoValues
<1>4. Keyed(rows')
  <2>1. CASE IrpPointer
    BY <1>1, <2>1 DEF IrpPointer
  <2>2. CASE IrpBlock
    <3>1. pc \in {"day", "tech"} /\ (rows' = rows \/ \E f : rows' \in Parsed(f, pc))
      BY <2>2 DEF IrpBlock
    <3>2. QED BY <1>1, <3>1, KeyedBlock
  <2>3. CASE IrpCurrent
    <3>1. rows' = rows \/ \E k, v : rows' = StoreCurrent(rows, k, v)
      BY <2>3 DEF IrpCurrent
    <3>2. QED BY <1>1, <3>1, KeyedCurrent
  <2>4. QED BY <2>1, <2>2, <2>3 DEF IrpNext
<1> DEFINE Fit == /\ pc' \in {"pointer", "current", "day", "tech"}
                  /\ rest' \in 0 .. 2 /\ at' \in 1 .. Len(DevIrp) /\ left' \in 1 .. Depth
                  /\ pc' \in {"pointer", "current"} => left' = 1
<1>5. ArchivesDone => Fit
  <2>1. at < Len(DevIrp) => at + 1 \in 1 .. Len(DevIrp)
    BY <1>1, Bounds
  <2>2. 1 \in 1 .. Len(DevIrp)
    BY Bounds
  <2>3. QED BY <1>1, <2>1, <2>2, Bounds DEF ArchivesDone, SameRound
<1>6. ASSUME NEW kind \in {"day", "tech"}, NEW df \in Nat \ {0}, GoOn(kind, df) PROVE Fit
  <2>1. CASE ArchivesDone
    BY <1>5, <2>1
  <2>2. CASE ~ArchivesDone
    <3>1. /\ pc' \in {"day", "tech"} /\ at' = at /\ rest' = rest
          /\ left' = 1 \/ (left' = df /\ df <= Depth)
      BY <1>6, <2>2 DEF GoOn, SameRound
    <3>2. left' \in 1 .. Depth
      BY <3>1, Bounds
    <3>3. QED BY <1>1, <3>1, <3>2
  <2>3. QED BY <2>1, <2>2
<1>7. Fit
  <2>1. CASE IrpPointer
    <3>1. GoOn("day", 1) \/ ArchivesDone
      BY <2>1 DEF IrpPointer
    <3>2. QED BY <1>5, <1>6, <3>1
  <2>2. CASE IrpBlock
    <3>1. pc \in {"day", "tech"} /\ GoOn(pc, left + 1) /\ left + 1 \in Nat \ {0}
      BY <1>1, <2>2 DEF IrpBlock
    <3>2. QED BY <1>6, <3>1
  <2>3. CASE IrpCurrent
    <3>1. CurrentDone /\ left' = left /\ pc = "current"
      BY <2>3 DEF IrpCurrent
    <3>2. at < Len(DevIrp) => at + 1 \in 1 .. Len(DevIrp)
      BY <1>1, Bounds
    <3>3. 1 \in 1 .. Len(DevIrp)
      BY Bounds
    <3>4. left' = 1 /\ left' \in 1 .. Depth
      BY <1>1, <3>1
    <3>5. pc' \in {"pointer", "current"} /\ rest' \in 0 .. 2 /\ at' \in 1 .. Len(DevIrp)
      BY <1>1, <3>1, <3>2, <3>3, RoundTypes DEF CurrentDone
    <3>6. QED BY <3>4, <3>5
  <2>4. QED BY <2>1, <2>2, <2>3 DEF IrpNext
<1>8. pc' \in Short => left' \in 1 .. 2
  BY <1>7 DEF Short
<1>9. QED BY <1>1, <1>2, <1>3, <1>4, <1>7, <1>8 DEF HeatTypes, HeatPlaces

LEMMA InitTyped == ASSUME Equipped, Init PROVE HeatTyped
<1>1. /\ driver \in {"km5", "vkt", "irp"} /\ now \in Span[driver] /\ rest = 1 /\ at = 1
      /\ flying = <<>> /\ rows = {} /\ alarmed = {} /\ budget \in 0 .. MaxFaults[driver]
      /\ left \in {1, 2} /\ dead \subseteq DOMAIN errors
      /\ driver = "km5" => DOMAIN errors = KmMeters
      /\ driver = "irp" => DOMAIN errors = IrpMeters /\ left = 1
  BY DEF Init, KmInit, IrpInit, VktInit, HeatInit, IrpOpened
<1>2. Keyed({})
  BY DEF Keyed
<1>3. HeatTypes
  BY <1>1, <1>2 DEF HeatTypes
<1>4. HeatPlaces
  <2>1. left \in 1 .. 2 /\ left \in 1 .. Depth /\ 1 \in 1 .. Len(DevIrp)
    BY <1>1, Bounds
  <2>2. QED BY <1>1, <2>1 DEF HeatPlaces
<1>5. QED BY <1>3, <1>4 DEF HeatTyped

LEMMA StepTyped ==
  ASSUME Equipped, HeatTyped, KmInv, KmInv', VktInv, [Next]_vars PROVE HeatTyped'
<1>1. CASE UNCHANGED vars
  BY <1>1 DEF vars, heatVars, lineVars, HeatTyped, HeatTypes, HeatPlaces
<1>2. CASE World
  <2>1. CASE Tick
    BY <2>1 DEF Tick, lineVars, HeatTyped, HeatTypes, HeatPlaces
  <2>2. CASE Die
    BY <2>2 DEF Die, HeatTyped, HeatTypes, HeatPlaces
  <2>3. QED BY <1>2, <2>1, <2>2 DEF World
<1>3. CASE KmNext
  BY <1>3, TypedKm
<1>4. CASE VktNext
  BY <1>4, TypedVkt
<1>5. CASE IrpNext
  BY <1>5, TypedIrp
<1>6. QED BY <1>1, <1>2, <1>3, <1>4, <1>5 DEF Next, Driver, Stopped

(* Whatever is lost, late, garbled or refused, a driver's table has one    *)
(* row for each key, one late answer at most is under way, and the walks   *)
(* stay within their depth and within the table of channels or meters.     *)
THEOREM HeatTypeOK == Equipped => (Spec => []TypeOK)
<1> SUFFICES ASSUME Equipped PROVE Spec => []TypeOK
  OBVIOUS
<1>1. Init => HeatTyped /\ KmInv /\ VktInv
  BY InitTyped, InitKm, InitVkt DEF Equipped
<1>2. HeatTyped /\ KmInv /\ VktInv /\ [Next]_vars => HeatTyped' /\ KmInv' /\ VktInv'
  BY StepTyped, StepKm, StepVkt DEF Equipped
<1>3. HeatTyped /\ KmInv => TypeOK
  <2> SUFFICES ASSUME HeatTyped, KmInv PROVE TypeOK
    OBVIOUS
  <2>1. /\ driver \in {"km5", "vkt", "irp"} /\ now \in Span[driver] /\ rest \in 0 .. 2
        /\ \A w, x \in rows : w.key = x.key => w = x
        /\ budget \in 0 .. MaxFaults[driver]
        /\ dead \subseteq DOMAIN errors /\ alarmed \subseteq DOMAIN errors
    BY DEF HeatTyped, HeatTypes, HeatPlaces, Keyed
  <2>2. at \in 1 .. CASE driver = "km5" -> Len(KmTable)
                      [] driver = "irp" -> Len(DevIrp)
                      [] driver = "vkt" -> 1
    BY DEF HeatTyped, HeatPlaces, KmInv
  <2>3. left >= 1 /\ left <= (IF pc \in {"info", "greet", "drain", "current"} THEN 2 ELSE Depth)
    <3>1. left \in 1 .. Depth /\ (pc \in Short => left \in 1 .. 2)
      BY DEF HeatTyped, HeatPlaces
    <3>2. QED BY <3>1, Bounds DEF Short
  <2>4. Len(flying) <= 1
    <3>1. flying = <<>> \/ flying = <<flying[1]>>
      BY DEF HeatTyped, HeatTypes
    <3>2. Len(<<>>) = 0 /\ Len(<<flying[1]>>) = 1
      OBVIOUS
    <3>3. QED BY <3>1, <3>2
  <2>5. QED BY <2>1, <2>2, <2>3, <2>4 DEF TypeOK
<1>4. QED BY <1>1, <1>2, <1>3, PTL DEF Spec

-----------------------------------------------------------------------------
(* Device numbers are keys of the table of devices.                        *)
Distinct ==
  /\ MerTable # <<>>
  /\ \A r, s \in DOMAIN MerTable : MerTable[r].dev = MerTable[s].dev => r = s

-----------------------------------------------------------------------------
(* The meters that are still to be asked in a pass have no failures.       *)
LinkInv ==
  driver = "mercury" =>
    /\ at \in 1 .. Len(MerTable)
    /\ errors \in [MerMeters -> Nat]
    /\ conn \in [MerMeters -> {"none", "up", "bus", "down"}]
    /\ \A r \in 1 .. Len(MerTable) :
         r > at \/ (r = at /\ pc # "turn") => errors[MerTable[r].dev] = 0

LinkStep == \A d \in MerMeters : conn[d] = "up" => conn'[d] = "up"

LEMMA TableLength == Len(MerTable) \in Nat /\ DOMAIN MerTable = 1 .. Len(MerTable)
BY MerAssumption

LEMMA Member == \A r \in 1 .. Len(MerTable) : MerTable[r].dev \in MerMeters
BY TableLength DEF MerMeters

LEMMA InitLink == Distinct /\ PowerInit => LinkInv
<1> SUFFICES ASSUME Distinct, PowerInit, driver = "mercury" PROVE LinkInv
  BY DEF LinkInv
<1>1. MerInit
  BY DEF PowerInit, CeInit, Ce102Init, HeatInit
<1>2. Len(MerTable) >= 1
  BY MerAssumption DEF Distinct
<1>3. errors = [d \in MerMeters |-> 0] /\ conn = [d \in MerMeters |-> "none"] /\ at = 1
  BY <1>1 DEF MerInit, HeatInit, MerLoaded
<1>4. QED BY <1>2, <1>3, TableLength, Member DEF LinkInv

LEMMA StepLink == ASSUME Distinct, LinkInv, [PowerNext]_powerVars PROVE LinkInv' /\ LinkStep
<1> USE TableLength, Member
<1>1. CASE UNCHANGED powerVars
  BY <1>1 DEF LinkInv, LinkStep, powerVars, heatVars, merVars
<1>2. CASE PowerWorld
  BY <1>2 DEF PowerWorld, Tick, Die, LinkInv, LinkStep, merVars
<1>3. CASE CeNext /\ UNCHANGED merVars
  BY <1>3 DEF CeNext, CeInfo, CeCurrent, LinkInv, LinkStep, merVars
<1>4. CASE Ce102Next /\ UNCHANGED merVars
  BY <1>4 DEF Ce102Next, Ce102Current, Ce102Total, Ce102Hour, Ce102Stop, LinkInv, LinkStep, merVars
<1>5. CASE MerNext
  <2> driver = "mercury" /\ driver' = driver
    BY <1>5 DEF MerNext, MerPort, MerTurn, MerOpen, MerInfo, MerPointer, MerBlock, SetBlock,
                MerDay, MerMonth, MerCurrent, MerFrame
  <2>1. CASE MerPort
    BY <2>1 DEF MerPort, MerFrame, LinkInv, LinkStep
  <2>2. CASE MerTurn
    <3>1. UNCHANGED conn /\ pc' # "turn"
      BY <2>2 DEF MerTurn
    <3>2. CASE at < Len(MerTable)
      <4>1. at' = at + 1 /\ UNCHANGED errors
        BY <2>2, <3>2 DEF MerTurn, SameRound
      <4>2. QED BY <3>1, <3>2, <4>1 DEF LinkInv, LinkStep
    <3>3. CASE ~(at < Len(MerTable))
      <4>1. at' = 1 /\ errors' = [d \in MerMeters |-> 0]
        BY <2>2, <3>3 DEF MerTurn, MerReload, MerLoaded
      <4>2. QED BY <3>1, <4>1 DEF LinkInv, LinkStep
    <3>4. QED BY <3>2, <3>3
  <2>3. CASE MerOpen
    <3>1. UNCHANGED at
      BY <2>3 DEF MerOpen, MerFrame
    <3>2. errors[Mer.dev] = 0 /\ Mer.dev \in MerMeters
      BY <2>3 DEF MerOpen, LinkInv, Mer
    <3>3. ~(errors[Mer.dev] + 1 > MerLimit)
      BY <3>2, MerAssumption
    <3>4. /\ UNCHANGED conn
          /\ \/ UNCHANGED errors
             \/ pc' = "turn" /\ errors' = [errors EXCEPT ![Mer.dev] = @ + 1]
      BY <2>3, <3>3 DEF MerOpen
    <3>5. pc # "turn"
      BY <2>3 DEF MerOpen
    <3>6. CASE UNCHANGED errors
      BY <3>1, <3>4, <3>5, <3>6 DEF LinkInv, LinkStep
    <3>7. CASE pc' = "turn" /\ errors' = [errors EXCEPT ![Mer.dev] = @ + 1]
      <4>1. errors' \in [MerMeters -> Nat]
        <5>1. errors[Mer.dev] + 1 \in Nat
          BY <3>2
        <5>2. QED BY <3>7, <5>1 DEF LinkInv
      <4>2. ASSUME NEW r \in 1 .. Len(MerTable), r > at
            PROVE  errors'[MerTable[r].dev] = 0
        <5>1. MerTable[r].dev # Mer.dev
          BY <4>2 DEF Distinct, Mer, LinkInv
        <5>2. QED BY <3>7, <4>2, <5>1 DEF LinkInv
      <4>3. QED BY <3>1, <3>4, <3>7, <4>1, <4>2 DEF LinkInv, LinkStep
    <3>8. QED BY <3>4, <3>6, <3>7
  <2>4. CASE MerInfo
    <3>1. /\ UNCHANGED at /\ pc # "turn"
          /\ errors' \in {errors, [errors EXCEPT ![Mer.dev] = 0]}
          /\ conn' \in {conn, [conn EXCEPT ![Mer.dev] = "up"]}
      BY <2>4 DEF MerInfo, MerFrame
    <3>2. QED BY <3>1 DEF LinkInv, LinkStep, Mer
  <2>5. CASE MerPointer \/ MerBlock \/ SetBlock \/ MerDay \/ MerMonth \/ MerCurrent
    <3>1. UNCHANGED <<at, errors, conn>> /\ pc # "turn"
      BY <2>5 DEF MerPointer, MerBlock, SetBlock, MerDay, MerMonth, MerCurrent, MerFrame, Unlinked
    <3>2. QED BY <3>1 DEF LinkInv, LinkStep
  <2>6. QED BY <1>5, <2>1, <2>2, <2>3, <2>4, <2>5 DEF MerNext
<1>6. QED BY <1>1, <1>2, <1>3, <1>4, <1>5 DEF PowerNext, PowerDriver, PowerStopped

(* A meter whose link has come up is never shown without it, in however    *)
(* many passes it is silent, and whatever the limit of failures is: no     *)
(* pass counts more than one.                                              *)
THEOREM LinkStays == Distinct => (PowerSpec => SilenceKeepsLink)
<1> SUFFICES ASSUME Distinct PROVE PowerSpec => SilenceKeepsLink
  OBVIOUS
<1>1. PowerInit => LinkInv
  BY InitLink
<1>2. LinkInv /\ [PowerNext]_powerVars => LinkInv' /\ LinkStep
  BY StepLink
<1>3. LinkInv /\ [PowerNext]_powerVars => [LinkStep]_powerVars
  BY <1>2
<1>4. QED BY <1>1, <1>2, <1>3, PTL DEF PowerSpec, SilenceKeepsLink, LinkStep

-----------------------------------------------------------------------------
(* Of one meter at a time something is under way, but for the first step   *)
(* of a pass; and it is a text.                                            *)
CeUnderWay ==
  flying = <<>> \/ \E f : flying = <<f>> /\ f.what = "text" /\ f.dev = CeTable[at]

CeRowsAreOwn ==
  \A w \in rows : w.value.dev = w.key.dev /\ CeRowOf(w.value.kind) = w.key.kind

CeInv ==
  driver = "ce303" =>
    /\ pc = "current" => step = 1
    /\ pc = "current" \/ step # 1 => CeUnderWay
    /\ "garbled" \notin hurt => CeRowsAreOwn

LEMMA CeInfoStep == ASSUME CeInv, CeInfo PROVE CeInv'
<1>1. PICK got \in Gets(CeAnswer) : Heard(CeAnswer, got)
  BY DEF CeInfo
<1>2. CeAnswer.what = "text" /\ CeAnswer.dev = CeTable[at]
  BY DEF CeInfo, CeAnswer, Frame
<1>3. flying' \in {<<>>, <<CeAnswer>>} /\ hurt \subseteq hurt'
  BY <1>1, <1>2, Arrives
<1>4. UNCHANGED <<driver, at, rows>> /\ pc' \in {"info", "current"} /\ (pc' = "current" => step' = 1)
  BY DEF CeInfo
<1>5. CeUnderWay'
  BY <1>2, <1>3, <1>4 DEF CeUnderWay
<1>6. QED BY <1>3, <1>4, <1>5 DEF CeInv, CeRowsAreOwn, CeInfo

LEMMA CeCurrentStep == ASSUME CeInv, CeCurrent PROVE CeInv'
<1>1. PICK got, taken :
        /\ Heard(CeAnswer, got)
        /\ taken \in {{}} \cup (IF got = <<>> THEN {} ELSE {CeMatch(got)})
        /\ buffer' = IF taken = {} THEN buffer ELSE CHOOSE f \in taken : TRUE
        /\ rows' = IF taken = {} THEN rows
                   ELSE StoreCurrentOf(rows, Key(CeTable[at], 0, CeRowOf(CeParams[left]), 0),
                                     [Value(buffer'.kind, buffer'.n) EXCEPT !.dev = buffer'.dev])
  BY DEF CeCurrent
<1>2. CeAnswer.what = "text" /\ CeAnswer.dev = CeTable[at]
  BY DEF CeCurrent, CeAnswer, Frame
<1>3. /\ flying' \in {<<>>, <<CeAnswer>>} /\ hurt \subseteq hurt'
      /\ "garbled" \notin hurt' => got \in {flying \o <<>>, flying \o <<CeAnswer>>}
  BY <1>1, <1>2, Arrives
<1>4. driver = "ce303" /\ driver' = driver /\ pc = "current" /\ step' = step /\ step = 1
  BY DEF CeCurrent, CeInv
<1>5. pc' = "current" => CeUnderWay'
  <2>1. pc' = "current" => at' = at
    BY DEF CeCurrent
  <2>2. QED BY <1>2, <1>3, <2>1 DEF CeUnderWay
<1>6. "garbled" \notin hurt' => CeRowsAreOwn'
  <2> SUFFICES ASSUME "garbled" \notin hurt', taken # {} PROVE CeRowsAreOwn'
    BY <1>1, <1>3, <1>4 DEF CeInv, CeRowsAreOwn
  <2>1. got # <<>> /\ taken = CeMatch(got)
    BY <1>1
  <2>2. got[1].what = "text" /\ got[1].dev = CeTable[at]
    <3>1. CeUnderWay
      BY <1>4 DEF CeInv
    <3>2. CASE flying = <<>>
      <4>1. got = <<CeAnswer>>
        BY <1>3, <2>1, <3>2, InFront
      <4>2. QED BY <1>2, <4>1
    <3>3. CASE \E f : flying = <<f>> /\ f.what = "text" /\ f.dev = CeTable[at]
      <4>1. PICK f : flying = <<f>> /\ f.what = "text" /\ f.dev = CeTable[at]
        BY <3>3
      <4>2. got \in {<<f>>, <<f>> \o <<CeAnswer>>}
        BY <1>3, <4>1, InFront
      <4>3. got[1] = f
        BY <4>2, InFront
      <4>4. QED BY <4>1, <4>3
    <3>4. QED BY <3>1, <3>2, <3>3 DEF CeUnderWay
  <2>3. got[1].kind = CeParams[left] /\ taken = {got[1]}
    BY <2>1, <2>2 DEF CeMatch
  <2>4. buffer' = got[1]
    BY <1>1, <2>3
  <2> DEFINE key == Key(CeTable[at], 0, CeRowOf(CeParams[left]), 0)
             value == [Value(buffer'.kind, buffer'.n) EXCEPT !.dev = buffer'.dev]
  <2>5. rows' = (rows \ RowOf(rows, key)) \cup {[key |-> key, value |-> value]}
    BY <1>1 DEF StoreCurrentOf, StoreCurrent
  <2>6. value.dev = key.dev /\ CeRowOf(value.kind) = key.kind
    BY <2>2, <2>3, <2>4 DEF Key, Value
  <2> HIDE DEF key, value
  <2>7. CeRowsAreOwn
    BY <1>3, <1>4 DEF CeInv
  <2>8. QED BY <2>5, <2>6, <2>7 DEF CeRowsAreOwn
<1>7. QED BY <1>4, <1>5, <1>6 DEF CeInv

LEMMA StepCe == ASSUME CeInv, [PowerNext]_powerVars PROVE CeInv'
<1>1. CASE UNCHANGED powerVars
  BY <1>1 DEF CeInv, CeUnderWay, CeRowsAreOwn, powerVars, heatVars, lineVars
<1>2. CASE PowerWorld
  BY <1>2 DEF PowerWorld, Tick, Die, lineVars, CeInv, CeUnderWay, CeRowsAreOwn
<1>3. CASE CeNext
  BY <1>3, CeInfoStep, CeCurrentStep DEF CeNext
<1>4. CASE Ce102Next \/ MerNext
  <2>1. driver \in {"mercury", "ce102"} /\ driver' = driver
    BY <1>4 DEF Ce102Next, Ce102Current, Ce102Total, Ce102Hour, Ce102Stop,
                MerNext, MerPort, MerTurn, MerOpen, MerInfo, MerPointer, MerBlock, SetBlock,
                MerDay, MerMonth, MerCurrent, MerFrame
  <2>2. QED BY <2>1 DEF CeInv
<1>5. QED BY <1>1, <1>2, <1>3, <1>4 DEF PowerNext, PowerDriver, PowerStopped

(* For any meters and parameters, and however many answers are lost or     *)
(* late, a CE303's value is that parameter's and that meter's: of several  *)
(* answers the first is the meter's own, and it must have the name.        *)
THEOREM CeNames == PowerSpec => []CeNamesProtect
<1>1. PowerInit => CeInv
  BY DEF PowerInit, CeInit, Ce102Init, MerInit, HeatInit, CeInv, CeUnderWay, CeRowsAreOwn
<1>2. CeInv /\ [PowerNext]_powerVars => CeInv'
  BY StepCe
<1>3. CeInv => CeNamesProtect
  BY DEF CeInv, CeRowsAreOwn, CeNamesProtect
<1>4. QED BY <1>1, <1>2, <1>3, PTL DEF PowerSpec

-----------------------------------------------------------------------------
(* At most one fault; a ring that has got more than a walk's records; and  *)
(* current values whose names are not those of archives.                   *)
MerEquipped ==
  /\ Distinct /\ MerParams # <<>> /\ {"mercury", "ce102"} \subseteq DOMAIN Span
  /\ MaxFaults["mercury"] \in {0, 1} /\ MaxFaults["ce102"] \in {0, 1}
  /\ \A t \in Span["mercury"] : t >= 2 * Depth + 1
  /\ \A p \in DOMAIN MerParams :
       MerParams[p] \notin {"hour", "day", "daytotal", "month", "monthtotal"}

(* What has come late has used up the one fault: then all meters are alive *)
(* and the port is open, so that every read gets an answer as well.        *)
OneFault ==
  /\ budget \in {0, 1} /\ (dead # {} => budget = 0)
  /\ \/ flying = <<>>
     \/ flying = <<flying[1]>> /\ budget = 0 /\ dead = {} /\ hurt # {} /\ ~deaf

(* Reads of answers that were late are no records of a concentrator: their *)
(* sum is over two.                                                        *)
LEMMA Alone ==
  ASSUME NEW f, NEW g
  PROVE  /\ Len(<<f>>) = 1 /\ <<f>>[1] = f /\ Len(<<f>> \o <<g>>) # 1
         /\ Append(<<>>, g) = <<g>> /\ Append(<<f>>, g) = <<f>> \o <<g>>
OBVIOUS

LEMMA HeardOnce ==
  ASSUME NEW answer, NEW got, OneFault, Heard(answer, got), deaf => answer.what = "silence"
  PROVE  /\ budget' \in {0, 1} /\ (dead # {} => budget' = 0) /\ dead' = dead /\ hurt \subseteq hurt'
         /\ \/ flying' = <<>>
            \/ flying' = <<flying'[1]>> /\ budget' = 0 /\ dead = {} /\ hurt' # {} /\ ~deaf
         /\ flying = <<>> => got \in {<<>>, <<Junk>>} \/ (got = <<answer>> /\ answer.what # "silence")
         /\ flying # <<>> /\ answer.what # "silence" => got = <<flying[1]>> \o <<answer>>
<1> DEFINE Answers == ~(answer.what = "silence" \/ answer.dev \in dead)
           Fate(kind, read, coming) ==
             /\ budget > 0 /\ budget' = budget - 1 /\ hurt' = hurt \cup {kind}
             /\ got = flying \o read /\ flying' = coming
<1>1. /\ dead' = dead
      /\ \/ /\ got = flying \o (IF Answers THEN <<answer>> ELSE <<>>)
            /\ flying' = <<>> /\ UNCHANGED <<budget, hurt>>
         \/ Answers /\ \/ Fate("lost", <<>>, <<>>)
                       \/ Fate("late", <<>>, <<answer>>)
                       \/ Fate("garbled", <<Junk>>, <<>>)
  BY DEF Heard
<1>2. /\ <<>> \o <<>> = <<>> /\ <<>> \o <<answer>> = <<answer>> /\ <<>> \o <<Junk>> = <<Junk>>
  BY InFront
<1>3. CASE /\ got = flying \o (IF Answers THEN <<answer>> ELSE <<>>)
           /\ flying' = <<>> /\ UNCHANGED <<budget, hurt>>
  <2>1. CASE flying = <<>>
    BY <1>1, <1>2, <1>3, <2>1 DEF OneFault
  <2>2. CASE flying # <<>>
    BY <1>1, <1>3, <2>2 DEF OneFault
  <2>3. QED BY <2>1, <2>2
<1>4. ASSUME NEW kind, NEW read \in {<<>>, <<Junk>>}, NEW coming \in {<<>>, <<answer>>},
             Answers, Fate(kind, read, coming)
      PROVE  /\ budget' = 0 /\ hurt' = hurt \cup {kind} /\ got = read
             /\ flying = <<>> /\ flying' = coming /\ dead = {} /\ ~deaf
  <2>1. budget = 1 /\ budget' = 0 /\ flying = <<>> /\ dead = {}
    BY <1>4 DEF OneFault
  <2>2. got = read
    BY <1>2, <1>4, <2>1
  <2>3. QED BY <1>4, <2>1, <2>2
<1>5. CASE Answers /\ \/ Fate("lost", <<>>, <<>>)
                      \/ Fate("late", <<>>, <<answer>>)
                      \/ Fate("garbled", <<Junk>>, <<>>)
  <2>1. \E kind : \E read \in {<<>>, <<Junk>>}, coming \in {<<>>, <<answer>>} :
          Answers /\ Fate(kind, read, coming)
    <3>1. CASE Answers /\ Fate("lost", <<>>, <<>>)
      <4> HIDE DEF Answers, Fate
      <4>1. QED BY <3>1
    <3>2. CASE Answers /\ Fate("late", <<>>, <<answer>>)
      <4> HIDE DEF Answers, Fate
      <4>1. QED BY <3>2
    <3>3. CASE Answers /\ Fate("garbled", <<Junk>>, <<>>)
      <4> HIDE DEF Answers, Fate
      <4>1. QED BY <3>3
    <3>4. QED BY <1>5, <3>1, <3>2, <3>3
  <2>2. PICK kind : \E read \in {<<>>, <<Junk>>}, coming \in {<<>>, <<answer>>} :
          /\ budget' = 0 /\ hurt' = hurt \cup {kind} /\ got = read
          /\ flying = <<>> /\ flying' = coming /\ dead = {} /\ ~deaf
    <3> HIDE DEF Answers, Fate
    <3>1. QED BY <1>4, <2>1
  <2>3. hurt \subseteq hurt' /\ hurt' # {} /\ (flying' = <<>> \/ flying' = <<flying'[1]>>)
    BY <2>2
  <2>4. QED BY <1>1, <2>2, <2>3
<1>6. QED BY <1>1, <1>3, <1>5

(* The hour may end between a request and its answer, not two of them.     *)
LEMMA HalfHours ==
  ASSUME NEW t \in Nat, NEW u \in {t, t + 1}
  PROVE  t \div 2 \in Nat /\ (u \div 2 = t \div 2 \/ u \div 2 = (t \div 2) + 1)
OBVIOUS

Ce102Place ==
  \/ pc = "current" /\ left \in 1 .. 4
  \/ pc = "total" /\ left \in 1 .. 3
  \/ pc = "hour" /\ left \in 1 .. Depth
  \/ pc = "stop" /\ left = 1

Ce102Inv ==
  driver = "ce102" =>
    /\ OneFault /\ ~deaf /\ now \in Span["ce102"] /\ Ce102Place /\ CeHoursAreOwn

LEMMA Ce102Step ==
  ASSUME MerEquipped, Ce102Inv, Ce102Next, UNCHANGED merVars PROVE Ce102Inv'
<1>1. driver = "ce102" /\ driver' = driver /\ OneFault /\ ~deaf /\ ~deaf' /\ Ce102Place
  BY DEF Ce102Inv, Ce102Next, Ce102Current, Ce102Total, Ce102Hour, Ce102Stop, merVars
<1>0. Depth \in Nat \ {0} /\ Len(CurrentSteps) = 4 /\ Len(TotalSteps) = 3 /\ left \in Nat
  BY <1>1, HeatAssumption DEF Ce102Place, CurrentSteps, TotalSteps
<1>2. now' \in {now, now + 1} /\ now' \in Span["ce102"] /\ Ce102Place'
  <2>1. now' \in {now, now + 1} /\ now' \in Span["ce102"]
    BY <1>1 DEF Ce102Inv, Ce102Next, Ce102Current, Ce102Total, Ce102Hour, Ce102Stop
  <2>2. CASE Ce102Current
    BY <2>1, <1>0, <1>1, <2>2 DEF Ce102Current, Ce102Place
  <2>3. CASE Ce102Total
    BY <2>1, <1>0, <1>1, <2>3 DEF Ce102Total, Ce102Place
  <2>4. CASE Ce102Hour
    BY <2>1, <1>0, <1>1, <2>4 DEF Ce102Hour, Ce102Place
  <2>5. CASE Ce102Stop
    BY <2>1, <1>1, <2>5 DEF Ce102Stop, Ce102Place
  <2>6. QED BY <2>1, <2>2, <2>3, <2>4, <2>5 DEF Ce102Next
<1>3. CASE Ce102Stop
  <2>1. OneFault'
    BY <1>1, <1>3 DEF Ce102Stop, OneFault
  <2>2. CeHoursAreOwn'
    BY <1>1, <1>3 DEF Ce102Stop, Ce102Inv, CeHoursAreOwn
  <2>3. QED BY <1>1, <1>2, <2>1, <2>2 DEF Ce102Inv
<1>4. CASE Ce102Current \/ Ce102Total \/ Ce102Hour
  <2>1. Ce102Answer.what \in {"value", "none"} /\ pc \in {"current", "total", "hour"}
    BY <1>4 DEF Ce102Answer, Frame, Ce102Current, Ce102Total, Ce102Hour
  <2>2. PICK got :
          /\ Heard(Ce102Answer, got)
          /\ \/ \A w \in rows' : w \in rows \/ w.key.kind # "hour"
             \/ /\ pc = "hour" /\ Ce102Taken(got) # {} /\ got[1].what # "none"
                /\ rows' = StoreArchive(rows, Key(DevCe[at], 0, "hour", StoredHour), Ce102Value(got[1]))
    <3>1. CASE Ce102Current
      <4>1. PICK got : /\ Heard(Ce102Answer, got)
                       /\ rows' = IF Ce102Taken(got) = {} THEN rows
                                  ELSE StoreCurrent(rows, Key(DevCe[at], 0, CurrentSteps[left], 0),
                                                    Ce102Value(got[1]))
        BY <3>1 DEF Ce102Current
      <4>2. left \in 1 .. 4 /\ CurrentSteps[left] # "hour"
        BY <1>1, <3>1 DEF Ce102Current, Ce102Place, CurrentSteps
      <4>3. QED BY <4>1, <4>2 DEF StoreCurrent, RowOf, Key
    <3>2. CASE Ce102Total
      <4>1. PICK got : /\ Heard(Ce102Answer, got)
                       /\ rows' = IF Ce102Taken(got) = {} THEN rows
                                  ELSE StoreArchive(rows, Key(DevCe[at], 1, TotalSteps[left], now \div 2),
                                                    Ce102Value(got[1]))
        BY <3>2 DEF Ce102Total
      <4>2. left \in 1 .. 3 /\ TotalSteps[left] # "hour"
        BY <1>1, <3>2 DEF Ce102Total, Ce102Place, TotalSteps
      <4>3. QED BY <4>1, <4>2 DEF StoreArchive, Key
    <3>3. CASE Ce102Hour
      BY <3>3 DEF Ce102Hour
    <3>4. QED BY <1>4, <3>1, <3>2, <3>3
  <2>3. /\ OneFault' /\ hurt \subseteq hurt'
        /\ flying = <<>> => got \in {<<>>, <<Junk>>, <<Ce102Answer>>}
        /\ flying # <<>> => got = <<flying[1]>> \o <<Ce102Answer>>
    <3>1. Ce102Answer.what # "silence"
      BY <2>1
    <3> HIDE DEF Ce102Answer
    <3>2. QED BY <1>1, <2>2, <3>1, HeardOnce DEF OneFault
  <2>4. CeHoursAreOwn'
    <3>1. CASE \A w \in rows' : w \in rows \/ w.key.kind # "hour"
      BY <1>1, <3>1 DEF Ce102Inv, CeHoursAreOwn
    <3>2. CASE /\ pc = "hour" /\ Ce102Taken(got) # {} /\ got[1].what # "none"
               /\ rows' = StoreArchive(rows, Key(DevCe[at], 0, "hour", StoredHour), Ce102Value(got[1]))
      <4>1. Len(got) = 1 /\ got[1].what # "junk"
        BY <3>2 DEF Ce102Taken, CeSumRight
      <4>2. got = <<Ce102Answer>>
        <5>1. got # <<Junk>> /\ got # <<>>
          BY <4>1 DEF Junk, Frame
        <5> HIDE DEF Ce102Answer
        <5>2. flying = <<>>
          BY <2>3, <4>1, Alone
        <5>3. QED BY <2>3, <5>1, <5>2
      <4>3. got[1] = Frame("value", DevCe[at], "hour", AskedHour)
        <5>1. got[1] = Ce102Answer
          BY <4>2
        <5>2. QED BY <3>2, <5>1 DEF Ce102Answer, Frame
      <4> DEFINE key == Key(DevCe[at], 0, "hour", StoredHour)
                 value == Ce102Value(got[1])
      <4>4. value.dev = key.dev /\ value.kind = "hour" /\ value.n = AskedHour /\ key.date = StoredHour
        BY <4>3 DEF Ce102Value, Value, Key, Frame
      <4>5. AskedHour \in {StoredHour - 1, StoredHour}
        <5>1. now \in Nat
          BY <1>1, HeatAssumption DEF Ce102Inv, MerEquipped
        <5>2. /\ now \div 2 \in Nat
              /\ now' \div 2 = now \div 2 \/ now' \div 2 = (now \div 2) + 1
          BY <1>2, <5>1, HalfHours
        <5>3. QED BY <1>0, <5>2 DEF AskedHour, StoredHour
      <4>6. rows' = StoreArchive(rows, key, value)
        BY <3>2
      <4> HIDE DEF key, value
      <4>7. \A w \in rows' : w \in rows \/ w = [key |-> key, value |-> value]
        BY <4>6 DEF StoreArchive
      <4>8. QED BY <1>1, <4>4, <4>5, <4>7 DEF Ce102Inv, CeHoursAreOwn
    <3>3. QED BY <2>2, <3>1, <3>2
  <2>5. QED BY <1>1, <1>2, <2>3, <2>4 DEF Ce102Inv
<1>5. QED BY <1>3, <1>4 DEF Ce102Next

-----------------------------------------------------------------------------
LEMMA SentWhenDeaf == ASSUME NEW op, deaf PROVE MerSent(op).what = "silence"
BY DEF MerSent, Silence, Frame

(* Whatever a read of a Mercury gets, one fault has been used up by what   *)
(* is under way after it.                                                  *)
LEMMA MerHeardOnce ==
  ASSUME OneFault, NEW op, NEW got, MerHeard(op, got)
  PROVE  /\ budget' \in {0, 1} /\ (dead # {} => budget' = 0) /\ dead' = dead /\ hurt \subseteq hurt'
         /\ \/ flying' = <<>>
            \/ flying' = <<flying'[1]>> /\ budget' = 0 /\ dead = {} /\ hurt' # {} /\ ~deaf
<1>1. CASE Heard(MerSent(op), got)
  BY <1>1, SentWhenDeaf, HeardOnce
<1>2. CASE /\ budget > 0 /\ budget' = budget - 1 /\ hurt' = hurt \cup {"refused"}
           /\ flying' = <<>> /\ UNCHANGED dead
  BY <1>2 DEF OneFault
<1>3. QED BY <1>1, <1>2 DEF MerHeard

(* What is taken of an answer through a concentrator is the answer to the  *)
(* request, or a refusal, which a fault or a dead meter makes.             *)
LEMMA Taken13 ==
  ASSUME OneFault, Mer.protocol = 13, NEW op, NEW got, MerHeard(op, got),
         MerAnswer(op).what # "silence", MerTaken(got) # {}
  PROVE  \/ got[1] = MerAnswer(op) /\ ~deaf
         \/ got[1] = Refusal /\ ("refused" \in hurt' \/ dead # {})
<1>1. Len(got) = 1 /\ got[1].what # "junk" /\ got # <<>>
  BY DEF MerTaken, MerSumRight
<1>2. CASE Heard(MerSent(op), got)
  <2>1. /\ flying = <<>> => \/ got \in {<<>>, <<Junk>>}
                            \/ got = <<MerSent(op)>> /\ MerSent(op).what # "silence"
        /\ flying # <<>> /\ MerSent(op).what # "silence" => got = <<flying[1]>> \o <<MerSent(op)>>
    BY <1>2, SentWhenDeaf, HeardOnce
  <2>2. flying = <<>>
    <3>1. SUFFICES ASSUME flying # <<>> PROVE FALSE
      OBVIOUS
    <3>2. ~deaf
      BY <3>1 DEF OneFault
    <3>3. MerSent(op).what # "silence"
      BY <3>2 DEF MerSent, Refusal, Frame
    <3>4. QED BY <1>1, <2>1, <3>1, <3>3, Alone
  <2>3. got # <<Junk>>
    BY <1>1 DEF Junk, Frame
  <2>4. got[1] = MerSent(op) /\ MerSent(op).what # "silence"
    BY <1>1, <2>1, <2>2, <2>3
  <2>5. MerSent(op) = MerAnswer(op) \/ (MerSent(op) = Refusal /\ dead # {})
    BY <2>4, SentWhenDeaf DEF MerSent
  <2>6. QED BY <2>4, <2>5, SentWhenDeaf
<1>3. CASE /\ budget > 0 /\ hurt' = hurt \cup {"refused"} /\ got = Append(flying, Refusal)
  <2>1. flying = <<>>
    BY <1>3 DEF OneFault
  <2>2. got[1] = Refusal
    BY <1>3, <2>1, Alone
  <2>3. QED BY <1>3, <2>2
<1>4. QED BY <1>2, <1>3 DEF MerHeard

-----------------------------------------------------------------------------
(* The row of a meter behind a concentrator.                               *)
ValueIsOwn(w) ==
  /\ (\E p \in DOMAIN MerParams : w.key.kind = MerParams[p]) \/ w.key.kind \in {"day", "month"} =>
       w.value.dev = w.key.dev /\ w.value.kind = w.key.kind
  /\ w.key.kind = "day" => w.value.n \in {w.key.date - 1, w.key.date}
  /\ w.key.kind = "month" => w.value.n = w.key.date - 1 \/ w.key.date = Void

IsPaired(w) ==
  w.value = [kind |-> "hour", n |-> 2 * w.key.date, since |-> 2 * w.key.date, dev |-> w.key.dev]

RowIsTrue(m, w) ==
  m.protocol = 13 =>
    /\ "refused" \notin hurt /\ dead = {} => ValueIsOwn(w)
    /\ now < MerPlaces /\ m.type = "m230" /\ m.early /\ w.key.kind = "hour" => IsPaired(w)

RowsAreTrue ==
  \A w \in rows :
    /\ w.key.dev \in MerMeters
    /\ \A r \in 1 .. Len(MerTable) : MerTable[r].dev = w.key.dev => RowIsTrue(MerTable[r], w)

LEMMA NewRows ==
  ASSUME Distinct, at \in 1 .. Len(MerTable), now \in Nat, now' \in Nat, now <= now',
         hurt \subseteq hurt', dead \subseteq dead', RowsAreTrue, NEW m, m = Mer,
         \A w \in rows' : w \in rows \/ (w.key.dev = m.dev /\ RowIsTrue(m, w)')
  PROVE  RowsAreTrue'
<1>1. SUFFICES ASSUME NEW w \in rows'
      PROVE  /\ w.key.dev \in MerMeters
             /\ \A r \in 1 .. Len(MerTable) :
                  MerTable[r].dev = w.key.dev => RowIsTrue(MerTable[r], w)'
  BY DEF RowsAreTrue
<1>2. CASE w \in rows
  <2>1. w.key.dev \in MerMeters
    BY <1>2 DEF RowsAreTrue
  <2>2. ASSUME NEW r \in 1 .. Len(MerTable), MerTable[r].dev = w.key.dev
        PROVE  RowIsTrue(MerTable[r], w)'
    <3>1. RowIsTrue(MerTable[r], w)
      BY <1>2, <2>2 DEF RowsAreTrue
    <3>2. now' < MerPlaces => now < MerPlaces
      BY MerAssumption
    <3>3. "refused" \notin hurt' /\ dead' = {} => "refused" \notin hurt /\ dead = {}
      OBVIOUS
    <3>4. QED BY <3>1, <3>2, <3>3 DEF RowIsTrue
  <2>3. QED BY <2>1, <2>2
<1>3. CASE w.key.dev = m.dev /\ RowIsTrue(m, w)'
  <2>1. w.key.dev \in MerMeters
    BY <1>3, Member DEF Mer
  <2>2. ASSUME NEW r \in 1 .. Len(MerTable), MerTable[r].dev = w.key.dev
        PROVE  MerTable[r] = m
    BY <1>3, <2>2, TableLength DEF Distinct, Mer
  <2>3. QED BY <1>3, <2>1, <2>2
<1>4. QED BY <1>2, <1>3

(* The walk through a ring that has not turned: it is at the first half of *)
(* an hour both of whose halves are recorded, and it stays in the ring.    *)
MerWalk ==
  pc = "hour" /\ Mer.protocol = 13 /\ Mer.type = "m230" /\ Mer.early /\ now < MerPlaces =>
    /\ \E h \in Nat : asked = 2 * h /\ left <= h + 1 /\ 2 * h + 1 <= now
    /\ buffer.what = "block" =>
         \E h \in Nat : buffer = Frame("block", Mer.dev, "hour", 2 * h)

MerInv ==
  driver = "mercury" =>
    /\ OneFault /\ now \in Span["mercury"] /\ left \in Nat
    /\ MerWalk /\ RowsAreTrue

LEMMA NextDay ==
  ASSUME NEW t \in Nat, NEW u \in {t, t + 1}
  PROVE  /\ HourOf(t) \in Nat /\ DayOf(t) \in Nat
         /\ DayOf(u) = DayOf(t) \/ DayOf(u) = DayOf(t) + 1
<1>1. HourOf(t) \in Nat /\ (HourOf(u) = HourOf(t) \/ HourOf(u) = HourOf(t) + 1)
  BY HalfHours DEF HourOf
<1>2. HoursPerDay \in Nat \ {0}
  BY HeatAssumption
<1>3. \A h \in Nat : /\ h \div HoursPerDay \in Nat
                     /\ \/ (h + 1) \div HoursPerDay = h \div HoursPerDay
                        \/ (h + 1) \div HoursPerDay = (h \div HoursPerDay) + 1
  <2> TAKE h \in Nat
  <2> DEFINE q == h \div HoursPerDay
             s == (h + 1) \div HoursPerDay
  <2>1. q \in Int /\ HoursPerDay * q <= h /\ h < HoursPerDay * q + HoursPerDay
    BY <1>2
  <2>2. s \in Int /\ HoursPerDay * s <= h + 1 /\ h + 1 < HoursPerDay * s + HoursPerDay
    BY <1>2
  <2> HIDE DEF q, s
  <2>3. q >= 0
    BY <1>2, <2>1
  <2>4. s >= q
    BY <1>2, <2>1, <2>2
  <2>5. s <= q + 1
    BY <1>2, <2>1, <2>2
  <2>6. QED BY <2>1, <2>2, <2>3, <2>4, <2>5 DEF q, s
<1>4. QED BY <1>1, <1>3 DEF DayOf

(* Both halves of an hour of a ring that has not turned.                   *)
LEMMA WholeHour ==
  ASSUME now \in Nat, now < MerPlaces, NEW h \in Nat, 2 * h + 1 <= now, asked = 2 * h
  PROVE  Block(asked) = Frame("block", Mer.dev, "hour", 2 * h) /\ HourOf(2 * h) = h
<1>1. MerPlaces \in Nat \ {0}
  BY MerAssumption
<1>2. (now - 2 * h) % MerPlaces = now - 2 * h
  BY <1>1
<1>3. (now - (2 * h + 1)) % MerPlaces = now - (2 * h + 1)
  BY <1>1
<1>4. (2 * h + 1) % MerPlaces = 2 * h + 1
  BY <1>1
<1>5. Label(asked) = 2 * h
  BY <1>2 DEF Label
<1>6. Label((asked + 1) % MerPlaces) = 2 * h + 1
  BY <1>3, <1>4 DEF Label
<1>7. QED BY <1>5, <1>6 DEF Block, HourOf

(* The row of an hour is that of a block: the one that came, or after a    *)
(* refusal the one that is still in the array.                             *)
BlockRow(frame, w) ==
  LET f == IF frame.what = "refusal" THEN buffer ELSE frame
  IN  /\ f.what = "block"
      /\ w.value = [Value(f.kind, f.n) EXCEPT !.dev = f.dev]
      /\ w.key.date = IF f.kind = "half" THEN f.n ELSE HourOf(f.n)

LEMMA HourRows ==
  ASSUME NEW frame, rows' \in MerHour(frame), NEW w \in rows', w \notin rows
  PROVE  /\ w.key.dev = Mer.dev /\ w.key.kind = "hour"
         /\ Mer.protocol = 13 => BlockRow(frame, w)
<1> DEFINE f == IF frame.what = "refusal" THEN buffer ELSE frame
           hour == IF f.kind = "half" THEN f.n ELSE HourOf(f.n)
           value == [Value(f.kind, f.n) EXCEPT !.dev = f.dev]
           key(date) == Key(Mer.dev, 0, "hour", date)
<1>1. \/ f.what = "block" /\ w = [key |-> key(hour), value |-> value]
      \/ Mer.protocol = 14 /\ w = [key |-> key(0), value |-> Value("junk", 0)]
  <2> HIDE DEF key, value
  <2>1. \/ f.what = "block" /\ rows' \in {rows, StoreArchive(rows, key(hour), value)}
        \/ rows' = rows
        \/ Mer.protocol = 14 /\ rows' = StoreArchive(rows, key(0), Value("junk", 0))
    BY DEF MerHour, StoreArchiveOf, key, value
  <2>2. QED BY <2>1 DEF StoreArchive
<1>2. \A date : key(date).dev = Mer.dev /\ key(date).kind = "hour" /\ key(date).date = date
  BY DEF Key
<1> HIDE DEF key, value, hour
<1>3. w.key.dev = Mer.dev /\ w.key.kind = "hour"
  BY <1>1, <1>2
<1>4. Mer.protocol = 13 => f.what = "block" /\ w.value = value /\ w.key.date = hour
  BY <1>1, <1>2
<1>5. QED BY <1>3, <1>4 DEF value, hour, BlockRow

LEMMA MerBounds ==
  ASSUME MerEquipped
  PROVE  /\ Span["mercury"] \subseteq Nat /\ Depth \in Nat \ {0}
         /\ \A h \in Nat : HourOf(2 * h) = h
BY HeatAssumption DEF MerEquipped, HourOf

LEMMA HourRowsTrue ==
  ASSUME MerEquipped, MerInv, MerBlock \/ SetBlock, NEW m, m = Mer, NEW w \in rows', w \notin rows
  PROVE  w.key.dev = m.dev /\ RowIsTrue(m, w)'
<1>1. PICK got : MerHeard("hour", got) /\ MerTaken(got) # {} /\ rows' \in MerHour(got[1])
  BY DEF MerBlock, SetBlock
<1>2. driver = "mercury" /\ pc = "hour" /\ now' = now
  BY DEF MerBlock, SetBlock
<1>3. w.key.dev = m.dev /\ w.key.kind = "hour"
  BY <1>1, HourRows
<1>4. ValueIsOwn(w)
  BY <1>3 DEF ValueIsOwn, MerEquipped
<1>5. ASSUME m.protocol = 13, now < MerPlaces, m.type = "m230", m.early
      PROVE  IsPaired(w)
  <2>1. PICK h \in Nat : asked = 2 * h /\ 2 * h + 1 <= now
    BY <1>2, <1>5 DEF MerInv, MerWalk
  <2>2. now \in Nat
    BY <1>2, MerBounds DEF MerInv
  <2>3. MerAnswer("hour") = Frame("block", Mer.dev, "hour", 2 * h)
    BY <1>5, <2>1, <2>2, WholeHour DEF MerAnswer
  <2> DEFINE f == IF got[1].what = "refusal" THEN buffer ELSE got[1]
  <2>4. /\ f.what = "block" /\ w.value = [Value(f.kind, f.n) EXCEPT !.dev = f.dev]
        /\ w.key.date = IF f.kind = "half" THEN f.n ELSE HourOf(f.n)
    <3>1. BlockRow(got[1], w)
      BY <1>1, <1>5, HourRows
    <3>2. QED BY <3>1 DEF BlockRow
  <2>5. \E i \in Nat : f = Frame("block", Mer.dev, "hour", 2 * i)
    <3>1. CASE got[1].what = "refusal"
      BY <1>2, <1>5, <2>4, <3>1 DEF MerInv, MerWalk
    <3>2. CASE got[1].what # "refusal"
      <4>1. got[1] # Refusal
        BY <3>2 DEF Refusal, Frame
      <4>2. MerAnswer("hour").what # "silence"
        BY <2>3 DEF Frame
      <4>3. OneFault
        BY <1>2 DEF MerInv
      <4>4. got[1] = MerAnswer("hour")
        BY <1>1, <1>5, <4>1, <4>2, <4>3, Taken13
      <4>5. QED BY <2>3, <2>4, <3>2, <4>4
    <3>3. QED BY <3>1, <3>2
  <2> HIDE DEF f
  <2>6. PICK i \in Nat : f = Frame("block", Mer.dev, "hour", 2 * i)
    BY <2>5
  <2>7. f.kind = "hour" /\ f.n = 2 * i /\ f.dev = m.dev
    BY <2>6 DEF Frame
  <2>8. w.key.date = i
    BY <2>4, <2>7, MerBounds
  <2>9. w.value = [kind |-> "hour", n |-> 2 * i, since |-> 2 * i, dev |-> m.dev]
    BY <2>4, <2>7 DEF Value
  <2>10. QED BY <1>3, <2>8, <2>9 DEF IsPaired
<1>6. QED BY <1>2, <1>3, <1>4, <1>5 DEF RowIsTrue

(* What is stored of a value out of an answer through a concentrator.      *)
LEMMA ValueTaken ==
  ASSUME OneFault, Mer.protocol = 13, NEW op, NEW got, MerHeard(op, got), MerTaken(got) # {},
         NEW kind, NEW n, MerAnswer(op) = Frame("value", Mer.dev, kind, n),
         "refused" \notin hurt', dead' = {}
  PROVE  LET value == MerValue(got[1]) IN value.dev = Mer.dev /\ value.kind = kind /\ value.n = n
<1>1. dead = {}
  BY MerHeardOnce
<1>2. MerAnswer(op).what # "silence"
  BY DEF Frame
<1>3. got[1] = MerAnswer(op)
  BY <1>1, <1>2, Taken13
<1>4. QED BY <1>3 DEF MerValue, Value, Frame

LEMMA DayRowsTrue ==
  ASSUME MerEquipped, MerInv, MerDay, NEW m, m = Mer, NEW w \in rows', w \notin rows
  PROVE  w.key.dev = m.dev /\ RowIsTrue(m, w)'
<1>1. PICK got :
        /\ MerHeard(pc, got) /\ MerTaken(got) # {}
        /\ rows' = StoreArchive(rows, Key(Mer.dev, 0, pc, DayOf(now') - 1), MerValue(got[1]))
  BY DEF MerDay, StoreArchiveOf
<1>2. driver = "mercury" /\ pc \in {"day", "daytotal"} /\ now \in Nat /\ now' \in {now, now + 1}
  BY MerBounds DEF MerDay, Passing, MerInv
<1>3. w = [key |-> Key(Mer.dev, 0, pc, DayOf(now') - 1), value |-> MerValue(got[1])]
  BY <1>1 DEF StoreArchive
<1>4. /\ w.key.dev = m.dev /\ w.key.kind = pc /\ w.key.date = DayOf(now') - 1
      /\ w.value = MerValue(got[1])
  BY <1>3 DEF Key
<1>5. ASSUME m.protocol = 13, "refused" \notin hurt', dead' = {} PROVE ValueIsOwn(w)
  <2>1. CASE pc = "daytotal"
    BY <1>4, <2>1 DEF ValueIsOwn, MerEquipped
  <2>2. CASE pc = "day"
    <3>1. MerAnswer(pc) = Frame("value", Mer.dev, "day", DayOf(now) - 1)
      BY <2>2 DEF MerAnswer
    <3>2. OneFault
      BY <1>2 DEF MerInv
    <3>3. w.value.dev = m.dev /\ w.value.kind = "day" /\ w.value.n = DayOf(now) - 1
      BY <1>1, <1>4, <1>5, <3>1, <3>2, ValueTaken
    <3>4. DayOf(now) \in Nat /\ (DayOf(now') = DayOf(now) \/ DayOf(now') = DayOf(now) + 1)
      BY <1>2, NextDay
    <3>5. w.value.n \in {w.key.date - 1, w.key.date}
      BY <1>4, <3>3, <3>4
    <3>6. QED BY <1>4, <2>2, <3>3, <3>5 DEF ValueIsOwn
  <2>3. QED BY <1>2, <2>1, <2>2
<1>6. w.key.kind # "hour"
  BY <1>2, <1>4
<1>7. QED BY <1>4, <1>5, <1>6 DEF RowIsTrue

LEMMA MonthRowsTrue ==
  ASSUME MerEquipped, MerInv, MerMonth, NEW m, m = Mer, NEW w \in rows', w \notin rows
  PROVE  w.key.dev = m.dev /\ RowIsTrue(m, w)'
<1>1. PICK got :
        MerHeard(pc, got) /\ MerTaken(got) # {} /\ rows' = MerMonthStored(pc, MerValue(got[1]))
  BY DEF MerMonth
<1>2. driver = "mercury" /\ pc \in {"month", "monthtotal"}
  BY DEF MerMonth
<1>3. w = [key |-> Key(Mer.dev, 0, pc, MonthDate(asked)), value |-> MerValue(got[1])]
  BY <1>1 DEF MerMonthStored, StoreArchiveOf, StoreArchive
<1>4. /\ w.key.dev = m.dev /\ w.key.kind = pc /\ w.key.date = MonthDate(asked)
      /\ w.value = MerValue(got[1])
  BY <1>3 DEF Key
<1>5. ASSUME m.protocol = 13, "refused" \notin hurt', dead' = {} PROVE ValueIsOwn(w)
  <2>1. CASE pc = "monthtotal"
    BY <1>4, <2>1 DEF ValueIsOwn, MerEquipped
  <2>2. CASE pc = "month"
    <3>1. MerAnswer(pc) = Frame("value", Mer.dev, "month", asked - 1)
      BY <2>2 DEF MerAnswer
    <3>2. OneFault
      BY <1>2 DEF MerInv
    <3>3. w.value.dev = m.dev /\ w.value.kind = "month" /\ w.value.n = asked - 1
      BY <1>1, <1>4, <1>5, <3>1, <3>2, ValueTaken
    <3>4. w.value.n = w.key.date - 1 \/ w.key.date = Void
      BY <1>4, <3>3 DEF MonthDate
    <3>5. QED BY <1>4, <2>2, <3>3, <3>4 DEF ValueIsOwn
  <2>3. QED BY <1>2, <2>1, <2>2
<1>6. w.key.kind # "hour"
  BY <1>2, <1>4
<1>7. QED BY <1>4, <1>5, <1>6 DEF RowIsTrue

LEMMA CurrentRowsTrue ==
  ASSUME MerEquipped, MerInv, MerCurrent, left \in DOMAIN MerParams,
         NEW m, m = Mer, NEW w \in rows', w \notin rows
  PROVE  w.key.dev = m.dev /\ RowIsTrue(m, w)'
<1> DEFINE place(type, date) == Key(Mer.dev, type, MerParams[left], date)
<1>1. PICK got :
        /\ MerHeard("current", got) /\ MerTaken(got) # {}
        /\ rows' = StoreArchive(StoreCurrent(rows, place(0, 0), MerValue(got[1])),
                                place(9, HourOf(now)), MerValue(got[1]))
  BY DEF MerCurrent, StoreArchiveOf, StoreCurrentOf
<1>2. driver = "mercury"
  BY DEF MerCurrent
<1>3. \E type, date : w = [key |-> place(type, date), value |-> MerValue(got[1])]
  <2> HIDE DEF place
  <2>1. QED BY <1>1 DEF StoreArchive, StoreCurrent
<1>4. w.key.dev = m.dev /\ w.key.kind = MerParams[left] /\ w.value = MerValue(got[1])
  BY <1>3 DEF Key
<1>5. w.key.kind \notin {"hour", "day", "month"}
  BY <1>4 DEF MerEquipped
<1>6. ASSUME m.protocol = 13, "refused" \notin hurt', dead' = {} PROVE ValueIsOwn(w)
  <2>1. MerAnswer("current") = Frame("value", Mer.dev, MerParams[left], 0)
    BY DEF MerAnswer
  <2>2. OneFault
    BY <1>2 DEF MerInv
  <2>3. w.value.dev = m.dev /\ w.value.kind = MerParams[left]
    BY <1>1, <1>4, <1>6, <2>1, <2>2, ValueTaken
  <2>4. QED BY <1>4, <1>5, <2>3 DEF ValueIsOwn
<1>7. QED BY <1>4, <1>5, <1>6 DEF RowIsTrue

-----------------------------------------------------------------------------
LEMMA StartOfWalk ==
  ASSUME NEW n \in Nat, NEW d \in Nat \ {0}, n >= 2 * d + 1, n < MerPlaces, Mer.early
  PROVE  \E h \in Nat : WalkStart(n) = 2 * h /\ d <= h + 1 /\ 2 * h + 1 <= n
<1>1. n % MerPlaces = n
  <2>1. MerPlaces \in Nat \ {0}
    BY MerAssumption
  <2>2. QED BY <2>1
<1>2. CASE n % 2 = 1
  <2>1. WalkStart(n) = n - 3
    BY <1>1, <1>2 DEF WalkStart
  <2>2. PICK h \in Nat : n - 3 = 2 * h
    <3>1. (n - 3) \div 2 \in Nat /\ n - 3 = 2 * ((n - 3) \div 2)
      BY <1>2
    <3>2. QED BY <3>1
  <2>3. QED BY <2>1, <2>2
<1>3. CASE n % 2 # 1
  <2>1. WalkStart(n) = n - 2
    BY <1>1, <1>3 DEF WalkStart
  <2>2. PICK h \in Nat : n - 2 = 2 * h
    <3>1. (n - 2) \div 2 \in Nat /\ n - 2 = 2 * ((n - 2) \div 2)
      BY <1>3
    <3>2. QED BY <3>1
  <2>3. QED BY <2>1, <2>2
<1>4. QED BY <1>2, <1>3

LEMMA WalkBegins == ASSUME MerEquipped, MerInv, MerPointer PROVE MerWalk'
<1> SUFFICES ASSUME pc' = "hour", Mer'.protocol = 13, Mer'.type = "m230", Mer'.early, now' < MerPlaces
             PROVE  /\ \E h \in Nat : asked' = 2 * h /\ left' <= h + 1 /\ 2 * h + 1 <= now'
                    /\ buffer'.what # "block"
  BY DEF MerWalk
<1>1. driver = "mercury" /\ Mer' = Mer /\ now' = now /\ now \in Span["mercury"] /\ OneFault
  BY DEF MerPointer, MerFrame, Mer, MerInv
<1>2. PICK got :
        /\ MerHeard("pointer", got)
        /\ \E f \in MerTaken(got) : f.what = "pointer"
        /\ asked' = WalkStart(got[1].n) /\ left' = Depth
  BY <1>1 DEF MerPointer
<1>3. MerTaken(got) # {} /\ got[1].what = "pointer"
  BY <1>2 DEF MerTaken
<1>4. MerAnswer("pointer") = Frame("pointer", Mer.dev, "none", now)
  BY DEF MerAnswer
<1>5. got[1] = MerAnswer("pointer")
  <2>1. got[1] # Refusal
    BY <1>3 DEF Refusal, Frame
  <2>2. MerAnswer("pointer").what # "silence"
    BY <1>4 DEF Frame
  <2>3. Mer.protocol = 13
    BY <1>1
  <2>4. QED BY <1>1, <1>2, <1>3, <2>1, <2>2, <2>3, Taken13
<1>6. asked' = WalkStart(now)
  BY <1>2, <1>4, <1>5 DEF Frame
<1>7. now \in Nat /\ now >= 2 * Depth + 1 /\ Depth \in Nat \ {0} /\ now < MerPlaces
  BY <1>1, MerBounds DEF MerEquipped
<1>8. \E h \in Nat : asked' = 2 * h /\ left' <= h + 1 /\ 2 * h + 1 <= now'
  BY <1>1, <1>2, <1>6, <1>7, StartOfWalk
<1>9. buffer' = Junk
  BY DEF MerPointer
<1>10. QED BY <1>8, <1>9 DEF Junk, Frame

LEMMA WalkGoesOn == ASSUME MerEquipped, MerInv, MerBlock PROVE MerWalk'
<1> SUFFICES ASSUME pc' = "hour", Mer'.protocol = 13, Mer'.type = "m230", Mer'.early, now' < MerPlaces
             PROVE  /\ \E h \in Nat : asked' = 2 * h /\ left' <= h + 1 /\ 2 * h + 1 <= now'
                    /\ buffer'.what = "block" =>
                         \E h \in Nat : buffer' = Frame("block", Mer'.dev, "hour", 2 * h)
  BY DEF MerWalk
<1>1. /\ driver = "mercury" /\ pc = "hour" /\ Mer' = Mer /\ now' = now
      /\ now \in Nat /\ OneFault /\ MerWalk /\ left \in Nat
  BY MerBounds DEF MerBlock, MerFrame, Mer, MerInv
<1>2. left > 1 /\ left' = left - 1 /\ asked' = WalkBack(asked)
  BY <1>1 DEF MerBlock
<1>3. PICK h \in Nat : asked = 2 * h /\ left <= h + 1 /\ 2 * h + 1 <= now
  BY <1>1 DEF MerWalk
<1>4. \E i \in Nat : asked' = 2 * i /\ left' <= i + 1 /\ 2 * i + 1 <= now'
  <2>1. h - 1 \in Nat /\ asked' = 2 * (h - 1)
    BY <1>1, <1>2, <1>3 DEF WalkBack
  <2>2. left' <= (h - 1) + 1 /\ 2 * (h - 1) + 1 <= now'
    BY <1>1, <1>2, <1>3
  <2>3. QED BY <2>1, <2>2
<1>5. PICK got :
        /\ MerHeard("hour", got)
        /\ buffer' = buffer \/ (MerTaken(got) # {} /\ got[1].what # "refusal" /\ buffer' = got[1])
  BY DEF MerBlock
<1>6. CASE buffer' = buffer
  BY <1>1, <1>4, <1>6 DEF MerWalk
<1>7. CASE MerTaken(got) # {} /\ got[1].what # "refusal" /\ buffer' = got[1]
  <2>1. MerAnswer("hour") = Frame("block", Mer.dev, "hour", 2 * h)
    BY <1>1, <1>3, WholeHour DEF MerAnswer
  <2>2. got[1] # Refusal
    BY <1>7 DEF Refusal, Frame
  <2>3. MerAnswer("hour").what # "silence" /\ Mer.protocol = 13
    BY <1>1, <2>1 DEF Frame
  <2>4. got[1] = MerAnswer("hour")
    BY <1>1, <1>5, <1>7, <2>2, <2>3, Taken13
  <2>5. buffer' = Frame("block", Mer'.dev, "hour", 2 * h)
    BY <1>1, <1>7, <2>1, <2>4
  <2>6. QED BY <1>4, <2>5
<1>8. QED BY <1>5, <1>6, <1>7

(* What none of the steps but those of the walk touch.                     *)
LEMMA NoWalk ==
  ASSUME driver = "mercury",
         MerPort \/ MerTurn \/ MerOpen \/ MerInfo \/ SetBlock \/ MerDay \/ MerMonth \/ MerCurrent
  PROVE  pc' # "hour" \/ Mer'.type # "m230"
<1>1. CASE MerPort \/ MerTurn \/ MerOpen \/ MerInfo \/ MerDay \/ MerMonth \/ MerCurrent
  BY <1>1 DEF MerPort, MerTurn, MerOpen, MerInfo, MerDay, MerMonth, MerCurrent, MerAgain
<1>2. CASE SetBlock
  BY <1>2 DEF SetBlock, MerFrame, Mer
<1>3. QED BY <1>1, <1>2

LEMMA OneFaultStays == ASSUME OneFault, MerNext PROVE OneFault'
<1>1. CASE MerPort
  BY <1>1 DEF MerPort, MerOpened, OneFault
<1>2. CASE MerTurn
  BY <1>2 DEF MerTurn, lineVars, OneFault
<1>3. CASE /\ budget > 0 /\ budget' = budget - 1 /\ UNCHANGED <<flying, dead, deaf>> /\ SetBlock
  BY <1>3 DEF OneFault
<1>4. CASE (\E op, got : MerHeard(op, got)) /\ deaf' = deaf
  BY <1>4, MerHeardOnce DEF OneFault
<1>5. SetBlock => \/ (\E op, got : MerHeard(op, got)) /\ deaf' = deaf
                  \/ budget > 0 /\ budget' = budget - 1 /\ UNCHANGED <<flying, dead, deaf>>
  BY DEF SetBlock, Unlinked
<1>6. CASE MerOpen \/ MerInfo \/ MerPointer \/ MerBlock \/ MerDay \/ MerMonth \/ MerCurrent
  BY <1>6, <1>4 DEF MerOpen, MerInfo, MerPointer, MerBlock, MerDay, MerMonth, MerCurrent, Unlinked
<1>7. QED BY <1>1, <1>2, <1>3, <1>4, <1>5, <1>6 DEF MerNext

(* The requests left, and the current value that is asked for.             *)
MerLeft == left \in Nat /\ (pc = "current" => left \in DOMAIN MerParams)

LEMMA MerLeftStep == ASSUME MerEquipped, MerLeft, MerNext PROVE MerLeft'
<1>1. Depth \in Nat /\ DOMAIN MerParams = 1 .. Len(MerParams) /\ Len(MerParams) \in Nat \ {0}
  BY MerBounds, MerAssumption DEF MerEquipped
<1>2. CASE MerPort \/ MerTurn \/ MerPointer \/ MerBlock \/ MerDay
  BY <1>1, <1>2 DEF MerPort, MerTurn, MerPointer, MerBlock, MerDay, MerLeft
<1>3. CASE MerOpen
  BY <1>3 DEF MerOpen, MerLeft
<1>4. CASE MerInfo
  <2>1. left' \in {1, 2} /\ (left' = 2 => pc' = "info")
    BY <1>4 DEF MerInfo
  <2>2. QED BY <1>1, <2>1 DEF MerLeft
<1>5. CASE SetBlock
  <2>1. pc' # "current" /\ \E matches \in 0 .. 1 : left' = IF Vsk(matches) > 0 THEN Vsk(matches) ELSE 1
    BY <1>5 DEF SetBlock
  <2>2. QED BY <2>1 DEF MerLeft, Vsk
<1>6. CASE MerMonth
  <2>1. \/ left' = left /\ pc' # "current"
        \/ left > 1 /\ left' = left - 1 /\ pc' # "current"
        \/ left' = 1
    BY <1>6 DEF MerMonth
  <2>2. QED BY <1>1, <2>1 DEF MerLeft
<1>7. CASE MerCurrent
  <2>1. (left < Len(MerParams) /\ left' = left + 1) \/ left' = 1
    BY <1>7 DEF MerCurrent
  <2>2. QED BY <1>1, <2>1 DEF MerLeft
<1>8. QED BY <1>2, <1>3, <1>4, <1>5, <1>6, <1>7 DEF MerNext

LEMMA MerRowsStep ==
  ASSUME MerEquipped, LinkInv, MerInv, MerLeft, MerNext PROVE RowsAreTrue'
<1>1. /\ driver = "mercury" /\ at \in 1 .. Len(MerTable) /\ OneFault /\ RowsAreTrue
      /\ now \in Nat /\ Distinct
  BY MerBounds DEF MerNext, MerPort, MerTurn, MerOpen, MerInfo, MerPointer, MerBlock, SetBlock,
                   MerDay, MerMonth, MerCurrent, MerFrame, MerInv, LinkInv, MerEquipped
<1>2. now' \in Nat /\ now <= now'
  <2>1. now' = now \/ now' = now + 1
    BY DEF MerNext, MerPort, MerTurn, MerOpen, MerInfo, MerPointer, MerBlock, SetBlock,
           MerDay, MerMonth, MerCurrent, Passing
  <2>2. QED BY <1>1, <2>1
<1>3. hurt \subseteq hurt' /\ dead' = dead
  <2>1. CASE MerPort \/ MerTurn
    BY <2>1 DEF MerPort, MerTurn, lineVars
  <2>2. CASE SetBlock
    <3>1. \/ \E op, got : MerHeard(op, got)
          \/ hurt' = hurt \cup {"matched"} /\ dead' = dead
      BY <2>2 DEF SetBlock
    <3>2. QED BY <1>1, <3>1, MerHeardOnce
  <2>3. CASE MerOpen \/ MerInfo \/ MerPointer \/ MerBlock \/ MerDay \/ MerMonth \/ MerCurrent
    <3>1. \E op, got : MerHeard(op, got)
      BY <2>3 DEF MerOpen, MerInfo, MerPointer, MerBlock, MerDay, MerMonth, MerCurrent
    <3>2. QED BY <1>1, <3>1, MerHeardOnce
  <2>4. QED BY <2>1, <2>2, <2>3 DEF MerNext
<1>4. ASSUME NEW w \in rows', w \notin rows
      PROVE  \E n : n = Mer /\ w.key.dev = n.dev /\ RowIsTrue(n, w)'
  <2>1. CASE MerBlock \/ SetBlock
    BY <1>4, <2>1, HourRowsTrue
  <2>2. CASE MerDay
    BY <1>4, <2>2, DayRowsTrue
  <2>3. CASE MerMonth
    BY <1>4, <2>3, MonthRowsTrue
  <2>4. CASE MerCurrent
    <3>1. left \in DOMAIN MerParams
      BY <2>4 DEF MerCurrent, MerLeft
    <3>2. QED BY <1>4, <2>4, <3>1, CurrentRowsTrue
  <2>5. CASE MerPort \/ MerTurn \/ MerOpen \/ MerInfo \/ MerPointer
    BY <1>4, <2>5 DEF MerPort, MerTurn, MerOpen, MerInfo, MerPointer
  <2>6. QED BY <2>1, <2>2, <2>3, <2>4, <2>5 DEF MerNext
<1>5. PICK n : n = Mer
  OBVIOUS
<1>6. \A w \in rows' : w \in rows \/ (w.key.dev = n.dev /\ RowIsTrue(n, w)')
  BY <1>4, <1>5
<1>7. QED BY <1>1, <1>2, <1>3, <1>5, <1>6, NewRows

LEMMA StepMer ==
  ASSUME MerEquipped, LinkInv, MerInv, MerLeft, [PowerNext]_powerVars
  PROVE  driver = "mercury" => MerInv' /\ MerLeft'
<1> SUFFICES ASSUME driver = "mercury" PROVE MerInv' /\ MerLeft'
  OBVIOUS
<1>1. /\ OneFault /\ now \in Span["mercury"] /\ now \in Nat /\ MerWalk /\ RowsAreTrue
      /\ at \in 1 .. Len(MerTable) /\ Distinct
  BY MerBounds DEF MerInv, LinkInv, MerEquipped
<1>2. CASE UNCHANGED powerVars
  <2>1. UNCHANGED <<driver, now, pc, at, left, asked, buffer, flying, rows, dead, budget, hurt, deaf>>
    BY <1>2 DEF powerVars, heatVars, lineVars, merVars
  <2>2. Mer' = Mer
    BY <2>1 DEF Mer
  <2>3. MerWalk' /\ MerLeft'
    BY <1>1, <2>1, <2>2 DEF MerWalk, MerLeft
  <2>4. RowsAreTrue'
    BY <1>1, <2>1 DEF RowsAreTrue, RowIsTrue
  <2>5. OneFault'
    BY <1>1, <2>1 DEF OneFault
  <2>6. QED BY <1>1, <2>1, <2>3, <2>4, <2>5 DEF MerInv, MerLeft
<1>3. CASE PowerWorld
  <2>1. /\ UNCHANGED <<driver, pc, at, left, asked, buffer, flying, rows, budget, hurt, deaf>>
        /\ now' \in Span["mercury"] /\ now' \in {now, now + 1} /\ now' \in Nat /\ now <= now'
        /\ dead' = dead \/ (dead = {} /\ budget = 0 /\ hurt = {})
    <3>1. now' \in Span["mercury"] /\ now' \in {now, now + 1}
      BY <1>1, <1>3 DEF PowerWorld, Tick, Die
    <3>2. /\ UNCHANGED <<driver, pc, at, left, asked, buffer, flying, rows, budget, hurt, deaf>>
          /\ dead' = dead \/ (dead = {} /\ budget = 0 /\ hurt = {})
      BY <1>3 DEF PowerWorld, Tick, Die, lineVars, merVars
    <3>3. QED BY <1>1, <3>1, <3>2
  <2>2. Mer' = Mer
    BY <2>1 DEF Mer
  <2>3. OneFault'
    BY <1>1, <2>1 DEF OneFault
  <2>4. MerWalk'
    <3> SUFFICES ASSUME pc = "hour", Mer.protocol = 13, Mer.type = "m230", Mer.early, now' < MerPlaces
                 PROVE  /\ \E h \in Nat : asked = 2 * h /\ left <= h + 1 /\ 2 * h + 1 <= now'
                        /\ buffer.what = "block" =>
                             \E h \in Nat : buffer = Frame("block", Mer.dev, "hour", 2 * h)
      BY <2>1, <2>2 DEF MerWalk
    <3>1. now < MerPlaces
      BY <1>1, <2>1, MerAssumption
    <3>2. PICK h \in Nat : asked = 2 * h /\ left <= h + 1 /\ 2 * h + 1 <= now
      BY <1>1, <3>1 DEF MerWalk
    <3>3. 2 * h + 1 <= now'
      BY <1>1, <2>1, <3>2
    <3>4. QED BY <1>1, <3>1, <3>2, <3>3 DEF MerWalk
  <2>5. RowsAreTrue'
    <3>1. PICK n : n = Mer
      OBVIOUS
    <3>2. hurt \subseteq hurt' /\ dead \subseteq dead' /\ \A w \in rows' : w \in rows
      BY <2>1
    <3>3. QED BY <1>1, <2>1, <3>1, <3>2, NewRows
  <2>6. QED BY <1>1, <2>1, <2>3, <2>4, <2>5 DEF MerInv, MerLeft
<1>4. CASE CeNext \/ Ce102Next
  BY <1>4 DEF CeNext, CeInfo, CeCurrent, Ce102Next, Ce102Current, Ce102Total, Ce102Hour, Ce102Stop
<1>5. CASE MerNext
  <2>1. driver' = driver /\ now' \in Span["mercury"]
    BY <1>1, <1>5 DEF MerNext, MerPort, MerTurn, MerOpen, MerInfo, MerPointer, MerBlock, SetBlock,
                      MerDay, MerMonth, MerCurrent, MerFrame, Passing
  <2>2. MerWalk'
    <3>1. CASE MerPointer
      BY <3>1, WalkBegins
    <3>2. CASE MerBlock
      BY <3>2, WalkGoesOn
    <3>3. CASE MerPort \/ MerTurn \/ MerOpen \/ MerInfo \/ SetBlock \/ MerDay \/ MerMonth \/ MerCurrent
      BY <3>3, NoWalk DEF MerWalk
    <3>4. QED BY <1>5, <3>1, <3>2, <3>3 DEF MerNext
  <2>3. OneFault' /\ MerLeft' /\ RowsAreTrue'
    BY <1>1, <1>5, OneFaultStays, MerLeftStep, MerRowsStep
  <2>4. QED BY <2>1, <2>2, <2>3 DEF MerInv, MerLeft
<1>6. QED BY <1>2, <1>3, <1>4, <1>5 DEF PowerNext, PowerDriver, PowerStopped

-----------------------------------------------------------------------------
PowerInv ==
  /\ LinkInv /\ Ce102Inv
  /\ driver = "mercury" => MerInv /\ MerLeft

LEMMA SameDriver ==
  ASSUME [PowerNext]_powerVars
  PROVE  /\ driver' = driver
         /\ driver # "mercury" => ~MerNext
         /\ driver # "ce102" => ~Ce102Next
<1>1. MerNext => driver = "mercury" /\ driver' = driver
  BY DEF MerNext, MerPort, MerTurn, MerOpen, MerInfo, MerPointer, MerBlock, SetBlock,
         MerDay, MerMonth, MerCurrent, MerFrame
<1>2. CeNext => driver = "ce303" /\ driver' = driver
  BY DEF CeNext, CeInfo, CeCurrent
<1>3. Ce102Next => driver = "ce102" /\ driver' = driver
  BY DEF Ce102Next, Ce102Current, Ce102Total, Ce102Hour, Ce102Stop
<1>4. QED BY <1>1, <1>2, <1>3 DEF PowerNext, PowerDriver, PowerWorld, PowerStopped, Tick, Die,
                                  powerVars, heatVars

LEMMA StepCe102 ==
  ASSUME MerEquipped, Ce102Inv, [PowerNext]_powerVars PROVE Ce102Inv'
<1> SUFFICES ASSUME driver = "ce102" PROVE Ce102Inv'
  BY SameDriver DEF Ce102Inv
<1>1. CASE UNCHANGED powerVars \/ PowerWorld
  <2>1. /\ UNCHANGED <<driver, pc, left, flying, rows, budget, hurt, deaf>>
        /\ now' \in Span["ce102"]
        /\ dead' = dead \/ (dead = {} /\ budget = 0 /\ hurt = {})
    BY <1>1 DEF PowerWorld, Tick, Die, lineVars, merVars, powerVars, heatVars, Ce102Inv
  <2>2. OneFault' /\ Ce102Place' /\ CeHoursAreOwn'
    BY <2>1 DEF Ce102Inv, OneFault, Ce102Place, CeHoursAreOwn
  <2>3. QED BY <2>1, <2>2 DEF Ce102Inv
<1>2. CASE Ce102Next /\ UNCHANGED merVars
  BY <1>2, Ce102Step
<1>3. CASE CeNext
  BY <1>3 DEF CeNext, CeInfo, CeCurrent
<1>4. QED BY <1>1, <1>2, <1>3, SameDriver DEF PowerNext, PowerDriver, PowerStopped

LEMMA InitPower == ASSUME MerEquipped, PowerInit PROVE PowerInv
<1>1. LinkInv
  BY InitLink DEF MerEquipped
<1>2. /\ flying = <<>> /\ dead = {} /\ rows = {} /\ left = 1 /\ deaf = FALSE
      /\ pc \in {"port", "info", "gone", "current"}
      /\ driver \in {"mercury", "ce303", "ce102"} /\ now \in Span[driver]
      /\ budget \in 0 .. MaxFaults[driver]
      /\ driver = "ce102" => pc = "current"
      /\ driver = "mercury" => pc = "port"
  BY DEF PowerInit, MerInit, CeInit, Ce102Init, CeOpened, HeatInit
<1>3. driver \in {"mercury", "ce102"} => OneFault
  BY <1>2 DEF OneFault, MerEquipped
<1>4. Ce102Inv
  BY <1>2, <1>3 DEF Ce102Inv, Ce102Place, CeHoursAreOwn
<1>5. driver = "mercury" => MerInv /\ MerLeft
  BY <1>2, <1>3 DEF MerInv, MerLeft, MerWalk, RowsAreTrue
<1>6. QED BY <1>1, <1>4, <1>5 DEF PowerInv

LEMMA StepPower ==
  ASSUME MerEquipped, PowerInv, [PowerNext]_powerVars PROVE PowerInv'
<1>1. LinkInv'
  BY StepLink DEF PowerInv, MerEquipped
<1>2. Ce102Inv'
  BY StepCe102 DEF PowerInv
<1>3. driver' = "mercury" => MerInv' /\ MerLeft'
  BY StepMer, SameDriver DEF PowerInv
<1>4. QED BY <1>1, <1>2, <1>3 DEF PowerInv

LEMMA MeterOfRow ==
  ASSUME Distinct, driver = "mercury", RowsAreTrue, NEW w \in rows
  PROVE  RowIsTrue(Of(w), w)
<1>1. PICK r \in 1 .. Len(MerTable) : MerTable[r].dev = w.key.dev
  BY TableLength DEF RowsAreTrue, MerMeters
<1>2. Of(w) = MerTable[r]
  <2>1. MerTable[r] \in {MerTable[s] : s \in DOMAIN MerTable}
    BY <1>1, TableLength
  <2>2. \A m \in {MerTable[s] : s \in DOMAIN MerTable} : m.dev = w.key.dev => m = MerTable[r]
    BY <1>1, TableLength DEF Distinct
  <2>3. QED BY <1>1, <2>1, <2>2 DEF Of
<1>3. QED BY <1>1, <1>2 DEF RowsAreTrue

(* For any table of meters and walks that a ring has got the records of,   *)
(* with at most one fault: the rows of a meter behind a concentrator are   *)
(* its own, of their parameter or date, and an hour's of both its halves,  *)
(* though answers are not compared with requests; and an hour of a CE102   *)
(* is off by one at most, if it ended between a request and its answer.    *)
THEOREM PowerRows == MerEquipped => (PowerSpec => []RowsAreOwn)
<1> SUFFICES ASSUME MerEquipped PROVE PowerSpec => []RowsAreOwn
  OBVIOUS
<1>1. PowerInit => PowerInv
  BY InitPower
<1>2. PowerInv /\ [PowerNext]_powerVars => PowerInv'
  BY StepPower
<1>3. PowerInv => RowsAreOwn
  <2> SUFFICES ASSUME PowerInv PROVE RowsAreOwn
    OBVIOUS
  <2>1. CeHoursAreOwn
    BY DEF PowerInv, Ce102Inv, CeHoursAreOwn
  <2>2. driver = "mercury" => \A w \in rows : RowIsTrue(Of(w), w)
    BY MeterOfRow DEF PowerInv, MerInv, MerEquipped
  <2>3. MerCurrentsAreOwn /\ DaysAndMonthsAreOwn
    BY <2>2 DEF MerCurrentsAreOwn, DaysAndMonthsAreOwn, RowIsTrue, ValueIsOwn
  <2>4. HoursArePaired
    BY <2>2 DEF HoursArePaired, RowIsTrue, IsPaired
  <2>5. QED BY <2>1, <2>3, <2>4 DEF RowsAreOwn
<1>4. QED BY <1>1, <1>2, <1>3, PTL DEF PowerSpec

-----------------------------------------------------------------------------
(* A row with a date is the only one of its key; one with none is inserted *)
(* anew in every round.                                                    *)
KeyedDated(r) == \A w, x \in r : w.key = x.key /\ w.key.date # Void => w = x

LEMMA DatedCurrent ==
  ASSUME NEW r, NEW key, NEW value, KeyedDated(r) PROVE KeyedDated(StoreCurrent(r, key, value))
BY DEF KeyedDated, StoreCurrent, RowOf

LEMMA DatedArchive ==
  ASSUME NEW r, NEW key, NEW value, KeyedDated(r) PROVE KeyedDated(StoreArchive(r, key, value))
BY DEF KeyedDated, StoreArchive, RowOf

LEMMA DatedMonth ==
  ASSUME NEW kind, NEW value, KeyedDated(rows) PROVE KeyedDated(MerMonthStored(kind, value))
<1> DEFINE key == Key(Mer.dev, 0, kind, MonthDate(asked))
<1>1. CASE MonthDate(asked) = Void
  <2>1. key.date = Void
    BY <1>1 DEF Key
  <2>2. MerMonthStored(kind, value) = rows \cup {[key |-> key, value |-> value]}
    BY <1>1 DEF MerMonthStored
  <2> HIDE DEF key
  <2>3. QED BY <2>1, <2>2 DEF KeyedDated
<1>2. CASE MonthDate(asked) # Void
  <2>1. MerMonthStored(kind, value) = StoreArchive(rows, key, value)
    BY <1>2 DEF MerMonthStored, StoreArchiveOf
  <2> HIDE DEF key
  <2>2. QED BY <2>1, DatedArchive
<1>3. QED BY <1>1, <1>2

LEMMA DatedHour ==
  ASSUME KeyedDated(rows), NEW frame, rows' \in MerHour(frame) PROVE KeyedDated(rows')
<1>1. rows' = rows \/ \E key, value : rows' = StoreArchive(rows, key, value)
  BY DEF MerHour, StoreArchiveOf
<1>2. QED BY <1>1, DatedArchive

(* The tables have rows, and no walk of a SET-4TM is in the year that the  *)
(* count of the time begins with.                                          *)
PowerEquipped ==
  /\ {"mercury", "ce303", "ce102"} \subseteq DOMAIN Span /\ 0 \notin SetYears
  /\ MerTable # <<>> /\ CeTable # <<>> /\ DevCe # <<>>

ConnType == conn \in [MerMeters -> {"none", "up", "bus", "down"}]
OnLine(f) == f.what = "pointer" => f.n \in Nat

PowerTypes ==
  /\ driver \in {"mercury", "ce303", "ce102"} /\ now \in Span[driver] /\ rest \in 0 .. 2
  /\ budget \in 0 .. MaxFaults[driver] /\ left \in Nat \ {0} /\ KeyedDated(rows)
  /\ flying = <<>> \/ (flying = <<flying[1]>> /\ OnLine(flying[1]))
  /\ (\A d \in DOMAIN errors : errors[d] \in 0 .. MerLimit) /\ ConnType

PowerPlaces ==
  /\ driver = "mercury" =>
       /\ at \in 1 .. Len(MerTable) /\ DOMAIN errors = MerMeters
       /\ step \in 0 .. 9 /\ (pc = "info" => step \in 1 .. 7)
       /\ pc = "hour" => asked \in Nat /\ (Mer.type = "m230" => asked < MerPlaces)
  /\ driver = "ce303" => at \in 1 .. Len(CeTable) /\ step \in 1 .. 5
  /\ driver = "ce102" => at \in 1 .. Len(DevCe) /\ step = 0

LEMMA PowerBounds ==
  ASSUME PowerEquipped
  PROVE  /\ Len(MerTable) \in Nat \ {0} /\ Len(CeTable) \in Nat \ {0} /\ Len(DevCe) \in Nat \ {0}
         /\ Depth \in Nat \ {0} /\ MerLimit \in Nat \ {0} /\ MerPlaces \in Nat \ {0}
         /\ driver \in {"mercury", "ce303", "ce102"} =>
              MaxFaults[driver] \in Nat /\ Span[driver] \subseteq Nat
<1>1. Len(MerTable) \in Nat \ {0} /\ Len(CeTable) \in Nat \ {0} /\ Len(DevCe) \in Nat \ {0}
  BY MerAssumption, CeAssumption, DevCeAssumption DEF PowerEquipped
<1>2. QED BY <1>1, MerAssumption, HeatAssumption DEF PowerEquipped

(* A request and its read leave the line and the faults well-formed.       *)
LEMMA PowerHeard ==
  ASSUME PowerEquipped, PowerTypes, NEW answer, OnLine(answer), NEW got, Heard(answer, got)
  PROVE  /\ budget' \in 0 .. MaxFaults[driver]
         /\ flying' = <<>> \/ (flying' = <<flying'[1]>> /\ OnLine(flying'[1]))
         /\ got # <<>> => OnLine(got[1])
<1>1. budget \in 0 .. MaxFaults[driver] /\ MaxFaults[driver] \in Nat
  BY PowerBounds DEF PowerTypes
<1>2. budget' = budget \/ (budget > 0 /\ budget' = budget - 1)
  BY DEF Heard
<1>3. flying' = <<>> \/ flying' = <<answer>>
  BY DEF Heard
<1>4. got \in {flying \o <<>>, flying \o <<answer>>, flying \o <<Junk>>}
  BY DEF Heard
<1>5. OnLine(Junk)
  BY DEF OnLine, Junk, Frame
<1>6. got # <<>> => OnLine(got[1])
  <2>1. CASE flying = <<>>
    <3>1. got \in {<<>>, <<answer>>, <<Junk>>}
      BY <1>4, <2>1, InFront
    <3>2. got # <<>> => got[1] \in {answer, Junk}
      BY <3>1
    <3>3. QED BY <1>5, <3>2
  <2>2. CASE flying # <<>>
    <3>1. flying = <<flying[1]>> /\ OnLine(flying[1])
      BY <2>2 DEF PowerTypes
    <3>2. got[1] = flying[1]
      BY <1>4, <3>1, InFront
    <3>3. QED BY <3>1, <3>2
  <2>3. QED BY <2>1, <2>2
<1>7. flying' = <<>> \/ (flying' = <<flying'[1]>> /\ OnLine(flying'[1]))
  <2>1. CASE flying' = <<answer>>
    <3>1. flying'[1] = answer
      BY <2>1
    <3>2. QED BY <2>1, <3>1
  <2>2. QED BY <1>3, <2>1
<1>8. QED BY <1>1, <1>2, <1>6, <1>7

LEMMA MerHeardTypes ==
  ASSUME PowerEquipped, PowerTypes, driver = "mercury", NEW op, NEW got, MerHeard(op, got)
  PROVE  /\ budget' \in 0 .. MaxFaults[driver]
         /\ flying' = <<>> \/ (flying' = <<flying'[1]>> /\ OnLine(flying'[1]))
         /\ \A f \in MerTaken(got) : f = got[1] /\ OnLine(f)
<1>1. CASE Heard(MerSent(op), got)
  <2>1. now \in Nat
    BY PowerBounds DEF PowerTypes
  <2>2. OnLine(MerSent(op))
    <3>1. MerAnswer(op).what = "pointer" => MerAnswer(op).n \in {0, now}
      BY DEF MerAnswer, Block, Silence, Frame
    <3>2. QED BY <2>1, <3>1 DEF MerSent, OnLine, Silence, Refusal, Frame
  <2>3. QED BY <1>1, <2>2, PowerHeard DEF MerTaken
<1>2. CASE /\ budget > 0 /\ budget' = budget - 1 /\ got = Append(flying, Refusal) /\ flying' = <<>>
  <2>1. budget \in 0 .. MaxFaults[driver] /\ MaxFaults[driver] \in Nat
    BY PowerBounds DEF PowerTypes
  <2>2. OnLine(got[1])
    <3>1. CASE flying = <<>>
      <4>1. got[1] = Refusal
        BY <1>2, <3>1, Alone
      <4>2. QED BY <4>1 DEF OnLine, Refusal, Frame
    <3>2. CASE flying # <<>>
      <4>1. flying = <<flying[1]>> /\ OnLine(flying[1])
        BY <3>2 DEF PowerTypes
      <4>2. got = <<flying[1]>> \o <<Refusal>>
        BY <1>2, <4>1, Alone
      <4>3. got[1] = flying[1]
        BY <4>2, InFront
      <4>4. QED BY <4>1, <4>3
    <3>3. QED BY <3>1, <3>2
  <2>3. QED BY <1>2, <2>1, <2>2 DEF MerTaken
<1>3. QED BY <1>1, <1>2 DEF MerHeard

LEMMA MerErrorsStep ==
  ASSUME PowerEquipped, PowerTypes, PowerPlaces, driver = "mercury", MerNext
  PROVE  /\ DOMAIN errors' = MerMeters /\ ConnType'
         /\ \A d \in MerMeters : errors'[d] \in 0 .. MerLimit
<1>0. /\ at \in 1 .. Len(MerTable) /\ DOMAIN errors = MerMeters
      /\ (\A d \in DOMAIN errors : errors[d] \in 0 .. MerLimit) /\ ConnType
  BY DEF PowerTypes, PowerPlaces
<1>1. Mer.dev \in MerMeters
  BY <1>0, Member DEF Mer
<1>2. /\ \/ errors' = errors
         \/ errors' = [d \in MerMeters |-> 0]
         \/ errors' = [errors EXCEPT ![Mer.dev] = 0]
         \/ /\ errors[Mer.dev] + 1 <= MerLimit
            /\ errors' = [errors EXCEPT ![Mer.dev] = errors[Mer.dev] + 1]
      /\ \/ conn' = conn
         \/ \E link \in {"up", "bus", "down"} : conn' = [conn EXCEPT ![Mer.dev] = link]
  <2>1. CASE MerOpen
    <3>1. errors[Mer.dev] + 1 > MerLimit \/ errors[Mer.dev] + 1 <= MerLimit
      BY <1>0, <1>1, PowerBounds
    <3>2. QED BY <2>1, <3>1 DEF MerOpen
  <2>2. CASE MerInfo
    BY <2>2 DEF MerInfo
  <2>3. CASE MerTurn
    BY <2>3 DEF MerTurn, MerReload, MerLoaded
  <2>4. CASE MerPort \/ MerPointer \/ MerBlock \/ SetBlock \/ MerDay \/ MerMonth \/ MerCurrent
    BY <2>4 DEF MerPort, MerPointer, MerBlock, SetBlock, MerDay, MerMonth, MerCurrent, Unlinked
  <2>5. QED BY <2>1, <2>2, <2>3, <2>4 DEF MerNext
<1>3. errors[Mer.dev] + 1 <= MerLimit => errors[Mer.dev] + 1 \in 0 .. MerLimit
  BY <1>0, <1>1, PowerBounds
<1>4. DOMAIN errors' = MerMeters /\ \A d \in MerMeters : errors'[d] \in 0 .. MerLimit
  <2>1. 0 \in 0 .. MerLimit
    BY PowerBounds
  <2>2. QED BY <1>0, <1>1, <1>2, <1>3, <2>1
<1>5. ConnType'
  BY <1>0, <1>1, <1>2 DEF ConnType
<1>6. QED BY <1>4, <1>5

LEMMA MerTypesStep ==
  ASSUME PowerEquipped, PowerTypes, PowerPlaces, driver = "mercury", MerNext PROVE PowerTypes'
<1>1. /\ now \in Span[driver] /\ rest \in 0 .. 2 /\ left \in Nat \ {0} /\ KeyedDated(rows)
      /\ at \in 1 .. Len(MerTable) /\ DOMAIN errors = MerMeters
      /\ (\A d \in DOMAIN errors : errors[d] \in 0 .. MerLimit) /\ ConnType
  BY DEF PowerTypes, PowerPlaces
<1>2. driver' = driver /\ now' \in Span[driver] /\ rest' \in 0 .. 2
  <2>1. driver' = driver
    BY SameDriver DEF MerNext, MerPort, MerTurn, MerOpen, MerInfo, MerPointer, MerBlock, SetBlock,
                      MerDay, MerMonth, MerCurrent, MerFrame
  <2>2. UNCHANGED <<now, rest>> \/ (now' = now /\ RoundOver) \/ (now' = now /\ SameRound) \/ Passing
    BY DEF MerNext, MerPort, MerTurn, MerOpen, MerInfo, MerPointer, MerBlock, SetBlock,
           MerDay, MerMonth, MerCurrent
  <2>3. QED BY <1>1, <2>1, <2>2, RoundTypes DEF Passing
<1>3. /\ budget' \in 0 .. MaxFaults[driver]
      /\ flying' = <<>> \/ (flying' = <<flying'[1]>> /\ OnLine(flying'[1]))
  <2>1. \/ \E op, got : MerHeard(op, got)
        \/ UNCHANGED <<budget, flying>>
        \/ budget > 0 /\ budget' = budget - 1 /\ (flying' = <<>> \/ flying' = flying)
        \/ budget' = budget /\ flying' = <<>>
    <3>1. CASE MerPort
      BY <3>1 DEF MerPort, MerOpened
    <3>2. CASE MerTurn
      BY <3>2 DEF MerTurn, lineVars
    <3>3. CASE SetBlock
      BY <3>3 DEF SetBlock
    <3>4. CASE MerOpen \/ MerInfo \/ MerPointer \/ MerBlock \/ MerDay \/ MerMonth \/ MerCurrent
      BY <3>4 DEF MerOpen, MerInfo, MerPointer, MerBlock, MerDay, MerMonth, MerCurrent
    <3>5. QED BY <3>1, <3>2, <3>3, <3>4 DEF MerNext
  <2>2. budget \in 0 .. MaxFaults[driver] /\ MaxFaults[driver] \in Nat
    BY PowerBounds DEF PowerTypes
  <2>3. CASE \E op, got : MerHeard(op, got)
    BY <2>3, MerHeardTypes
  <2>4. CASE ~\E op, got : MerHeard(op, got)
    <3>1. flying' = <<>> \/ flying' = flying
      BY <2>1, <2>4
    <3>2. budget' = budget \/ (budget > 0 /\ budget' = budget - 1)
      BY <2>1, <2>4
    <3>3. QED BY <2>2, <3>1, <3>2 DEF PowerTypes
  <2>5. QED BY <2>3, <2>4
<1>4. left' \in Nat \ {0}
  <2>1. CASE SetBlock
    <3>1. \E matches \in 0 .. 1 : left' = IF Vsk(matches) > 0 THEN Vsk(matches) ELSE 1
      BY <2>1 DEF SetBlock
    <3>2. QED BY <1>1, <3>1 DEF Vsk
  <2>2. CASE ~SetBlock
    <3>1. left' \in {1, 2, Depth, left, left + 1} \/ (left > 1 /\ left' = left - 1)
      BY <2>2 DEF MerNext, MerPort, MerTurn, MerOpen, MerInfo, MerPointer, MerBlock,
                  MerDay, MerMonth, MerCurrent
    <3>2. QED BY <1>1, <3>1, PowerBounds
  <2>3. QED BY <2>1, <2>2
<1>5. KeyedDated(rows')
  <2>1. CASE MerBlock \/ SetBlock
    <3>1. rows' = rows \/ \E f : rows' \in MerHour(f)
      BY <2>1 DEF MerBlock, SetBlock
    <3>2. QED BY <1>1, <3>1, DatedHour
  <2>2. CASE MerDay
    <3>1. rows' = rows \/ \E k, v : rows' = StoreArchive(rows, k, v)
      BY <2>2 DEF MerDay, StoreArchiveOf
    <3>2. QED BY <1>1, <3>1, DatedArchive
  <2>3. CASE MerMonth
    <3>1. rows' = rows \/ \E k, v : rows' = MerMonthStored(k, v)
      BY <2>3 DEF MerMonth
    <3>2. QED BY <1>1, <3>1, DatedMonth
  <2>4. CASE MerCurrent
    <3>1. rows' = rows \/ \E k, v, l : rows' = StoreArchive(StoreCurrent(rows, k, v), l, v)
      BY <2>4 DEF MerCurrent, StoreArchiveOf, StoreCurrentOf
    <3>2. QED BY <1>1, <3>1, DatedCurrent, DatedArchive
  <2>5. CASE MerPort \/ MerTurn \/ MerOpen \/ MerInfo \/ MerPointer
    BY <1>1, <2>5 DEF MerPort, MerTurn, MerOpen, MerInfo, MerPointer
  <2>6. QED BY <2>1, <2>2, <2>3, <2>4, <2>5 DEF MerNext
<1>6. /\ DOMAIN errors' = MerMeters /\ ConnType'
      /\ \A d \in MerMeters : errors'[d] \in 0 .. MerLimit
  BY MerErrorsStep
<1>7. QED BY <1>1, <1>2, <1>3, <1>4, <1>5, <1>6 DEF PowerTypes

(* What the answer to the pointer's request says of the time is a place in *)
(* the ring, and the hour before it is none before the first.              *)
LEMMA PlaceAsked ==
  ASSUME PowerEquipped, NEW n \in Nat
  PROVE  /\ WalkStart(n) \in Nat /\ WalkStart(n) < MerPlaces
         /\ YearOf(n) \in SetYears => HourOf(n) - 1 \in Nat
<1>1. MerPlaces \in Nat \ {0}
  BY PowerBounds
<1>2. n % MerPlaces \in Nat /\ n % MerPlaces < MerPlaces
  BY <1>1
<1>3. WalkStart(n) \in Nat /\ WalkStart(n) < MerPlaces
  <2> DEFINE place == n % MerPlaces
  <2>1. \/ WalkStart(n) = place
        \/ place >= 2 /\ WalkStart(n) = place - 2
        \/ place >= 3 /\ WalkStart(n) = place - 3
    BY DEF WalkStart
  <2> HIDE DEF place
  <2>2. place \in Nat /\ place < MerPlaces
    BY <1>2 DEF place
  <2>3. QED BY <1>1, <2>1, <2>2
<1>4. ASSUME YearOf(n) \in SetYears PROVE HourOf(n) - 1 \in Nat
  <2>1. HourOf(n) \in Nat
    BY DEF HourOf
  <2>2. ASSUME HourOf(n) = 0 PROVE FALSE
    <3>1. 0 \div HoursPerDay = 0 /\ 0 \div DaysPerMonth = 0 /\ 0 \div MonthsPerYear = 0
      BY HeatAssumption, MerAssumption
    <3>2. YearOf(n) = 0
      BY <2>2, <3>1 DEF YearOf, MonthOf, DayOf
    <3>3. QED BY <1>4, <3>2 DEF PowerEquipped
  <2>3. QED BY <2>1, <2>2
<1>5. QED BY <1>3, <1>4

LEMMA MerPlacesStep ==
  ASSUME PowerEquipped, PowerTypes, PowerPlaces, driver = "mercury", MerNext PROVE PowerPlaces'
<1>1. driver' = "mercury"
  BY SameDriver DEF MerNext, MerPort, MerTurn, MerOpen, MerInfo, MerPointer, MerBlock, SetBlock,
                    MerDay, MerMonth, MerCurrent, MerFrame
<1>2. /\ at \in 1 .. Len(MerTable) /\ step \in 0 .. 9 /\ (pc = "info" => step \in 1 .. 7)
      /\ pc = "hour" => asked \in Nat /\ (Mer.type = "m230" => asked < MerPlaces)
  BY DEF PowerPlaces
<1>3. Len(MerTable) \in Nat \ {0} /\ MerPlaces \in Nat \ {0}
  BY PowerBounds
<1>4. at' \in 1 .. Len(MerTable)
  <2>1. CASE MerTurn
    BY <1>2, <1>3, <2>1 DEF MerTurn
  <2>2. CASE ~MerTurn
    BY <1>2, <2>2 DEF MerNext, MerPort, MerOpen, MerInfo, MerPointer, MerBlock, SetBlock,
                      MerDay, MerMonth, MerCurrent, MerFrame
  <2>3. QED BY <2>1, <2>2
<1>5. step' \in 0 .. 9 /\ (pc' = "info" => step' \in 1 .. 7)
  <2>1. CASE MerInfo
    <3>1. step \in 1 .. 7 /\ (InfoSteps[step] # "a" => step # 7)
      BY <1>2, <2>1 DEF MerInfo, InfoSteps
    <3>2. \/ step' = step
          \/ step' = 8 /\ pc' # "info"
          \/ InfoSteps[step] # "a" /\ step' = step + 1
      BY <2>1 DEF MerInfo
    <3>3. QED BY <1>2, <3>1, <3>2
  <2>2. CASE MerOpen
    <3>1. \E opened : IF opened THEN step' = 1
                      ELSE IF left < 3 THEN UNCHANGED <<pc, step>>
                      ELSE pc' = "turn" /\ UNCHANGED step
      BY <2>2 DEF MerOpen
    <3>2. pc = "open"
      BY <2>2 DEF MerOpen
    <3>3. QED BY <1>2, <3>1, <3>2
  <2>3. CASE ~MerInfo /\ ~MerOpen
    <3>1. pc' # "info" /\ step' \in {0, 9, step}
      BY <2>3 DEF MerNext, MerPort, MerTurn, MerPointer, MerBlock, SetBlock,
                  MerDay, MerMonth, MerCurrent, MerAgain
    <3>2. QED BY <1>2, <3>1
  <2>4. QED BY <2>1, <2>2, <2>3
<1>6. ASSUME pc' = "hour" PROVE asked' \in Nat /\ (Mer'.type = "m230" => asked' < MerPlaces)
  <2>1. CASE MerPointer
    <3>1. Mer' = Mer
      BY <2>1 DEF MerPointer, MerFrame, Mer
    <3>2. PICK got, f :
            /\ MerHeard("pointer", got) /\ f \in MerTaken(got)
            /\ f.what = "pointer" /\ (Mer.type = "set" => YearOf(f.n) \in SetYears)
            /\ asked' = IF Mer.type = "m230" THEN WalkStart(got[1].n) ELSE HourOf(got[1].n) - 1
      BY <1>6, <2>1 DEF MerPointer
    <3>3. f = got[1] /\ OnLine(f)
      BY <3>2, MerHeardTypes
    <3>4. got[1].n \in Nat
      BY <3>2, <3>3 DEF OnLine
    <3>5. Mer.type \in {"m230", "set"}
      <4> DEFINE Meters == [dev : Nat \ {0}, type : {"m230", "set"}, protocol : {13, 14}, early : BOOLEAN]
      <4>1. MerTable \in Seq(Meters) /\ at \in 1 .. Len(MerTable)
        BY <1>2, MerAssumption
      <4>2. MerTable[at] \in Meters
        <5> HIDE DEF Meters
        <5>1. QED BY <4>1
      <4>3. QED BY <4>2 DEF Mer
    <3>6. QED BY <3>1, <3>2, <3>3, <3>4, <3>5, PlaceAsked
  <2>2. CASE MerBlock
    <3>1. Mer' = Mer /\ asked' = WalkBack(asked) /\ asked \in Nat /\ asked < MerPlaces
      BY <1>2, <2>2 DEF MerBlock, MerFrame, Mer
    <3>2. QED BY <1>3, <3>1 DEF WalkBack
  <2>3. CASE SetBlock
    <3>1. Mer' = Mer /\ Mer.type = "set" /\ asked \in Nat
          /\ asked' = IF asked > 0 THEN asked - 1 ELSE 0
      BY <1>2, <2>3 DEF SetBlock, MerFrame, Mer
    <3>2. QED BY <3>1
  <2>4. CASE ~MerPointer /\ ~MerBlock /\ ~SetBlock
    BY <1>6, <2>4 DEF MerNext, MerPort, MerTurn, MerOpen, MerInfo, MerDay, MerMonth, MerCurrent, MerAgain
  <2>5. QED BY <2>1, <2>2, <2>3, <2>4
<1>7. DOMAIN errors' = MerMeters
  BY MerErrorsStep
<1>8. QED BY <1>1, <1>4, <1>5, <1>6, <1>7 DEF PowerPlaces

LEMMA CeTypesStep ==
  ASSUME PowerEquipped, PowerTypes, PowerPlaces, CeNext, UNCHANGED merVars
  PROVE  PowerTypes' /\ PowerPlaces'
<1>1. driver = "ce303" /\ driver' = "ce303" /\ now' = now /\ errors' = errors /\ conn' = conn
  BY DEF CeNext, CeInfo, CeCurrent, merVars
<1>2. /\ now \in Span[driver] /\ rest \in 0 .. 2 /\ left \in Nat \ {0} /\ KeyedDated(rows)
      /\ (\A d \in DOMAIN errors : errors[d] \in 0 .. MerLimit) /\ ConnType
      /\ at \in 1 .. Len(CeTable) /\ step \in 1 .. 5
  BY <1>1 DEF PowerTypes, PowerPlaces
<1>3. PICK got : Heard(CeAnswer, got)
  BY DEF CeNext, CeInfo, CeCurrent
<1>4. /\ budget' \in 0 .. MaxFaults[driver]
      /\ flying' = <<>> \/ (flying' = <<flying'[1]>> /\ OnLine(flying'[1]))
  <2>1. OnLine(CeAnswer)
    BY DEF OnLine, CeAnswer, Frame
  <2>2. QED BY <1>3, <2>1, PowerHeard
<1>5. CASE CeInfo
  <2>1. UNCHANGED <<rest, at, left, rows>> /\ (step' = 1 \/ (step # 5 /\ step' = step + 1))
    BY <1>5 DEF CeInfo
  <2>2. step' \in 1 .. 5
    BY <1>2, <2>1
  <2>3. ConnType'
    BY <1>1, <1>2 DEF ConnType
  <2>4. PowerTypes'
    BY <1>1, <1>2, <1>4, <2>1, <2>3 DEF PowerTypes
  <2>5. QED BY <1>1, <1>2, <2>1, <2>2, <2>4 DEF PowerPlaces
<1>6. CASE CeCurrent
  <2>1. step' = step /\ left' \in {1, left + 1} /\ (SameRound \/ RoundOver)
        /\ (at' = at \/ at' = 1 \/ (at < Len(CeTable) /\ at' = at + 1))
    BY <1>6 DEF CeCurrent
  <2>2. left' \in Nat \ {0} /\ rest' \in 0 .. 2
    BY <1>2, <2>1, RoundTypes
  <2>3. at' \in 1 .. Len(CeTable)
    BY <1>2, <2>1, PowerBounds
  <2>4. KeyedDated(rows')
    <3>1. rows' = rows \/ \E k, v : rows' = StoreCurrent(rows, k, v)
      BY <1>6 DEF CeCurrent, StoreCurrentOf
    <3>2. QED BY <1>2, <3>1, DatedCurrent
  <2>5. ConnType'
    BY <1>1, <1>2 DEF ConnType
  <2>6. PowerTypes'
    BY <1>1, <1>2, <1>4, <2>2, <2>4, <2>5 DEF PowerTypes
  <2>7. QED BY <1>1, <1>2, <2>1, <2>3, <2>6 DEF PowerPlaces
<1>7. QED BY <1>5, <1>6 DEF CeNext

LEMMA Ce102TypesStep ==
  ASSUME PowerEquipped, PowerTypes, PowerPlaces, Ce102Next, UNCHANGED merVars
  PROVE  PowerTypes' /\ PowerPlaces'
<1>1. driver = "ce102" /\ driver' = "ce102" /\ step' = step /\ errors' = errors /\ conn' = conn
  BY DEF Ce102Next, Ce102Current, Ce102Total, Ce102Hour, Ce102Stop, merVars
<1>2. /\ now \in Span[driver] /\ rest \in 0 .. 2 /\ left \in Nat \ {0} /\ KeyedDated(rows)
      /\ budget \in 0 .. MaxFaults[driver]
      /\ (\A d \in DOMAIN errors : errors[d] \in 0 .. MerLimit) /\ ConnType
      /\ at \in 1 .. Len(DevCe) /\ step = 0
  BY <1>1 DEF PowerTypes, PowerPlaces
<1>3. /\ budget' \in 0 .. MaxFaults[driver]
      /\ flying' = <<>> \/ (flying' = <<flying'[1]>> /\ OnLine(flying'[1]))
  <2>1. CASE Ce102Stop
    BY <1>2, <2>1 DEF Ce102Stop
  <2>2. CASE ~Ce102Stop
    <3>1. pc \in {"current", "total", "hour"} /\ \E got : Heard(Ce102Answer, got)
      BY <2>2 DEF Ce102Next, Ce102Current, Ce102Total, Ce102Hour
    <3>2. Ce102Answer.what # "pointer"
      BY <3>1 DEF Ce102Answer, Frame
    <3>3. QED BY <3>1, <3>2, PowerHeard DEF OnLine
  <2>3. QED BY <2>1, <2>2
<1>4. now' \in Span[driver] /\ rest' \in 0 .. 2
  <2>1. (UNCHANGED <<now, rest>>) \/ (now' = now /\ RoundOver)
        \/ (now + 1 \in Span[driver] /\ now' = now + 1 /\ rest' = 2)
    BY DEF Ce102Next, Ce102Current, Ce102Total, Ce102Hour, Ce102Stop
  <2>2. QED BY <1>2, <2>1, RoundTypes
<1>5. left' \in Nat \ {0} /\ at' \in 1 .. Len(DevCe)
  <2>1. left' \in {1, left, left + 1} /\ at' \in {1, at}
    BY DEF Ce102Next, Ce102Current, Ce102Total, Ce102Hour, Ce102Stop
  <2>2. QED BY <1>2, <2>1, PowerBounds
<1>6. KeyedDated(rows')
  <2>1. \/ rows' = rows
        \/ \E k, v : rows' = StoreCurrent(rows, k, v)
        \/ \E k, v : rows' = StoreArchive(rows, k, v)
    BY DEF Ce102Next, Ce102Current, Ce102Total, Ce102Hour, Ce102Stop
  <2>2. QED BY <1>2, <2>1, DatedCurrent, DatedArchive
<1>7. ConnType'
  BY <1>1, <1>2 DEF ConnType
<1>8. PowerTypes'
  BY <1>1, <1>2, <1>3, <1>4, <1>5, <1>6, <1>7 DEF PowerTypes
<1>9. QED BY <1>1, <1>2, <1>5, <1>8 DEF PowerPlaces

LEMMA WorldTypes ==
  ASSUME PowerEquipped, PowerTypes, PowerPlaces, PowerWorld \/ UNCHANGED powerVars
  PROVE  PowerTypes' /\ PowerPlaces'
<1>1. /\ UNCHANGED <<driver, pc, at, step, left, asked, rows, errors, flying, budget, conn>>
      /\ (now' = now /\ rest' = rest) \/ (now' \in Span[driver] /\ rest' = 2)
  BY DEF PowerWorld, Tick, Die, lineVars, merVars, powerVars, heatVars
<1>2. ConnType'
  BY <1>1 DEF ConnType, PowerTypes
<1>3. PowerTypes'
  BY <1>1, <1>2 DEF PowerTypes
<1>4. Mer' = Mer
  BY <1>1 DEF Mer
<1>5. QED BY <1>1, <1>3, <1>4 DEF PowerPlaces

LEMMA InitPowerTypes == ASSUME PowerEquipped, PowerInit PROVE PowerTypes /\ PowerPlaces
<1>1. PICK name, meters : name \in {"mercury", "ce303", "ce102"} /\ HeatInit(name, meters)
  BY DEF PowerInit, MerInit, CeInit, Ce102Init
<1>2. /\ driver = name /\ now \in Span[driver] /\ rest = 1 /\ at = 1 /\ flying = <<>> /\ rows = {}
      /\ budget \in 0 .. MaxFaults[driver] /\ \A d \in DOMAIN errors : errors[d] = 0
  BY <1>1 DEF HeatInit
<1>3. left = 1 /\ step \in {0, 1} /\ conn = [d \in MerMeters |-> "none"]
  BY DEF PowerInit, MerInit, CeInit, Ce102Init
<1>4. /\ driver = "mercury" => pc = "port" /\ DOMAIN errors = MerMeters
      /\ driver = "ce303" => step = 1
      /\ driver = "ce102" => step = 0
  BY DEF PowerInit, MerInit, CeInit, Ce102Init, HeatInit, MerLoaded
<1>5. PowerTypes
  <2>1. KeyedDated(rows)
    BY <1>2 DEF KeyedDated
  <2>2. \A d \in DOMAIN errors : errors[d] \in 0 .. MerLimit
    BY <1>2, PowerBounds
  <2>3. ConnType
    BY <1>3 DEF ConnType
  <2>4. QED BY <1>1, <1>2, <1>3, <2>1, <2>2, <2>3 DEF PowerTypes
<1>6. QED BY <1>1, <1>2, <1>3, <1>4, <1>5, PowerBounds DEF PowerPlaces

(* Each driver of the power meters stays in its tables, its walk in the    *)
(* ring and its counts below their bounds, no more than one answer is      *)
(* under way, and a row that has a date is the only one of its key.        *)
THEOREM PowerTyping == PowerEquipped => (PowerSpec => []PowerTypeOK)
<1> SUFFICES ASSUME PowerEquipped PROVE PowerSpec => []PowerTypeOK
  OBVIOUS
<1>1. PowerInit => PowerTypes /\ PowerPlaces
  BY InitPowerTypes
<1>2. PowerTypes /\ PowerPlaces /\ [PowerNext]_powerVars => PowerTypes' /\ PowerPlaces'
  <2> SUFFICES ASSUME PowerTypes, PowerPlaces, [PowerNext]_powerVars PROVE PowerTypes' /\ PowerPlaces'
    OBVIOUS
  <2>1. CASE MerNext
    <3>1. driver = "mercury"
      BY <2>1, SameDriver
    <3>2. QED BY <2>1, <3>1, MerTypesStep, MerPlacesStep
  <2>2. CASE CeNext /\ UNCHANGED merVars
    BY <2>2, CeTypesStep
  <2>3. CASE Ce102Next /\ UNCHANGED merVars
    BY <2>3, Ce102TypesStep
  <2>4. CASE PowerWorld \/ UNCHANGED powerVars
    BY <2>4, WorldTypes
  <2>5. QED BY <2>1, <2>2, <2>3, <2>4 DEF PowerNext, PowerDriver, PowerStopped
<1>3. PowerTypes /\ PowerPlaces => PowerTypeOK
  <2> SUFFICES ASSUME PowerTypes, PowerPlaces PROVE PowerTypeOK
    OBVIOUS
  <2>1. /\ driver \in {"mercury", "ce303", "ce102"} /\ now \in Span[driver] /\ rest \in 0 .. 2
        /\ \A w, x \in rows : w.key = x.key /\ w.key.date # Void => w = x
        /\ budget \in 0 .. MaxFaults[driver]
        /\ \A d \in DOMAIN errors : errors[d] \in 0 .. MerLimit
        /\ conn \in [MerMeters -> {"none", "up", "bus", "down"}]
    BY DEF PowerTypes, KeyedDated, ConnType
  <2>2. at \in 1 .. CASE driver = "mercury" -> Len(MerTable)
                      [] driver = "ce303" -> Len(CeTable)
                      [] driver = "ce102" -> Len(DevCe)
    BY DEF PowerTypes, PowerPlaces
  <2>3. left >= 1 /\ step \in 0 .. 9
    BY DEF PowerTypes, PowerPlaces
  <2>4. driver = "mercury" /\ pc = "hour" => asked >= 0 /\ (Mer.type = "m230" => asked < MerPlaces)
    BY DEF PowerPlaces
  <2>5. Len(flying) <= 1
    <3>1. flying = <<>> \/ flying = <<flying[1]>>
      BY DEF PowerTypes
    <3>2. Len(<<>>) = 0 /\ Len(<<flying[1]>>) = 1
      OBVIOUS
    <3>3. QED BY <3>1, <3>2
  <2>6. QED BY <2>1, <2>2, <2>3, <2>4, <2>5 DEF PowerTypeOK
<1>4. QED BY <1>1, <1>2, <1>3, PTL DEF PowerSpec
=============================================================================
