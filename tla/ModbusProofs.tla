---------------------------- MODULE ModbusProofs -----------------------------
(***************************************************************************)
(* The Modbus server, for any number of registers, clients and queries,    *)
(* and the drivers over libmodbus, for any tables, tries and faults.       *)
(***************************************************************************)
EXTENDS Modbus, SequenceTheorems, TLAPS

(* The first client is the only one the thread ever has, and between a     *)
(* refresh and a query the registers of values hold values.                *)
Serving ==
  /\ link \in {Self, NoLink, 1}
  /\ thread = "listen" => \A n \in Used : regs[n] # Written

ServerInv == SlaveTypeOK /\ Serving /\ ReadsAreMeasured /\ OneValueIsRefused

USE SlaveAssumption DEF Self, NoLink, Written, NoQuery

(* The bounds, apart from the rest.                                        *)
LEMMA Bounds ==
  SlaveTypeOK => /\ Clients \in Nat /\ came \in 0 .. Clients
                 /\ MaxVersion \in Nat /\ version \in 0 .. MaxVersion
BY DEF SlaveTypeOK

LEMMA InitServer == Init => ServerInv
BY DEF Init, SlaveInit, ServerInv, SlaveTypeOK, Serving, ReadsAreMeasured, OneValueIsRefused

(* What Serve needs of a query: it is one that is asked, or none.          *)
LEMMA Rewrites ==
  ASSUME NEW q \in Asks \cup {NoQuery}
  PROVE  /\ Rewritten(q).fn = q.fn
         /\ Rewritten(q).nb = (IF q.nb = Special THEN Size ELSE q.nb)
         /\ q.nb = Special => Rewritten(q).nb # Special
BY DEF Rewritten

LEMMA Manages ==
  ASSUME NEW q, NEW size
  PROVE  Managed(q, size) \in {"done", "refused", "silence"}
BY DEF Managed

(* How an answer is taken when it is not "as asked".                       *)
LEMMA Takes ==
  ASSUME NEW c, NEW q, NEW done, NEW values
  PROVE  /\ extra[c] => Understood(c, q, done, values).what = "junk"
         /\ done = "refused" => Understood(c, q, done, values).what \in {"junk", "exception"}
         /\ done = "done" /\ q.fn = "registers" /\ q.nb # query[c].nb
              => Understood(c, q, done, values).what \in {"junk", "quantity"}
BY DEF Understood

(* A query that is answered changes only its client's account, and the     *)
(* answer is never that of one value asked for.                            *)
LEMMA Served ==
  ASSUME SlaveTypeOK, Serving, OneValueIsRefused, ReadsAreMeasured, Serve
  PROVE  SlaveTypeOK' /\ Serving' /\ OneValueIsRefused' /\ ReadsAreMeasured' /\
         (reply'.to # reply.to => reply'.to = 1)
<1> DEFINE asked == query[link]
           q == Rewritten(asked)
           done == Managed(q, Size)
           range == IF q.fn = "single" THEN {q.adr}
                    ELSE {n \in 0 .. Size - 1 : q.adr <= n /\ n < q.adr + q.nb}
           values == IF q.fn = "registers" /\ done = "done"
                       THEN {regs[n] : n \in range \cap Used} ELSE {}
<1>1. link = 1 /\ 1 \in 1 .. Clients /\ thread = "listen" /\ asked \in Asks \cup {NoQuery}
  BY DEF Serve, Serving, SlaveTypeOK
<1>2. q.fn = asked.fn /\ (asked.nb = Special => q.nb # asked.nb)
  BY <1>1, Rewrites
<1>3. /\ thread' = "refresh" /\ UNCHANGED <<link, version, came>>
      /\ regs' \in [0 .. Size - 1 -> (0 .. MaxVersion) \cup {Written}]
      /\ query' \in [1 .. Clients -> Asks \cup {NoQuery}]
  <2>1. regs' = (IF q.fn \in {"multiple", "single"} /\ done = "done"
                   THEN [n \in DOMAIN regs |-> IF n \in range THEN Written ELSE regs[n]]
                   ELSE regs)
    BY DEF Serve
  <2>2. query' = (IF done = "silence" THEN [query EXCEPT ![link] = NoQuery] ELSE query)
    BY DEF Serve
  <2>3. regs' \in [0 .. Size - 1 -> (0 .. MaxVersion) \cup {Written}]
    BY <2>1 DEF SlaveTypeOK
  <2>4. query' \in [1 .. Clients -> Asks \cup {NoQuery}]
    BY <2>2 DEF SlaveTypeOK
  <2>5. QED BY <2>3, <2>4 DEF Serve
<1>4. CASE done = "silence"
  <2>1. UNCHANGED <<client, reply, extra>>
    BY <1>4 DEF Serve
  <2>2. QED BY <1>3, <2>1 DEF SlaveTypeOK, Serving, OneValueIsRefused, ReadsAreMeasured
<1>5. CASE done # "silence"
  <2>1. /\ client' = [client EXCEPT ![link] = "idle"]
        /\ reply' = Understood(link, q, done, values)
        /\ extra' = [extra EXCEPT ![link] =
                       @ \/ (done = "done" /\ q.fn = "registers" /\ q.nb # asked.nb)]
    BY <1>5 DEF Serve
  <2>2. reply'.to = 1 /\ reply'.asked = asked /\ reply'.values = values
    BY <1>1, <2>1 DEF Understood
  <2>3. SlaveTypeOK'
    BY <1>1, <1>3, <2>1, <2>2 DEF SlaveTypeOK
  <2>4. \A n \in range \cap Used : regs[n] # Written
    BY <1>1 DEF Serving
  <2>5. ReadsAreMeasured'
    BY <2>2, <2>4 DEF ReadsAreMeasured
  <2> HIDE SlaveAssumption DEF q, done, values
  <2>6. extra[1] => reply'.what = "junk"
    BY <1>1, <2>1, Takes
  <2>7. done = "done" /\ q.fn = "registers" /\ q.nb # asked.nb => reply'.what \in {"junk", "quantity"}
    BY <1>1, <2>1, Takes
  <2>8. done # "done" => reply'.what \in {"junk", "exception"}
    <3>1. done \in {"done", "refused", "silence"}
      BY Manages DEF done
    <3>2. QED BY <1>1, <1>5, <2>1, <3>1, Takes
  <2>9. OneValueIsRefused'
    <3>1. reply'.asked.fn = "registers" /\ reply'.asked.nb = Special => reply'.what # "as asked"
      BY <1>2, <2>2, <2>7, <2>8
    <3>2. ASSUME NEW c \in 1 .. Clients, extra'[c], reply'.to = c
          PROVE  reply'.what # "as asked"
      <4>1. c = 1
        BY <2>2, <3>2
      <4>2. extra[1] \/ (done = "done" /\ q.fn = "registers" /\ q.nb # asked.nb)
        BY <1>1, <2>1, <3>2, <4>1 DEF SlaveTypeOK
      <4>3. QED BY <2>6, <2>7, <4>2
    <3>3. QED BY <3>1, <3>2 DEF OneValueIsRefused
  <2>10. Serving'
    BY <1>3 DEF Serving
  <2>11. QED BY <2>2, <2>3, <2>5, <2>9, <2>10
<1>6. QED BY <1>4, <1>5

LEMMA StepServer ==
  ServerInv /\ [Next]_vars
    => ServerInv' /\ (reply'.to # reply.to => reply'.to = 1)
<1> SUFFICES ASSUME ServerInv, [Next]_vars
             PROVE  ServerInv' /\ (reply'.to # reply.to => reply'.to = 1)
  OBVIOUS
<1> USE DEF ServerInv, SlaveTypeOK, Serving, ReadsAreMeasured, OneValueIsRefused
<1>0. /\ Clients \in Nat /\ came \in 0 .. Clients
      /\ MaxVersion \in Nat /\ version \in 0 .. MaxVersion
  BY Bounds
<1>1. CASE Server
  <2>1. CASE Accept
    <3>1. 1 \in 1 .. Clients
      <4> came > 0
        BY <2>1 DEF Accept
      <4> HIDE SlaveAssumption DEF ServerInv, SlaveTypeOK, Serving, ReadsAreMeasured, OneValueIsRefused
      <4>1. QED BY <1>0
    <3>2. link' = 1 /\ thread' = "refresh"
          /\ UNCHANGED <<regs, version, came, client, query, extra, reply>>
      BY <2>1 DEF Accept
    <3>3. QED BY <3>1, <3>2
  <2>2. CASE Refresh
    <3>1. thread' = "listen" /\ UNCHANGED <<link, version, came, client, query, extra, reply>>
      BY <2>2 DEF Refresh
    <3>2. regs' = [n \in 0 .. Size - 1 |-> IF n \in Used THEN version ELSE regs[n]]
      BY <2>2 DEF Refresh, LoadData
    <3>3. regs' \in [0 .. Size - 1 -> (0 .. MaxVersion) \cup {Written}]
      BY <3>2
    <3>4. \A n \in Used : regs'[n] # Written
      <4> Used \subseteq 0 .. Size - 1
        OBVIOUS
      <4> HIDE SlaveAssumption DEF ServerInv, SlaveTypeOK, Serving, ReadsAreMeasured, OneValueIsRefused
      <4>1. QED BY <1>0, <3>2
    <3>5. QED BY <3>1, <3>3, <3>4
  <2>3. CASE Serve
    <3>1. SlaveTypeOK' /\ Serving' /\ OneValueIsRefused' /\ ReadsAreMeasured' /\
          (reply'.to # reply.to => reply'.to = 1)
      <4> HIDE DEF ServerInv, SlaveTypeOK, Serving, ReadsAreMeasured, OneValueIsRefused
      <4>1. QED BY <2>3, Served DEF ServerInv
    <3> HIDE DEF SlaveTypeOK, Serving, ReadsAreMeasured, OneValueIsRefused
    <3>2. QED BY <3>1
  <2>4. CASE Quiet
    BY <2>4 DEF Quiet
  <2>5. CASE HungUp
    BY <2>5 DEF HungUp
  <2>6. CASE BrokenOff
    BY <2>6 DEF BrokenOff
  <2>7. QED BY <1>1, <2>1, <2>2, <2>3, <2>4, <2>5, <2>6 DEF Server
<1>2. CASE Connect
  <2>1. came' \in 0 .. Clients
    <3> came < Clients /\ came' = came + 1
      BY <1>2 DEF Connect
    <3> HIDE SlaveAssumption DEF ServerInv, SlaveTypeOK, Serving, ReadsAreMeasured, OneValueIsRefused
    <3>1. QED BY <1>0
  <2>2. client' \in [1 .. Clients -> {"absent", "idle", "waiting", "closed", "reset"}]
    BY <1>2 DEF Connect
  <2>3. UNCHANGED <<thread, link, regs, version, query, extra, reply>>
    BY <1>2 DEF Connect
  <2>4. QED BY <2>1, <2>2, <2>3
<1>3. CASE Ask
  BY <1>3 DEF Ask
<1>4. CASE Leave
  BY <1>4 DEF Leave
<1>5. CASE Measure
  <2>1. version' \in 0 .. MaxVersion
    <3> version < MaxVersion /\ version' = version + 1
      BY <1>5 DEF Measure
    <3> HIDE SlaveAssumption DEF ServerInv, SlaveTypeOK, Serving, ReadsAreMeasured, OneValueIsRefused
    <3>1. QED BY <1>0
  <2>2. UNCHANGED <<thread, link, regs, came, client, query, extra, reply>>
    BY <1>5 DEF Measure
  <2>3. QED BY <2>1, <2>2
<1>6. CASE UNCHANGED slaveVars
  BY <1>6 DEF slaveVars
<1>7. QED
  BY <1>1, <1>2, <1>3, <1>4, <1>5, <1>6 DEF Next, MasterStep, ServerStep, World, Ended, vars, slaveVars

(* A read never brings what a client has written into the registers, and a *)
(* query for one value, that is for two registers, never brings it, nor do *)
(* the queries of the same client after one (modbus_slave.cpp:66, :131).   *)
THEOREM ServerReplies == Spec => []RepliesAreTrue
<1>1. ServerInv /\ [Next]_vars => ServerInv'
  BY StepServer
<1>2. ServerInv => RepliesAreTrue
  BY DEF ServerInv, RepliesAreTrue
<1>3. QED BY InitServer, <1>1, <1>2, PTL DEF Spec

(* However many clients connect, none but the first is answered.           *)
THEOREM ServerHasOneClient == Spec => OnlyFirstClient
<1> DEFINE First == reply'.to # reply.to => reply'.to = 1
<1>1. ServerInv /\ [Next]_vars => ServerInv'
  BY StepServer
<1>2. ServerInv /\ [Next]_vars => [First]_slaveVars
  BY StepServer
<1>3. QED BY InitServer, <1>1, <1>2, PTL DEF Spec, OnlyFirstClient

-----------------------------------------------------------------------------
(* Bytes of no frame, and of one.                                          *)
LEMMA TotalNone == Total(<<>>) = 0
<1> DEFINE Sums(s) == s = [n \in 0 .. Len(<<>>) |-> IF n = 0 THEN 0 ELSE s[n - 1] + <<>>[n].len]
<1>1. Sums([n \in 0 .. 0 |-> 0])
  OBVIOUS
<1>2. Sums(CHOOSE s : Sums(s))
  BY <1>1, Zenon
<1>3. Total(<<>>) = (CHOOSE s : Sums(s))[Len(<<>>)]
  BY Zenon DEF Total
<1> HIDE DEF Sums
<1>4. QED BY <1>2, <1>3 DEF Sums

LEMMA TotalOne == ASSUME NEW f, f.len \in Nat PROVE Total(<<f>>) = f.len
<1> DEFINE Sums(s) ==
      s = [n \in 0 .. Len(<<f>>) |-> IF n = 0 THEN 0 ELSE s[n - 1] + <<f>>[n].len]
<1>1. Sums([n \in 0 .. 1 |-> IF n = 0 THEN 0 ELSE f.len])
  OBVIOUS
<1>2. Sums(CHOOSE s : Sums(s))
  BY <1>1, Zenon
<1>3. Total(<<f>>) = (CHOOSE s : Sums(s))[Len(<<f>>)]
  BY Zenon DEF Total
<1> DEFINE sum == CHOOSE s : Sums(s)
<1>4. Sums(sum)
  BY <1>2
<1> HIDE DEF sum
<1>5. sum[0] = 0 /\ sum[1] = sum[0] + f.len
  BY <1>4
<1>6. QED BY <1>3, <1>5 DEF sum

(* What the driver asks: a positive number of registers, read or written.  *)
Queries == [fn : {"registers", "multiple"}, nb : Nat \ {0}]

LEMMA Needs ==
  ASSUME NEW ask \in Queries
  PROVE  Expected(ask) \in Nat /\ Expected(ask) >= 7
BY DEF Queries, Expected

(* Nothing read, the answer read alone, and the refusal read alone.        *)
LEMMA Received ==
  ASSUME NEW ask \in Queries, NEW of
  PROVE  LET nothing == Receive(ask, <<>>)
             answer == Receive(ask, <<Answer(ask, of)>>)
             refusal == Receive(ask, <<Refusal(ask)>>)
         IN  /\ nothing.ret = TimeOut /\ nothing.port = <<>> /\ nothing.cut = <<>>
             /\ answer.ret = ask.nb /\ answer.of = of /\ answer.port = <<>> /\ answer.cut = <<>>
             /\ refusal.ret \in {TimeOut, Exception} /\ refusal.port = <<>> /\ refusal.cut = <<>>
<1>1. /\ Receive(ask, <<>>).ret = TimeOut /\ Receive(ask, <<>>).port = <<>>
      /\ Receive(ask, <<>>).cut = <<>>
  <2>1. Total(<<>>) < Expected(ask)
    BY TotalNone, Needs
  <2>2. Len(<<>>) # 1
    OBVIOUS
  <2>3. QED BY <2>1, <2>2 DEF Receive
<1>2. /\ Receive(ask, <<Refusal(ask)>>).ret \in {TimeOut, Exception}
      /\ Receive(ask, <<Refusal(ask)>>).port = <<>>
      /\ Receive(ask, <<Refusal(ask)>>).cut = <<>>
  <2>1. Total(<<Refusal(ask)>>) < Expected(ask)
    BY TotalOne, Needs DEF Refusal
  <2>2. QED BY <2>1 DEF Receive
<1>3. LET answer == Receive(ask, <<Answer(ask, of)>>)
      IN  answer.ret = ask.nb /\ answer.of = of /\ answer.port = <<>> /\ answer.cut = <<>>
  <2> DEFINE f == Answer(ask, of)
             r == Receive(ask, <<f>>)
  <2>1. /\ f.len = Expected(ask) /\ f.good /\ ~f.exc /\ f.fn = ask.fn /\ f.nb = ask.nb
        /\ f.of = of
    BY DEF Answer
  <2>2. Total(<<f>>) = Expected(ask)
    BY <2>1, TotalOne, Needs
  <2>3. ~(Total(<<f>>) < Expected(ask))
    BY <2>2, Needs
  <2> HIDE DEF f
  <2>4. Head(<<f>>) = f /\ Tail(<<f>>) = <<>> /\ SumRight(<<f>>)
    BY <2>1 DEF SumRight
  <2>5. Result(ask, f) = ask.nb
    BY <2>1 DEF Result
  <2>6. r.ret = ask.nb /\ r.of = of /\ r.port = <<>> /\ r.cut = <<>>
    BY <2>1, <2>3, <2>4, <2>5 DEF Receive
  <2>7. QED BY <2>6 DEF f
<1>4. QED BY <1>1, <1>2, <1>3

(* A failed call is one fault more.                                        *)
Counted(c, present) == c.ret < 0 /\ open /\ present => c.faults = faults + 1

(* A call over a quiet line that brings no late or garbled answer: it      *)
(* brings what was asked for, or it has failed and is counted, and the     *)
(* line is quiet again.                                                    *)
LEMMA QuietCall ==
  ASSUME NEW ask \in Queries, NEW of, NEW present \in BOOLEAN,
         NEW c \in Calls(ask, of, present)
  PROVE  (port = <<>> /\ underway = <<>> /\ hurt = FALSE /\ open \in BOOLEAN /\ ~c.hurt) =>
         /\ c.port = <<>> /\ c.underway = <<>>
         /\ c.ret >= 0 => open /\ c.of = of /\ c.hears
         /\ Counted(c, present)
<1> HAVE port = <<>> /\ underway = <<>> /\ hurt = FALSE /\ open \in BOOLEAN /\ ~c.hurt
<1>1. CASE ~open
  BY <1>1 DEF Calls, Failure, Counted
<1>2. CASE open
  <2> DEFINE silence == [fault |-> "none", hears |-> TRUE, frame |-> <<>>, late |-> FALSE]
             outcome(f, missed) ==
               LET waits == f.late \/ FALSE
                   r == Receive(ask, IF waits THEN <<>> ELSE f.frame)
               IN  [ret |-> r.ret, of |-> r.of, port |-> r.port, hears |-> f.hears,
                    underway |-> IF waits THEN f.frame ELSE IF missed THEN r.cut ELSE <<>>,
                    faults |-> IF f.fault \in {"none", "garbled"} THEN faults ELSE faults + 1,
                    hurt |-> FALSE \/ f.fault \in {"garbled", "late"}]
  <2>1. PICK f, missed :
          /\ f \in Fates(ask, of) \/ (~present /\ f = silence)
          /\ missed \in BOOLEAN /\ c = outcome(f, missed)
    BY <1>2 DEF Calls
  <2> DEFINE fate(g, hears, frame, late) ==
               [fault |-> g, hears |-> hears, frame |-> frame, late |-> late]
  <2>2. f.fault \notin {"garbled", "late"}
    BY <2>1
  <2>3. f \in {fate("none", TRUE, <<Answer(ask, of)>>, FALSE),
               fate("unheard", FALSE, <<>>, FALSE),
               fate("lost", TRUE, <<>>, FALSE),
               fate("refused", FALSE, <<Refusal(ask)>>, FALSE)} \/ (~present /\ f = silence)
    BY <2>1, <2>2 DEF Fates
  <2>4. ~f.late
    BY <2>3
  <2> DEFINE r == Receive(ask, f.frame)
  <2>5. /\ c.ret = r.ret /\ c.of = r.of /\ c.port = r.port /\ c.hears = f.hears
        /\ c.underway = (IF missed THEN r.cut ELSE <<>>)
        /\ c.faults = (IF f.fault \in {"none", "garbled"} THEN faults ELSE faults + 1)
    BY <2>1, <2>4
  <2>6. CASE f = fate("none", TRUE, <<Answer(ask, of)>>, FALSE)
    <3>1. r = Receive(ask, <<Answer(ask, of)>>) /\ f.hears /\ f.fault = "none"
      BY <2>6
    <3> HIDE DEF r
    <3>2. r.ret >= 0 /\ ~(r.ret < 0) /\ r.of = of /\ r.port = <<>> /\ r.cut = <<>>
      <4>1. r.ret = ask.nb
        BY <3>1, Received
      <4>2. ask.nb >= 0 /\ ~(ask.nb < 0)
        BY DEF Queries
      <4>3. r.of = of /\ r.port = <<>> /\ r.cut = <<>>
        BY <3>1, Received
      <4>4. QED BY <4>1, <4>2, <4>3
    <3>3. QED BY <1>2, <2>1, <2>5, <3>1, <3>2 DEF Counted
  <2>7. CASE f.frame \in {<<>>, <<Refusal(ask)>>} /\ (f.fault \in {"unheard", "lost", "refused"} \/ ~present)
    <3>1. r \in {Receive(ask, <<>>), Receive(ask, <<Refusal(ask)>>)}
      BY <2>7
    <3> HIDE DEF r
    <3>2. r.ret \in {TimeOut, Exception} /\ r.port = <<>> /\ r.cut = <<>>
      BY <3>1, Received
    <3>3. r.ret < 0 /\ ~(r.ret >= 0)
      BY <3>2 DEF TimeOut, Exception
    <3>4. c.faults \in {faults, faults + 1} /\ (present => c.faults = faults + 1)
      BY <2>5, <2>7
    <3>5. QED BY <2>1, <2>5, <3>2, <3>3, <3>4 DEF Counted
  <2>8. QED BY <2>3, <2>6, <2>7
<1>3. QED BY <1>1, <1>2

(* Before a read the device has been told what is to be read, unless there *)
(* have been too many failures or a late or garbled answer.                *)
Calm == faults < Tries /\ ~hurt

LossInv ==
  /\ driver \in {"elf", "karat"} /\ open \in BOOLEAN /\ hurt \in BOOLEAN
  /\ faults \in Nat /\ tries \in Nat \ {0} /\ step \in Nat \ {0}
  /\ pc \in {"greet", "preset", "fetch"}
  /\ DOMAIN selected = Numbers
  /\ driver = "elf" =>
       /\ step \in 1 .. 3
       /\ at \in 1 .. IF pc = "greet" THEN Len(ElfTable) ELSE Len(ElfPolled)
  /\ ~hurt => port = <<>> /\ underway = <<>>
  /\ Calm =>
       /\ \A w \in rows : Sound(w)
       /\ driver = "elf" /\ pc = "preset" /\ open => faults >= Tries - tries
       /\ driver = "elf" /\ pc = "fetch" /\ open =>
            selected[ElfPolled[at].device].kind = ElfKinds[step]

(* There is an ELF, on a circuit that is polled, and those polled are of   *)
(* the table (what SelectSeq does, whose definition the provers do not     *)
(* have).                                                                  *)
ElfOnLine ==
  /\ Len(ElfTable) \in Nat \ {0} /\ Len(ElfPolled) \in Nat \ {0}
  /\ \A n \in 1 .. Len(ElfPolled) : ElfPolled[n].device \in Numbers

(* A call, whatever comes of it.                                           *)
LEMMA AnyCall ==
  ASSUME LossInv, NEW ask \in Queries, NEW of, NEW present \in BOOLEAN,
         NEW c \in Calls(ask, of, present), Took(c)
  PROVE  /\ hurt' \in BOOLEAN /\ (hurt => hurt') /\ c.ret \in Int
         /\ faults' \in Nat /\ faults' >= faults
         /\ ~hurt' => /\ port' = <<>> /\ underway' = <<>>
                      /\ c.ret >= 0 => open /\ c.of = of /\ c.hears
                      /\ c.ret < 0 /\ open /\ present => faults' = faults + 1
<1>1. c.faults \in {faults, faults + 1} /\ c.hurt \in BOOLEAN /\ (hurt => c.hurt)
  BY DEF Calls, LossInv
<1>2. hurt' = c.hurt /\ faults' = c.faults /\ port' = c.port /\ underway' = c.underway
  BY DEF Took
<1>3. faults' \in Nat /\ faults' >= faults
  BY <1>1, <1>2 DEF LossInv
<1>4. ASSUME ~hurt'
      PROVE  /\ port' = <<>> /\ underway' = <<>>
             /\ c.ret >= 0 => open /\ c.of = of /\ c.hears
             /\ c.ret < 0 /\ open /\ present => faults' = faults + 1
  <2>1. hurt = FALSE /\ port = <<>> /\ underway = <<>> /\ open \in BOOLEAN /\ ~c.hurt
    BY <1>1, <1>2, <1>4 DEF LossInv
  <2>2. /\ c.port = <<>> /\ c.underway = <<>>
        /\ c.ret >= 0 => open /\ c.of = of /\ c.hears
        /\ c.ret < 0 /\ open /\ present => c.faults = faults + 1
    <3>1. c.port = <<>>
      BY <2>1, QuietCall, Zenon
    <3>2. c.underway = <<>>
      BY <2>1, QuietCall, Zenon
    <3>3. c.ret >= 0 => open /\ c.of = of /\ c.hears
      BY <2>1, QuietCall, Zenon
    <3>4. Counted(c, present)
      BY <2>1, QuietCall, Zenon
    <3>5. QED BY <3>1, <3>2, <3>3, <3>4 DEF Counted
  <2>3. QED BY <1>2, <2>2
<1>5. c.ret \in Int
  <2>1. \A stream : Receive(ask, stream).ret \in Int
    BY DEF Receive, Result, Queries, TimeOut, Exception, Illegal
  <2>2. QED BY <2>1 DEF Calls, Failure
<1>6. QED BY <1>1, <1>2, <1>3, <1>4, <1>5

(* A record of the device and the kind that are meant makes a sound row.   *)
LEMMA SoundRow ==
  ASSUME NEW c, NEW d, NEW kind, NEW date, c.of = Reading(d, kind, date),
         \A w \in rows : Sound(w), rows' \in Kept(c, d, kind)
  PROVE  \A w \in rows' : Sound(w)
<1> DEFINE key == [dev |-> d, kind |-> kind, date |-> Stamp(kind, c.of.date)]
           new == [key |-> key, value |-> c.of]
<1>1. c.of # Junk
  BY DEF Reading, Junk
<1>2. rows' \in {StoreCurrent(rows, key, c.of), StoreArchive(rows, key, c.of)}
  BY <1>1 DEF Kept
<1>3. rows' \subseteq rows \cup {new}
  BY <1>2 DEF StoreCurrent, StoreArchive
<1>4. Sound(new)
  BY DEF Sound, Reading
<1> HIDE DEF new
<1>5. QED BY <1>3, <1>4

(* The order of the calls.                                                 *)
LEMMA Onwards ==
  ASSUME LossInv, NEW kinds, Len(kinds) \in Nat \ {0}, NEW last, NEW unset,
         Onward(kinds, last, unset)
  PROVE  /\ tries' = Tries
         /\ step' \in 1 .. Len(kinds) \/ step' = step
         /\ last \in Nat \ {0} /\ at \in 1 .. last => at' \in 1 .. last
         /\ pc' \in {"fetch", "preset"} /\ (unset = {} => pc' = "preset")
<1>1. step' = step \/ step' = (step % Len(kinds)) + 1
  BY DEF Onward
<1>2. (step % Len(kinds)) + 1 \in 1 .. Len(kinds)
  BY DEF LossInv
<1>3. at' = at \/ at' = (at % last) + 1
  BY DEF Onward
<1>4. last \in Nat \ {0} /\ at \in 1 .. last => (at % last) + 1 \in 1 .. last
  OBVIOUS
<1>5. QED BY <1>1, <1>2, <1>3, <1>4 DEF Onward

LEMMA GreetElf == ElfOnLine /\ LossInv /\ ElfGreet => LossInv'
<1> SUFFICES ASSUME ElfOnLine, LossInv, ElfGreet PROVE LossInv'
  OBVIOUS
<1>1. \E ask \in Queries, present \in BOOLEAN : \E c \in Calls(ask, Junk, present) : Took(c)
  <2> DEFINE ask == ReadRegisters(IF left = 1 THEN 4 ELSE 3)
  <2>1. ask \in Queries /\ ElfPresent(ElfTable[at]) \in BOOLEAN
    BY DEF ElfPresent, ReadRegisters, Query, Queries
  <2>2. \E c \in Calls(ask, Junk, ElfPresent(ElfTable[at])) : Took(c)
    BY DEF ElfGreet
  <2> HIDE DEF ask
  <2>3. QED BY <2>1, <2>2
<1>2. /\ hurt' \in BOOLEAN /\ (hurt => hurt') /\ faults' \in Nat /\ faults' >= faults
      /\ ~hurt' => port' = <<>> /\ underway' = <<>>
  BY <1>1, AnyCall, Zenon
<1>3. /\ driver' = driver /\ driver = "elf" /\ open' = open /\ step' = step
      /\ selected' = selected /\ rows' = rows
      /\ pc = "greet" /\ pc' \in {"greet", "preset"}
      /\ pc' = "preset" => tries' = Tries
      /\ pc' # "preset" => tries' = tries
  BY DEF ElfGreet
<1>4. at' \in 1 .. IF pc' = "greet" THEN Len(ElfTable) ELSE Len(ElfPolled)
  <2>1. at \in 1 .. Len(ElfTable)
    BY <1>3 DEF LossInv
  <2>2. at' = at \/ at' = (at % Len(ElfTable)) + 1
    BY DEF ElfGreet
  <2>3. pc' = "preset" => at = Len(ElfTable) /\ at' = (at % Len(ElfTable)) + 1
    BY <1>3, <2>1 DEF ElfGreet, ElfOnLine
  <2>4. (at % Len(ElfTable)) + 1 \in 1 .. Len(ElfTable)
    BY <2>1 DEF ElfOnLine
  <2>5. at = Len(ElfTable) => at % Len(ElfTable) = 0
    BY <2>1 DEF ElfOnLine
  <2>6. QED BY <1>3, <2>1, <2>2, <2>3, <2>4, <2>5 DEF ElfOnLine
<1>5. Calm' => Calm
  BY <1>2, MasterAssumption DEF Calm, LossInv
<1>6. (\A w \in rows : Sound(w)) => (\A w \in rows : Sound(w))'
  BY <1>3 DEF Sound
<1>7. QED BY <1>2, <1>3, <1>4, <1>5, <1>6, MasterAssumption DEF LossInv, Calm

LEMMA PresetElf == ElfOnLine /\ LossInv /\ ElfPreset => LossInv'
<1> SUFFICES ASSUME ElfOnLine, LossInv, ElfPreset PROVE LossInv'
  OBVIOUS
<1> DEFINE device == ElfPolled[at].device
           wanted == [kind |-> ElfKinds[step],
                      date |-> Asked(ElfKinds[step], Depth[ElfKinds[step]] - left + 1)]
<1>1. PICK c \in Calls(PresetRegisters(7), Junk, TRUE) :
        /\ Took(c)
        /\ selected' = IF c.hears THEN [selected EXCEPT ![device] = wanted] ELSE selected
        /\ IF c.ret >= 0 \/ tries = 1
             THEN pc' = "fetch" /\ tries' = Tries
             ELSE tries' = tries - 1 /\ pc' = pc
  BY DEF ElfPreset
<1>2. PresetRegisters(7) \in Queries
  BY DEF PresetRegisters, Query, Queries
<1>3. /\ hurt' \in BOOLEAN /\ (hurt => hurt') /\ faults' \in Nat /\ faults' >= faults
      /\ ~hurt' => port' = <<>> /\ underway' = <<>>
      /\ c.ret \in Int
      /\ ~hurt' /\ c.ret >= 0 => c.hears
      /\ ~hurt' /\ c.ret < 0 /\ open => faults' = faults + 1
  BY <1>1, <1>2, AnyCall
<1>4. /\ driver' = driver /\ driver = "elf" /\ open' = open /\ step' = step
      /\ at' = at /\ rows' = rows /\ pc = "preset"
  BY DEF ElfPreset
<1>5. at \in 1 .. Len(ElfPolled) /\ device \in DOMAIN selected /\ tries \in Nat \ {0}
  BY <1>4 DEF LossInv, ElfOnLine
<1>6. Calm' => Calm
  BY <1>3, MasterAssumption DEF Calm, LossInv
<1>7. (\A w \in rows : Sound(w)) => (\A w \in rows : Sound(w))'
  BY <1>4 DEF Sound
<1>8. DOMAIN selected' = Numbers /\ (c.hears => selected'[device].kind = ElfKinds[step])
  BY <1>1, <1>5 DEF LossInv
<1> HIDE DEF device, wanted
<1>9. CASE c.ret >= 0
  <2>1. pc' = "fetch" /\ tries' = Tries /\ (Calm' => selected'[device].kind = ElfKinds[step])
    BY <1>1, <1>3, <1>8, <1>9 DEF Calm
  <2>2. QED BY <1>3, <1>4, <1>5, <1>6, <1>7, <1>8, <2>1, MasterAssumption DEF LossInv, device
<1>10. CASE c.ret < 0 /\ tries = 1
  <2>1. pc' = "fetch" /\ tries' = Tries
    BY <1>1, <1>10
  <2>2. ~(Calm' /\ open)
    BY <1>3, <1>4, <1>6, <1>10, MasterAssumption DEF Calm, LossInv
  <2>3. QED BY <1>3, <1>4, <1>5, <1>6, <1>7, <1>8, <2>1, <2>2, MasterAssumption DEF LossInv
<1>11. CASE c.ret < 0 /\ tries # 1
  <2>1. pc' = pc /\ tries' = tries - 1
    BY <1>1, <1>3, <1>11
  <2>2. Calm' /\ open => faults' >= Tries - tries'
    BY <1>3, <1>4, <1>5, <1>6, <1>11, <2>1, MasterAssumption DEF Calm, LossInv
  <2>3. QED BY <1>3, <1>4, <1>5, <1>6, <1>7, <1>8, <1>11, <2>1, <2>2, MasterAssumption DEF LossInv
<1>12. QED BY <1>3, <1>9, <1>10, <1>11

LEMMA FetchElf == ElfOnLine /\ LossInv /\ ElfFetch => LossInv'
<1> SUFFICES ASSUME ElfOnLine, LossInv, ElfFetch PROVE LossInv'
  OBVIOUS
<1> DEFINE device == ElfPolled[at].device
           there == selected[device]
           of == Reading(device, there.kind, there.date)
<1>1. PICK c \in Calls(ReadRegisters(80), of, TRUE) :
        /\ Took(c)
        /\ IF c.ret >= 0 THEN rows' \in Kept(c, device, ElfKinds[step]) ELSE rows' = rows
        /\ IF c.ret >= 0 \/ tries = 1
             THEN Onward(ElfKinds, Len(ElfPolled), {})
             ELSE tries' = tries - 1 /\ pc' = pc /\ at' = at /\ step' = step
  BY DEF ElfFetch
<1>2. ReadRegisters(80) \in Queries
  BY DEF ReadRegisters, Query, Queries
<1>3. /\ hurt' \in BOOLEAN /\ (hurt => hurt') /\ faults' \in Nat /\ faults' >= faults
      /\ ~hurt' => port' = <<>> /\ underway' = <<>>
      /\ c.ret \in Int
      /\ ~hurt' /\ c.ret >= 0 => open /\ c.of = of
  BY <1>1, <1>2, AnyCall
<1>4. /\ driver' = driver /\ driver = "elf" /\ open' = open /\ selected' = selected
      /\ pc = "fetch"
  BY DEF ElfFetch
<1>5. at \in 1 .. Len(ElfPolled) /\ tries \in Nat \ {0} /\ step \in 1 .. 3
  BY <1>4 DEF LossInv
<1>6. Calm' => Calm
  BY <1>3, MasterAssumption DEF Calm, LossInv
<1>7. Calm' => \A w \in rows' : Sound(w)
  <2>1. CASE c.ret >= 0
    <3>1. ASSUME Calm' PROVE c.of = Reading(device, ElfKinds[step], there.date)
      BY <1>3, <1>4, <1>6, <2>1, <3>1 DEF Calm, LossInv
    <3>2. ASSUME Calm' PROVE \A w \in rows : Sound(w)
      BY <1>6, <3>2 DEF LossInv
    <3>3. rows' \in Kept(c, device, ElfKinds[step])
      BY <1>1, <2>1
    <3> HIDE DEF device, there
    <3>4. QED BY <3>1, <3>2, <3>3, SoundRow
  <2>2. CASE ~(c.ret >= 0)
    BY <1>1, <1>6, <2>2 DEF LossInv
  <2>3. QED BY <2>1, <2>2
<1>8. (Calm => \A w \in rows : Sound(w))'
  BY <1>7 DEF Sound
<1> HIDE DEF device, there, of
<1>9. CASE Onward(ElfKinds, Len(ElfPolled), {})
  <2>1. Len(ElfKinds) = 3
    BY DEF ElfKinds
  <2>2. /\ Len(ElfKinds) \in Nat \ {0}
        /\ Len(ElfPolled) \in Nat \ {0} /\ at \in 1 .. Len(ElfPolled)
    BY <1>5, <2>1 DEF ElfOnLine
  <2>3. tries' = Tries
    BY <1>9, <2>2, Onwards, Zenon
  <2>4. step' \in 1 .. Len(ElfKinds) \/ step' = step
    BY <1>9, <2>2, Onwards, Zenon
  <2>5. at' \in 1 .. Len(ElfPolled)
    BY <1>9, <2>2, Onwards, Zenon
  <2>6. pc' = "preset"
    BY <1>9, <2>2, Onwards, Zenon
  <2>7. QED
    BY <1>3, <1>4, <1>5, <1>8, <2>1, <2>3, <2>4, <2>5, <2>6, MasterAssumption DEF LossInv
<1>10. CASE c.ret < 0 /\ tries # 1 /\ tries' = tries - 1 /\ pc' = pc /\ at' = at /\ step' = step
  BY <1>3, <1>4, <1>5, <1>6, <1>8, <1>10 DEF LossInv, device
<1>11. QED BY <1>1, <1>3, <1>9, <1>10

LEMMA GreetKarat == LossInv /\ KaratGreet => LossInv'
<1> SUFFICES ASSUME LossInv, KaratGreet PROVE LossInv'
  OBVIOUS
<1>1. \E ask \in Queries, present \in BOOLEAN : \E c \in Calls(ask, Junk, present) : Took(c)
  <2> DEFINE ask == ReadRegisters(IF left = 1 THEN 27 ELSE 4)
  <2>1. ask \in Queries /\ KaratPresent(KaratTable[at]) \in BOOLEAN
    BY DEF KaratPresent, ReadRegisters, Query, Queries
  <2>2. \E c \in Calls(ask, Junk, KaratPresent(KaratTable[at])) : Took(c)
    BY DEF KaratGreet
  <2> HIDE DEF ask
  <2>3. QED BY <2>1, <2>2
<1>2. /\ hurt' \in BOOLEAN /\ (hurt => hurt') /\ faults' \in Nat /\ faults' >= faults
      /\ ~hurt' => port' = <<>> /\ underway' = <<>>
  BY <1>1, AnyCall, Zenon
<1>3. /\ driver' = driver /\ driver = "karat" /\ open' = open /\ step' = step
      /\ selected' = selected /\ rows' = rows
      /\ pc' \in {"greet", "fetch"} /\ tries' \in {tries, Tries}
  BY DEF KaratGreet
<1>4. Calm' => Calm
  BY <1>2, MasterAssumption DEF Calm, LossInv
<1>5. (\A w \in rows : Sound(w)) => (\A w \in rows : Sound(w))'
  BY <1>3 DEF Sound
<1>6. QED BY <1>2, <1>3, <1>4, <1>5, MasterAssumption DEF LossInv

LEMMA PresetKarat == LossInv /\ KaratPreset => LossInv'
<1> SUFFICES ASSUME LossInv, KaratPreset PROVE LossInv'
  OBVIOUS
<1>1. \E ask \in Queries, present \in BOOLEAN : \E c \in Calls(ask, Junk, present) : Took(c)
  <2>1. PresetRegisters(2) \in Queries /\ KaratPresent(KaratTable[at]) \in BOOLEAN
    BY DEF KaratPresent, PresetRegisters, Query, Queries
  <2>2. \E c \in Calls(PresetRegisters(2), Junk, KaratPresent(KaratTable[at])) : Took(c)
    BY DEF KaratPreset
  <2>3. QED BY <2>1, <2>2
<1>2. /\ hurt' \in BOOLEAN /\ (hurt => hurt') /\ faults' \in Nat /\ faults' >= faults
      /\ ~hurt' => port' = <<>> /\ underway' = <<>>
  BY <1>1, AnyCall, Zenon
<1>3. /\ driver' = driver /\ driver = "karat" /\ open' = open /\ step' = step /\ rows' = rows
      /\ pc' \in {"preset", "fetch"} /\ tries' \in {Tries, tries - 1}
      /\ tries = 1 => tries' = Tries
  BY DEF KaratPreset, LossInv
<1>4. DOMAIN selected' = Numbers
  BY DEF KaratPreset, KaratHeard, LossInv
<1>5. Calm' => Calm
  BY <1>2, MasterAssumption DEF Calm, LossInv
<1>6. (\A w \in rows : Sound(w)) => (\A w \in rows : Sound(w))'
  BY <1>3 DEF Sound
<1>7. QED BY <1>2, <1>3, <1>4, <1>5, <1>6, MasterAssumption DEF LossInv

LEMMA FetchKarat == LossInv /\ KaratFetch => LossInv'
<1> SUFFICES ASSUME LossInv, KaratFetch PROVE LossInv'
  OBVIOUS
<1> DEFINE device == KaratTable[at].device
           kind == KaratKinds[step]
           date == IF kind = "current" THEN 0 ELSE selected[device].date
           ask == ReadRegisters(IF kind = "current" THEN 110 ELSE 120)
           of == Reading(device, kind, date)
           present == KaratPresent(KaratTable[at])
<1>1. PICK c \in Calls(ask, of, present) :
        /\ Took(c)
        /\ IF c.ret >= 0 THEN rows' \in Kept(c, device, kind) ELSE rows' = rows
        /\ IF c.ret >= 0 \/ tries = 1
             THEN Onward(KaratKinds, Len(KaratTable), {"current"})
             ELSE tries' = tries - 1 /\ pc' = pc /\ at' = at /\ step' = step
  BY DEF KaratFetch
<1>2. ask \in Queries /\ present \in BOOLEAN
  BY DEF ReadRegisters, Query, Queries, KaratPresent
<1>3. /\ driver' = driver /\ driver = "karat" /\ open' = open /\ selected' = selected
      /\ pc = "fetch"
  BY DEF KaratFetch
<1> HIDE DEF device, kind, date, ask, present
<1>4. /\ hurt' \in BOOLEAN /\ (hurt => hurt') /\ faults' \in Nat /\ faults' >= faults
      /\ ~hurt' => port' = <<>> /\ underway' = <<>>
      /\ c.ret \in Int
      /\ ~hurt' /\ c.ret >= 0 => c.of = of
  BY <1>1, <1>2, AnyCall
<1>5. Calm' => Calm
  BY <1>4, MasterAssumption DEF Calm, LossInv
<1>6. Calm' => \A w \in rows' : Sound(w)
  <2>1. CASE c.ret >= 0
    <3>1. ASSUME Calm' PROVE c.of = Reading(device, kind, date)
      BY <1>4, <2>1, <3>1 DEF Calm
    <3>2. ASSUME Calm' PROVE \A w \in rows : Sound(w)
      BY <1>5, <3>2 DEF LossInv
    <3>3. rows' \in Kept(c, device, kind)
      BY <1>1, <2>1
    <3>4. QED BY <3>1, <3>2, <3>3, SoundRow
  <2>2. CASE ~(c.ret >= 0)
    BY <1>1, <1>5, <2>2 DEF LossInv
  <2>3. QED BY <2>1, <2>2
<1>7. (Calm => \A w \in rows : Sound(w))'
  BY <1>6 DEF Sound
<1>8. CASE Onward(KaratKinds, Len(KaratTable), {"current"})
  <2>1. Len(KaratKinds) \in Nat \ {0}
    BY DEF KaratKinds
  <2>2. tries' = Tries
    BY <1>8, <2>1, Onwards, Zenon
  <2>3. step' \in 1 .. Len(KaratKinds) \/ step' = step
    BY <1>8, <2>1, Onwards, Zenon
  <2>4. pc' \in {"fetch", "preset"}
    BY <1>8, <2>1, Onwards, Zenon
  <2>5. QED BY <1>3, <1>4, <1>7, <2>1, <2>2, <2>3, <2>4, MasterAssumption DEF LossInv
<1>9. CASE c.ret < 0 /\ tries # 1 /\ tries' = tries - 1 /\ pc' = pc /\ at' = at /\ step' = step
  BY <1>3, <1>4, <1>7, <1>9 DEF LossInv
<1>10. QED BY <1>1, <1>4, <1>8, <1>9

LEMMA InitLoss == ElfOnLine /\ Init => LossInv
<1> SUFFICES ASSUME ElfOnLine, Init PROVE LossInv
  OBVIOUS
<1>1. MasterInit /\ driver \in {"elf", "karat"} /\ open \in BOOLEAN
  BY DEF Init, ElfInit, KaratInit, ElfOpened, KaratOpened, Connected
<1>2. /\ pc = "greet" /\ at = 1 /\ step = 1 /\ tries = 1 /\ faults = 0 /\ hurt = FALSE
      /\ port = <<>> /\ underway = <<>> /\ rows = {} /\ DOMAIN selected = Numbers
  BY <1>1 DEF MasterInit
<1>3. at \in 1 .. Len(ElfTable)
  BY <1>2 DEF ElfOnLine
<1>4. \A w \in rows : Sound(w)
  BY <1>2
<1>5. driver = "elf" => at \in 1 .. IF pc = "greet" THEN Len(ElfTable) ELSE Len(ElfPolled)
  BY <1>2, <1>3
<1>6. pc # "preset" /\ pc # "fetch" /\ pc \in {"greet", "preset", "fetch"}
  BY <1>2
<1>7. faults \in Nat /\ tries \in Nat \ {0} /\ step \in Nat \ {0} /\ step \in 1 .. 3
  BY <1>2
<1>8. hurt \in BOOLEAN /\ DOMAIN selected = Numbers /\ port = <<>> /\ underway = <<>>
  BY <1>2, Zenon
<1>9. QED BY <1>1, <1>4, <1>5, <1>6, <1>7, <1>8, Zenon DEF LossInv

LEMMA StepLoss == ElfOnLine /\ LossInv /\ [Next]_vars => LossInv'
<1> SUFFICES ASSUME ElfOnLine, LossInv, [Next]_vars PROVE LossInv'
  OBVIOUS
<1>1. ASSUME ElfNext PROVE LossInv'
  BY <1>1, GreetElf, PresetElf, FetchElf DEF ElfNext
<1>2. ASSUME KaratNext PROVE LossInv'
  BY <1>2, GreetKarat, PresetKarat, FetchKarat DEF KaratNext
<1>3. ASSUME UNCHANGED masterVars PROVE LossInv'
  BY <1>3 DEF masterVars, LossInv, Calm, Sound
<1>4. QED
  BY <1>1, <1>2, <1>3 DEF Next, MasterStep, ServerStep, World, Ended, vars

(* Wherever an ELF is polled, and for any table of meters, any number of   *)
(* tries and any number of faults that may happen: while fewer calls have  *)
(* been lost or refused than there are tries, and no answer was late or    *)
(* garbled, every row is what its device measured, of its kind and of the  *)
(* time it is dated (elf2.cpp:225 and :240, karat.cpp:209 and :218).  The  *)
(* last write but the ones that were lost tells the meter what is read.    *)
THEOREM LossesHarmless == ElfOnLine => (Spec => []LossesAreHarmless)
<1> SUFFICES ASSUME ElfOnLine PROVE Spec => []LossesAreHarmless
  OBVIOUS
<1>1. Init => LossInv
  BY InitLoss
<1>2. LossInv /\ [Next]_vars => LossInv'
  BY StepLoss
<1>3. LossInv => LossesAreHarmless
  BY DEF LossInv, Calm, LossesAreHarmless
<1>4. QED BY <1>1, <1>2, <1>3, PTL DEF Spec

-----------------------------------------------------------------------------
(* Two frames, and their bytes.                                            *)
LEMMA OneAfterOther == ASSUME NEW e, NEW f PROVE <<e>> \o <<f>> = <<e, f>>
<1>1. <<e>> \in Seq({e, f}) /\ <<f>> \in Seq({e, f}) /\ <<e, f>> \in Seq({e, f})
  OBVIOUS
<1>2. /\ <<e>> \o <<f>> \in Seq({e, f}) /\ Len(<<e>> \o <<f>>) = 2 /\ Len(<<e, f>>) = 2
      /\ (<<e>> \o <<f>>)[1] = e /\ (<<e>> \o <<f>>)[2] = f /\ <<e, f>>[1] = e /\ <<e, f>>[2] = f
  BY <1>1
<1>3. \A i \in 1 .. 2 : (<<e>> \o <<f>>)[i] = <<e, f>>[i]
  BY <1>2
<1>4. QED BY <1>1, <1>2, <1>3, SeqEqual

LEMMA TotalTwo ==
  ASSUME NEW e, NEW f, e.len \in Nat, f.len \in Nat PROVE Total(<<e, f>>) = e.len + f.len
<1> DEFINE Sums(s) ==
      s = [n \in 0 .. Len(<<e, f>>) |-> IF n = 0 THEN 0 ELSE s[n - 1] + <<e, f>>[n].len]
<1>1. Sums([n \in 0 .. 2 |-> IF n = 0 THEN 0 ELSE IF n = 1 THEN e.len ELSE e.len + f.len])
  OBVIOUS
<1>2. Sums(CHOOSE s : Sums(s))
  BY <1>1, Zenon
<1>3. Total(<<e, f>>) = (CHOOSE s : Sums(s))[Len(<<e, f>>)]
  BY Zenon DEF Total
<1> DEFINE sum == CHOOSE s : Sums(s)
<1>4. Sums(sum)
  BY <1>2
<1> HIDE DEF sum
<1>5. sum[0] = 0 /\ sum[1] = sum[0] + e.len /\ sum[2] = sum[1] + f.len
  BY <1>4
<1>6. QED BY <1>3, <1>5 DEF sum

(* A frame on the line.                                                    *)
FrameType(f) == f.len \in Nat \ {0} /\ f.good \in BOOLEAN /\ f.exc \in BOOLEAN

(* What a frame may say that answers a query for "of", noise included.     *)
Noisy(o, of) == o = of \/ \E h : o = [of EXCEPT !.date = h, !.sound = FALSE]

(* A frame that passes for the answer to a query.                          *)
Passes(f, ask) == ~f.exc /\ f.fn = ask.fn /\ f.len = Expected(ask)

(* A frame that comes for a query: nothing in it passes for an answer to   *)
(* that query but its own answer.                                          *)
Coming(g, ask, of) ==
  FrameType(g) /\ (g.exc \/ (g.fn = ask.fn /\ g.len = Expected(ask) /\ Noisy(g.of, of)))

LEMMA FragmentComes ==
  ASSUME NEW n \in Nat \ {0}, NEW ask, NEW of PROVE Coming(Fragment(n), ask, of)
BY DEF Coming, FrameType, Fragment

(* A read that comes to nothing.                                           *)
LEMMA TooShort ==
  ASSUME NEW ask \in Queries, NEW stream, Total(stream) < Expected(ask)
  PROVE  LET r == Receive(ask, stream)
         IN  r.ret < 0 /\ r.of = Junk /\ r.port = <<>> /\ r.cut = <<>>
BY DEF Receive, TimeOut, Exception

(* Enough has come, as one frame, or behind one that is too short.         *)
LEMMA TakenOne ==
  ASSUME NEW ask \in Queries, NEW f, FrameType(f), ~(f.len < Expected(ask))
  PROVE  LET r == Receive(ask, <<f>>)
         IN  /\ r.port = <<>>
             /\ r.of = Junk \/ (r.of = f.of /\ Passes(f, ask))
             /\ r.cut = <<>> \/ \E n \in Nat \ {0} : r.cut = <<Fragment(n)>>
             /\ r.ret \in Int /\ (Passes(f, ask) /\ f.nb = ask.nb => r.ret >= 0)
<1> DEFINE r == Receive(ask, <<f>>)
           need == Expected(ask)
<1>1. Total(<<f>>) = f.len /\ f.len \in Nat /\ need \in Nat
  BY TotalOne, Needs DEF FrameType
<1>2. Head(<<f>>) = f /\ Tail(<<f>>) = <<>>
  OBVIOUS
<1> HIDE DEF need
<1>3. /\ r.ret = Result(ask, f)
      /\ r.of = IF f.len = need /\ ~f.exc /\ f.fn = ask.fn THEN f.of ELSE Junk
      /\ r.port = <<>>
      /\ r.cut = IF f.len = need THEN <<>> ELSE <<Fragment(f.len - need)>>
  BY <1>1, <1>2 DEF Receive, need
<1>4. f.len # need => f.len - need \in Nat \ {0}
  BY <1>1 DEF need
<1>5. r.ret \in Int /\ (Passes(f, ask) /\ f.nb = ask.nb => r.ret >= 0)
  BY <1>3 DEF Result, Illegal, Queries, Passes
<1> HIDE DEF r
<1>6. QED BY <1>3, <1>4, <1>5 DEF need, Passes, r

LEMMA TakenTwo ==
  ASSUME NEW ask \in Queries, NEW e, NEW f, FrameType(e), FrameType(f),
         e.len < Expected(ask), ~(e.len + f.len < Expected(ask))
  PROVE  LET r == Receive(ask, <<e, f>>)
         IN  /\ r.port = <<>> /\ r.of = Junk /\ r.ret \in Int
             /\ r.cut = <<>> \/ \E n \in Nat \ {0} : r.cut = <<Fragment(n)>>
<1> DEFINE r == Receive(ask, <<e, f>>)
           need == Expected(ask)
<1>1. /\ Total(<<e, f>>) = e.len + f.len /\ e.len \in Nat /\ f.len \in Nat /\ need \in Nat
      /\ Head(<<e, f>>) = e
  BY TotalTwo, Needs DEF FrameType
<1> HIDE DEF need
<1>2. /\ r.ret = Result(ask, e) /\ r.of = Junk /\ r.port = <<>>
      /\ r.cut = IF e.len + f.len = need THEN <<>> ELSE <<Fragment(e.len + f.len - need)>>
  BY <1>1 DEF Receive, need
<1>3. e.len + f.len # need => e.len + f.len - need \in Nat \ {0}
  BY <1>1 DEF need
<1>4. r.ret \in Int
  BY <1>2 DEF Result, Illegal, Queries
<1> HIDE DEF r
<1>5. QED BY <1>2, <1>3, <1>4 DEF need, r

(* What may become of a query, if one hears it or not.                     *)
Unanswered == [fault |-> "none", hears |-> TRUE, frame |-> <<>>, late |-> FALSE]

Replies(g, ask, of) ==
  /\ Coming(g, ask, of)
  /\ g.exc => g.len < Expected(ask)
  /\ ~g.exc => Passes(g, ask) /\ g.nb = ask.nb

LEMMA FateOf ==
  ASSUME NEW ask \in Queries, NEW of, NEW f \in Fates(ask, of) \cup {Unanswered}
  PROVE  /\ f.frame = <<>> \/ (f.frame = <<f.frame[1]>> /\ Replies(f.frame[1], ask, of))
         /\ f.late => f.fault = "late"
         /\ f.fault \in {"none", "garbled"} /\ f # Unanswered =>
              ~f.late /\ f.frame # <<>> /\ ~f.frame[1].exc
         /\ f.fault \notin {"unheard", "refused"} => f.hears
         /\ f.fault \in {"unheard", "refused"} => f.frame = <<>> \/ f.frame[1].exc
<1> DEFINE fate(g, hears, frame, late) ==
             [fault |-> g, hears |-> hears, frame |-> frame, late |-> late]
           Own(g) == Replies(g, ask, of) /\ ~g.exc
<1>1. Replies(Refusal(ask), ask, of) /\ Refusal(ask).exc
  BY Needs DEF Refusal, Replies, Coming, FrameType
<1>2. ASSUME NEW o, Noisy(o, of)
      PROVE  Own(Answer(ask, o)) /\ Own([Answer(ask, o) EXCEPT !.good = FALSE])
  <2>1. Expected(ask) \in Nat \ {0}
    BY Needs
  <2>2. QED BY <1>2, <2>1 DEF Answer, Replies, Coming, FrameType, Passes
<1>3. \/ f = Unanswered
      \/ f = fate("none", TRUE, <<Answer(ask, of)>>, FALSE)
      \/ f = fate("unheard", FALSE, <<>>, FALSE)
      \/ f = fate("lost", TRUE, <<>>, FALSE)
      \/ f = fate("late", TRUE, <<Answer(ask, of)>>, TRUE)
      \/ f = fate("refused", FALSE, <<Refusal(ask)>>, FALSE)
      \/ \E o : Noisy(o, of) /\ f = fate("garbled", TRUE, <<[Answer(ask, o) EXCEPT !.good = FALSE]>>, FALSE)
  BY DEF Fates, Unanswered, Noisy
<1>4. Noisy(of, of)
  BY DEF Noisy
<1>5. CASE f.frame = <<>> /\ (f = Unanswered \/ f.fault \in {"unheard", "lost"}) /\ ~f.late
           /\ (f.fault # "unheard" => f.hears)
  BY <1>5 DEF Unanswered
<1>6. CASE \E g : Own(g) /\ f.frame = <<g>> /\ f.fault \in {"none", "garbled", "late"} /\ f.hears
                  /\ (f.late => f.fault = "late") /\ (f.fault # "late" => ~f.late)
  <2>1. PICK g : Own(g) /\ f.frame = <<g>>
    BY <1>6
  <2>2. f.frame[1] = g /\ f.frame # <<>>
    BY <2>1
  <2>3. QED BY <1>6, <2>1, <2>2
<1>7. CASE f.frame = <<Refusal(ask)>> /\ f.fault = "refused" /\ ~f.late
  <2>1. f.frame[1] = Refusal(ask)
    BY <1>7
  <2>2. QED BY <1>1, <1>7, <2>1 DEF Unanswered
<1>8. f = fate("none", TRUE, <<Answer(ask, of)>>, FALSE) \/ f = fate("late", TRUE, <<Answer(ask, of)>>, TRUE)
        => \E g : Own(g) /\ f.frame = <<g>> /\ f.fault \in {"none", "garbled", "late"} /\ f.hears
                  /\ (f.late => f.fault = "late") /\ (f.fault # "late" => ~f.late)
  <2>1. Own(Answer(ask, of))
    BY <1>2, <1>4
  <2> HIDE DEF Own
  <2>2. QED BY <2>1
<1>9. ASSUME NEW o, Noisy(o, of),
             f = fate("garbled", TRUE, <<[Answer(ask, o) EXCEPT !.good = FALSE]>>, FALSE)
      PROVE  \E g : Own(g) /\ f.frame = <<g>> /\ f.fault \in {"none", "garbled", "late"} /\ f.hears
                    /\ (f.late => f.fault = "late") /\ (f.fault # "late" => ~f.late)
  <2>1. Own([Answer(ask, o) EXCEPT !.good = FALSE])
    BY <1>2, <1>9
  <2> HIDE DEF Own
  <2>2. QED BY <1>9, <2>1
<1> HIDE DEF Own
<1>10. QED BY <1>3, <1>5, <1>6, <1>7, <1>8, <1>9 DEF Unanswered

LEMMA FateIsOne ==
  ASSUME NEW ask \in Queries, NEW of, NEW f \in Fates(ask, of) PROVE f # Unanswered
<1>1. \/ f.fault = "none" /\ f.frame = <<Answer(ask, of)>>
      \/ f.fault \in {"unheard", "lost", "late", "refused", "garbled"}
  BY DEF Fates
<1>2. <<Answer(ask, of)>> # <<>>
  OBVIOUS
<1>3. QED BY <1>1, <1>2 DEF Unanswered

(* The line between two calls: nothing is left in the port, and no more    *)
(* than one frame is still to come, which takes a fault.                   *)
LineInv ==
  /\ port = <<>> /\ open \in BOOLEAN /\ hurt \in BOOLEAN /\ faults \in 0 .. MaxFaults
  /\ underway = <<>> \/ (underway = <<underway[1]>> /\ FrameType(underway[1]) /\ faults >= 1)

(* The stream a call reads, and what it leaves.                            *)
LEMMA StreamRead ==
  ASSUME LineInv, NEW ask \in Queries, NEW of,
         NEW f \in Fates(ask, of) \cup {Unanswered}, NEW waits \in BOOLEAN,
         f.late => waits, waits /\ ~f.late => underway # <<>> /\ ~(underway[1].len < Expected(ask)),
         ~waits => underway = <<>> \/ underway[1].len < Expected(ask)
  PROVE  LET early == port \o underway
             r == Receive(ask, IF waits THEN early ELSE early \o f.frame)
         IN  /\ r.port = <<>> /\ r.ret \in Int
             /\ r.cut = <<>> \/ (underway # <<>> /\ \E n \in Nat \ {0} : r.cut = <<Fragment(n)>>)
             /\ \/ r.of = Junk \/ Noisy(r.of, of)
                \/ underway # <<>> /\ r.of = underway[1].of /\ Passes(underway[1], ask)
             /\ underway = <<>> => (r.ret >= 0 <=> ~f.late /\ f.frame # <<>> /\ ~f.frame[1].exc)
<1> DEFINE r == Receive(ask, IF waits THEN port \o underway ELSE (port \o underway) \o f.frame)
           need == Expected(ask)
           Goal(x) == /\ x.port = <<>> /\ x.ret \in Int
                      /\ x.cut = <<>> \/ (underway # <<>> /\ \E n \in Nat \ {0} : x.cut = <<Fragment(n)>>)
                      /\ \/ x.of = Junk \/ Noisy(x.of, of)
                         \/ underway # <<>> /\ x.of = underway[1].of /\ Passes(underway[1], ask)
                      /\ underway = <<>> => (x.ret >= 0 <=> ~f.late /\ f.frame # <<>> /\ ~f.frame[1].exc)
<1>1. /\ f.frame = <<>> \/ (f.frame = <<f.frame[1]>> /\ Replies(f.frame[1], ask, of))
  BY FateOf
<1>2. need \in Nat /\ need >= 7
  BY Needs
<1>3. ASSUME NEW stream, Total(stream) < need, underway = <<>> => f.late \/ f.frame = <<>> \/ f.frame[1].exc
      PROVE  Goal(Receive(ask, stream))
  <2> DEFINE x == Receive(ask, stream)
  <2>1. x.ret < 0 /\ x.of = Junk /\ x.port = <<>> /\ x.cut = <<>>
    BY <1>3, TooShort
  <2>2. x.ret \in Int
    BY <1>3 DEF Receive, TimeOut, Exception
  <2> HIDE DEF x
  <2>3. ~(x.ret >= 0)
    BY <2>1, <2>2
  <2>4. Goal(x)
    BY <1>3, <2>1, <2>2, <2>3
  <2>5. QED BY <2>4 DEF x
<1>4. CASE underway = <<>>
  <2>1. port \o underway = <<>> /\ (port \o underway) \o f.frame = f.frame
    BY <1>1, <1>4 DEF LineInv
  <2>2. Total(<<>>) < need
    BY <1>2, TotalNone
  <2>3. CASE waits
    <3>1. r = Receive(ask, <<>>) /\ f.late
      BY <1>4, <2>1, <2>3
    <3> HIDE DEF Goal, need
    <3>2. QED BY <1>3, <2>2, <3>1 DEF Goal
  <2>4. CASE ~waits /\ f.frame = <<>>
    <3>1. r = Receive(ask, <<>>)
      BY <2>1, <2>4
    <3> HIDE DEF Goal, need
    <3>2. QED BY <1>3, <2>2, <2>4, <3>1 DEF Goal
  <2>5. CASE ~waits /\ f.frame # <<>>
    <3> DEFINE g == f.frame[1]
    <3>1. r = Receive(ask, <<g>>) /\ Replies(g, ask, of) /\ ~f.late
      BY <1>1, <2>1, <2>5
    <3> HIDE DEF g
    <3>2. Total(<<g>>) = g.len /\ g.len \in Nat
      BY <3>1, TotalOne DEF Replies, Coming, FrameType
    <3>3. CASE g.exc
      <4>1. Total(<<g>>) < need
        BY <3>1, <3>2, <3>3 DEF Replies
      <4>2. Goal(Receive(ask, <<g>>))
        <5> HIDE DEF Goal, need
        <5>1. QED BY <1>3, <3>3, <4>1 DEF g
      <4>3. QED BY <3>1, <4>2 DEF Goal
    <3>4. CASE ~g.exc
      <4>1. Passes(g, ask) /\ g.nb = ask.nb /\ Noisy(g.of, of) /\ FrameType(g)
        BY <3>1, <3>4 DEF Replies, Coming
      <4>2. ~(g.len < Expected(ask))
        BY <1>2, <4>1 DEF Passes
      <4> DEFINE x == Receive(ask, <<g>>)
      <4>3. x.port = <<>> /\ x.ret \in Int /\ x.ret >= 0 /\ (x.of = Junk \/ x.of = g.of)
        BY <4>1, <4>2, TakenOne
      <4>4. x.cut = <<>>
        <5>1. g.len = need
          BY <4>1 DEF Passes
        <5>2. Total(<<g>>) = need /\ ~(Total(<<g>>) < need)
          BY <1>2, <3>2, <5>1
        <5>3. QED BY <5>2 DEF Receive
      <4> HIDE DEF x
      <4>5. QED BY <1>4, <2>5, <3>1, <3>4, <4>1, <4>3, <4>4 DEF x, g
    <3>5. QED BY <3>3, <3>4
  <2>6. QED BY <2>3, <2>4, <2>5
<1>5. CASE underway # <<>>
  <2> DEFINE e == underway[1]
  <2>1. underway = <<e>> /\ FrameType(e) /\ port \o underway = <<e>>
    <3>1. underway = <<e>> /\ FrameType(e) /\ port = <<>>
      BY <1>5 DEF LineInv
    <3>2. <<>> \o <<e>> = <<e>>
      OBVIOUS
    <3>3. QED BY <3>1, <3>2
  <2> HIDE DEF e
  <2>2. Total(<<e>>) = e.len /\ e.len \in Nat
    BY <2>1, TotalOne DEF FrameType
  <2>3. CASE waits \/ f.frame = <<>>
    <3>1. r = Receive(ask, <<e>>)
      <4>1. <<e>> \o <<>> = <<e>>
        OBVIOUS
      <4>2. QED BY <2>1, <2>3, <4>1
    <3>2. CASE e.len < need
      <4> HIDE DEF Goal, need
      <4>1. QED BY <1>3, <1>5, <2>2, <3>1, <3>2 DEF Goal
    <3>3. CASE ~(e.len < need)
      <4> DEFINE x == Receive(ask, <<e>>)
      <4>1. /\ x.port = <<>> /\ x.ret \in Int /\ (x.of = Junk \/ (x.of = e.of /\ Passes(e, ask)))
            /\ x.cut = <<>> \/ \E n \in Nat \ {0} : x.cut = <<Fragment(n)>>
        BY <2>1, <3>3, TakenOne
      <4> HIDE DEF x
      <4>2. QED BY <1>5, <3>1, <4>1 DEF x, e
    <3>4. QED BY <3>2, <3>3
  <2>4. CASE ~waits /\ f.frame # <<>>
    <3> DEFINE g == f.frame[1]
    <3>1. f.frame = <<g>> /\ FrameType(g) /\ e.len < need
      BY <1>1, <1>5, <2>4 DEF Replies, Coming, e
    <3> HIDE DEF g
    <3>2. r = Receive(ask, <<e, g>>)
      <4>1. <<e>> \o <<g>> = <<e, g>>
        BY OneAfterOther
      <4>2. QED BY <2>1, <2>4, <3>1, <4>1
    <3>3. Total(<<e, g>>) = e.len + g.len
      BY <2>1, <3>1, TotalTwo DEF FrameType
    <3>4. CASE e.len + g.len < need
      <4> HIDE DEF Goal, need
      <4>1. QED BY <1>3, <1>5, <3>2, <3>3, <3>4 DEF Goal
    <3>5. CASE ~(e.len + g.len < need)
      <4> DEFINE x == Receive(ask, <<e, g>>)
      <4>1. /\ x.port = <<>> /\ x.of = Junk /\ x.ret \in Int
            /\ x.cut = <<>> \/ \E n \in Nat \ {0} : x.cut = <<Fragment(n)>>
        BY <2>1, <3>1, <3>5, TakenTwo
      <4> HIDE DEF x
      <4>2. QED BY <1>5, <3>2, <4>1 DEF x
    <3>6. QED BY <3>4, <3>5
  <2>5. QED BY <2>3, <2>4
<1>6. QED BY <1>4, <1>5

(* What a call may bring, and what it leaves on the line.                  *)
CallFacts(c, ask, of, present) ==
  /\ c.port = <<>> /\ c.hurt \in BOOLEAN /\ c.faults \in {faults, faults + 1} /\ c.faults \in 0 .. MaxFaults
  /\ c.ret \in Int /\ (~open => c.ret < 0 /\ ~c.hears /\ c.underway = <<>>)
  /\ \/ c.underway = <<>>
     \/ c.underway = <<c.underway[1]>> /\ Coming(c.underway[1], ask, of) /\ c.faults >= 1
  /\ \/ c.of = Junk \/ Noisy(c.of, of)
     \/ underway # <<>> /\ c.of = underway[1].of /\ Passes(underway[1], ask)
  /\ open /\ (c.ret >= 0 \/ faults >= 1) /\ c.faults <= 1 => c.hears
  /\ open /\ present /\ c.ret < 0 => c.faults >= 1

LEMMA CallOnLine ==
  ASSUME LineInv, NEW ask \in Queries, NEW of, NEW present \in BOOLEAN,
         NEW c \in Calls(ask, of, present)
  PROVE  CallFacts(c, ask, of, present)
<1>1. CASE ~open
  <2>1. /\ c.ret = Failure /\ c.of = Junk /\ c.port = <<>> /\ c.hears = FALSE
        /\ c.underway = <<>> /\ c.faults = faults /\ c.hurt = hurt
    BY <1>1 DEF Calls
  <2>2. faults \in 0 .. MaxFaults /\ MaxFaults \in Nat /\ hurt \in BOOLEAN
    BY MasterAssumption DEF LineInv
  <2>3. QED BY <1>1, <2>1, <2>2 DEF CallFacts, Failure
<1>2. CASE open
  <2> DEFINE early == port \o underway
             hasty == early # <<>> /\ Total(early) >= Expected(ask)
             Can(fault) == \/ fault = "none"
                           \/ fault = "garbled" /\ "garbled" \in Faults /\ ~hurt
                           \/ fault \in Faults \ {"garbled"} /\ faults < MaxFaults
  <2>1. PICK f, missed :
          /\ \/ present /\ f \in Fates(ask, of) /\ Can(f.fault)
             \/ ~present /\ f = Unanswered
          /\ missed \in BOOLEAN
          /\ c = LET waits == f.late \/ hasty
                     r == Receive(ask, IF waits THEN early ELSE early \o f.frame)
                 IN  [ret |-> r.ret, of |-> r.of, port |-> r.port, hears |-> f.hears,
                      underway |-> IF waits THEN f.frame ELSE IF missed THEN r.cut ELSE <<>>,
                      faults |-> IF f.fault \in {"none", "garbled"} THEN faults ELSE faults + 1,
                      hurt |-> hurt \/ f.fault \in {"garbled", "late"}]
    BY <1>2 DEF Calls, Unanswered
  <2> DEFINE waits == f.late \/ hasty
             r == Receive(ask, IF waits THEN early ELSE early \o f.frame)
  <2>2. /\ c.ret = r.ret /\ c.of = r.of /\ c.port = r.port /\ c.hears = f.hears
        /\ c.underway = (IF waits THEN f.frame ELSE IF missed THEN r.cut ELSE <<>>)
        /\ c.faults = (IF f.fault \in {"none", "garbled"} THEN faults ELSE faults + 1)
        /\ c.hurt = (hurt \/ f.fault \in {"garbled", "late"})
    BY <2>1
  <2>3. f \in Fates(ask, of) \cup {Unanswered}
    BY <2>1
  <2>4. hasty <=> underway # <<>> /\ ~(underway[1].len < Expected(ask))
    <3>1. CASE underway = <<>>
      BY <3>1 DEF LineInv
    <3>2. CASE underway # <<>>
      <4>1. underway = <<underway[1]>> /\ underway[1].len \in Nat /\ port = <<>>
        BY <3>2 DEF LineInv, FrameType
      <4>2. early = <<underway[1]>>
        <5>1. <<>> \o <<underway[1]>> = <<underway[1]>>
          OBVIOUS
        <5>2. QED BY <4>1, <5>1
      <4>3. Total(early) = underway[1].len
        BY <4>1, <4>2, TotalOne
      <4>4. Expected(ask) \in Nat /\ early # <<>>
        BY <4>2, Needs
      <4> HIDE DEF early
      <4>5. QED BY <3>2, <4>1, <4>3, <4>4
    <3>3. QED BY <3>1, <3>2
  <2>5. f.late => f.fault = "late"
    BY <2>3, FateOf
  <2>6. /\ r.port = <<>> /\ r.ret \in Int
        /\ r.cut = <<>> \/ (underway # <<>> /\ \E n \in Nat \ {0} : r.cut = <<Fragment(n)>>)
        /\ \/ r.of = Junk \/ Noisy(r.of, of)
           \/ underway # <<>> /\ r.of = underway[1].of /\ Passes(underway[1], ask)
        /\ underway = <<>> => (r.ret >= 0 <=> ~f.late /\ f.frame # <<>> /\ ~f.frame[1].exc)
    <3>1. waits \in BOOLEAN /\ (f.late => waits)
          /\ (waits /\ ~f.late => underway # <<>> /\ ~(underway[1].len < Expected(ask)))
          /\ (~waits => underway = <<>> \/ underway[1].len < Expected(ask))
      BY <2>3, <2>4
    <3> HIDE DEF waits, hasty
    <3>2. QED BY <2>3, <3>1, StreamRead
  <2>7. faults \in Nat /\ (underway # <<>> => faults >= 1) /\ hurt \in BOOLEAN
        /\ faults \in 0 .. MaxFaults /\ MaxFaults \in Nat
    BY MasterAssumption DEF LineInv
  <2>8. c.faults \in {faults, faults + 1} /\ c.faults \in 0 .. MaxFaults
    <3>1. f.fault \in {"none", "garbled"} \/ faults < MaxFaults
      BY <2>1 DEF Unanswered
    <3>2. QED BY <2>2, <2>7, <3>1
  <2>9. \/ c.underway = <<>>
        \/ c.underway = <<c.underway[1]>> /\ Coming(c.underway[1], ask, of) /\ c.faults >= 1
    <3>1. CASE waits /\ f.frame # <<>>
      <4>1. c.underway = f.frame /\ f.frame = <<f.frame[1]>> /\ Replies(f.frame[1], ask, of)
        <5>1. c.underway = f.frame
          BY <2>2, <3>1
        <5>2. QED BY <2>3, <3>1, <5>1, FateOf
      <4>2. c.faults >= 1
        <5>1. underway # <<>> \/ f.late
          BY <2>4, <3>1
        <5>2. QED BY <2>2, <2>5, <2>7, <5>1
      <4>3. QED BY <4>1, <4>2 DEF Replies
    <3>2. CASE ~waits /\ missed /\ r.cut # <<>>
      <4>1. PICK n \in Nat \ {0} : c.underway = <<Fragment(n)>> /\ underway # <<>>
        <5> HIDE DEF r, waits
        <5>1. QED BY <2>2, <2>6, <3>2
      <4>2. c.underway[1] = Fragment(n)
        BY <4>1
      <4>3. c.faults >= 1
        BY <2>7, <2>8, <4>1
      <4>4. QED BY <4>1, <4>2, <4>3, FragmentComes
    <3>3. CASE (waits /\ f.frame = <<>>) \/ (~waits /\ ~(missed /\ r.cut # <<>>))
      <4> HIDE DEF r, waits
      <4>1. QED BY <2>1, <2>2, <3>3
    <3>4. QED BY <3>1, <3>2, <3>3
  <2>10. (c.ret >= 0 \/ faults >= 1) /\ c.faults <= 1 => c.hears
    <3>1. SUFFICES ASSUME c.ret >= 0 \/ faults >= 1, c.faults <= 1, ~f.hears PROVE FALSE
      BY <2>2
    <3>2. f.fault \in {"unheard", "refused"}
      BY <2>3, <3>1, FateOf
    <3>3. c.faults = faults + 1 /\ faults = 0
      BY <2>2, <2>7, <3>1, <3>2
    <3>4. underway = <<>> /\ c.ret >= 0
      BY <2>7, <3>1, <3>3
    <3>5. f.frame # <<>> /\ ~f.frame[1].exc
      <4> HIDE DEF r, waits
      <4>1. QED BY <2>2, <2>6, <3>4
    <3>6. f.frame = <<>> \/ f.frame[1].exc
      BY <2>3, <3>2, FateOf
    <3>7. QED BY <3>5, <3>6
  <2>11. present /\ c.ret < 0 => c.faults >= 1
    <3>1. SUFFICES ASSUME present, c.ret < 0, ~(c.faults >= 1) PROVE FALSE
      OBVIOUS
    <3>2. faults = 0 /\ c.faults = 0
      BY <2>7, <2>8, <3>1
    <3>3. f.fault \in {"none", "garbled"} /\ underway = <<>>
      BY <2>2, <2>7, <3>2
    <3>4. ~f.late /\ f.frame # <<>> /\ ~f.frame[1].exc
      <4>1. f # Unanswered
        BY <2>1, <3>1, FateIsOne
      <4>2. QED BY <2>3, <3>3, <4>1, FateOf
    <3>5. r.ret >= 0
      <4> HIDE DEF r
      <4>1. QED BY <2>6, <3>3, <3>4
    <3>6. c.ret \in Int /\ c.ret >= 0
      <4> HIDE DEF r
      <4>1. QED BY <2>2, <2>6, <3>5
    <3>7. QED BY <3>1, <3>6
  <2>12. c.port = <<>> /\ c.hurt \in BOOLEAN /\ c.ret \in Int
         /\ (c.of = Junk \/ Noisy(c.of, of)
             \/ (underway # <<>> /\ c.of = underway[1].of /\ Passes(underway[1], ask)))
    <3> HIDE DEF r, waits
    <3>1. QED BY <2>2, <2>6, <2>7
  <2>13. QED BY <1>2, <2>8, <2>9, <2>10, <2>11, <2>12 DEF CallFacts
<1>3. QED BY <1>1, <1>2 DEF LineInv

-----------------------------------------------------------------------------
(* The read that is due: of which device, of which kind, in which query.   *)
Fetched == IF driver = "elf" THEN ElfPolled[at].device ELSE KaratTable[at].device
FetchedKind == IF driver = "elf" THEN ElfKinds[step] ELSE KaratKinds[step]
FetchAsk ==
  IF driver = "elf" THEN ReadRegisters(80)
  ELSE ReadRegisters(IF KaratKinds[step] = "current" THEN 110 ELSE 120)

(* What is said of that device, and of that kind unless there have been    *)
(* two faults.                                                             *)
SaidOf(o, d, kind) == o.dev = d /\ (faults <= 1 /\ o.sound => o.kind = kind)

(* A frame that is still to come and would pass for the answer of the read *)
(* that is due is an earlier answer to the same read: a write before, or   *)
(* another length, does away with any other.  With one fault at most the   *)
(* last write has reached the meter when a read is due: one that came to   *)
(* nothing took the fault.                                                 *)
LateInv ==
  /\ LineInv
  /\ pc = "fetch" /\ underway # <<>> /\ Passes(underway[1], FetchAsk) /\ underway[1].of # Junk
       => SaidOf(underway[1].of, Fetched, FetchedKind)
  /\ LateAnswersKeepRows
  /\ driver = "karat" => step \in 1 .. Len(KaratKinds)
  /\ driver = "elf" /\ open /\ pc = "preset" /\ tries < Tries => faults >= 1
  /\ driver = "elf" /\ open /\ pc = "fetch" /\ faults <= 1 =>
       selected[ElfPolled[at].device].kind = ElfKinds[step]

LEMMA NoisyReading ==
  ASSUME NEW o, NEW d, NEW kind, NEW date, Noisy(o, Reading(d, kind, date))
  PROVE  o.dev = d /\ o.kind = kind
<1>1. CASE o = Reading(d, kind, date)
  BY <1>1 DEF Reading
<1>2. ASSUME NEW h, o = [Reading(d, kind, date) EXCEPT !.date = h, !.sound = FALSE]
      PROVE  o.dev = d /\ o.kind = kind
  BY <1>2 DEF Reading
<1>3. QED BY <1>1, <1>2 DEF Noisy

(* A call keeps the line as it should be.                                  *)
LEMMA LineStep ==
  ASSUME LineInv, NEW ask \in Queries, NEW of, NEW present \in BOOLEAN,
         NEW c \in Calls(ask, of, present), Took(c), open' = open
  PROVE  /\ LineInv' /\ CallFacts(c, ask, of, present)
         /\ faults' = c.faults /\ underway' = c.underway /\ faults' \in Nat /\ faults \in Nat
         /\ faults' >= faults
<1>1. CallFacts(c, ask, of, present)
  BY CallOnLine
<1>2. port' = c.port /\ underway' = c.underway /\ faults' = c.faults /\ hurt' = c.hurt
  BY DEF Took
<1>3. faults \in Nat /\ MaxFaults \in Nat /\ open \in BOOLEAN
  BY MasterAssumption DEF LineInv
<1>4. /\ c.port = <<>> /\ c.hurt \in BOOLEAN /\ c.faults \in {faults, faults + 1}
      /\ c.faults \in 0 .. MaxFaults
      /\ \/ c.underway = <<>>
         \/ c.underway = <<c.underway[1]>> /\ FrameType(c.underway[1]) /\ c.faults >= 1
  BY <1>1 DEF CallFacts, Coming
<1>5. LineInv'
  BY <1>2, <1>3, <1>4 DEF LineInv, FrameType
<1>6. QED BY <1>1, <1>2, <1>3, <1>4, <1>5

(* The rows of before stay what they are.                                  *)
LEMMA RowsStay ==
  ASSUME LateAnswersKeepRows, faults \in Nat, faults' \in Nat, faults' >= faults, rows' = rows
  PROVE  LateAnswersKeepRows'
<1>1. faults' <= 1 => faults <= 1
  OBVIOUS
<1>2. QED BY <1>1 DEF LateAnswersKeepRows, OwnDevice, OneFaultKeepsKind

(* A record that is said of its device, or one made of what was there, is  *)
(* stored.                                                                 *)
LEMMA RowsKept ==
  ASSUME LateAnswersKeepRows, faults \in Nat, faults' \in Nat, faults' >= faults,
         NEW c, NEW d, NEW kind, rows' \in Kept(c, d, kind),
         c.of = Junk \/ (c.of.dev = d /\ (faults' <= 1 /\ c.of.sound => c.of.kind = kind))
  PROVE  LateAnswersKeepRows'
<1> DEFINE key(reading) == [dev |-> d, kind |-> kind, date |-> Stamp(kind, reading.date)]
           new(reading) == [key |-> key(reading), value |-> reading]
           stale == [Reading(d, kind, Asked(kind, Depth[kind] - left + 1)) EXCEPT !.sound = FALSE]
           Good(w) == /\ w.value.dev = w.key.dev
                      /\ faults' <= 1 => (w.value.sound => w.value.kind = w.key.kind)
<1>1. \A reading : /\ StoreCurrent(rows, key(reading), reading) \subseteq rows \cup {new(reading)}
                   /\ StoreArchive(rows, key(reading), reading) \subseteq rows \cup {new(reading)}
  BY DEF StoreCurrent, StoreArchive
<1>2. rows' \subseteq rows \/ rows' \subseteq rows \cup {new(stale)}
      \/ (c.of # Junk /\ rows' \subseteq rows \cup {new(c.of)})
  <2>1. CASE c.of = Junk
    <3>1. \/ rows' = rows
          \/ rows' \in {StoreCurrent(rows, key(stale), stale), StoreArchive(rows, key(stale), stale)}
      BY <2>1 DEF Kept
    <3> HIDE DEF stale, key, new
    <3>2. QED BY <1>1, <3>1
  <2>2. CASE c.of # Junk
    <3>1. rows' \in {StoreCurrent(rows, key(c.of), c.of), StoreArchive(rows, key(c.of), c.of)}
      BY <2>2 DEF Kept
    <3> HIDE DEF key, new
    <3>2. QED BY <1>1, <2>2, <3>1
  <2>3. QED BY <2>1, <2>2
<1>3. \A w \in rows : Good(w)
  <2>1. faults' <= 1 => faults <= 1
    OBVIOUS
  <2>2. QED BY <2>1 DEF LateAnswersKeepRows, OwnDevice, OneFaultKeepsKind
<1>4. Good(new(stale))
  BY DEF Reading
<1>5. c.of # Junk => Good(new(c.of))
  OBVIOUS
<1>6. \A w \in rows' : Good(w)
  <2> HIDE DEF Good, new, stale
  <2>1. QED BY <1>2, <1>3, <1>4, <1>5
<1>7. QED BY <1>6 DEF LateAnswersKeepRows, OwnDevice, OneFaultKeepsKind

LEMMA LateGreetElf == ASSUME ElfOnLine, LossInv, LateInv, ElfGreet PROVE LateInv'
<1> DEFINE ask == ReadRegisters(IF left = 1 THEN 4 ELSE 3)
           present == ElfPresent(ElfTable[at])
<1>1. ask \in Queries /\ present \in BOOLEAN
  BY DEF ElfPresent, ReadRegisters, Query, Queries
<1>2. PICK c \in Calls(ask, Junk, present) : Took(c)
  BY DEF ElfGreet
<1>3. /\ driver = "elf" /\ driver' = driver /\ open' = open /\ step' = step /\ rows' = rows
      /\ pc' # "fetch" /\ (pc' = "preset" => tries' = Tries)
  BY DEF ElfGreet
<1> HIDE DEF ask, present
<1>4. LineInv' /\ faults' \in Nat /\ faults \in Nat /\ faults' >= faults
  BY <1>1, <1>2, <1>3, LineStep DEF LateInv
<1>5. LateAnswersKeepRows'
  BY <1>3, <1>4, RowsStay DEF LateInv
<1>6. Tries \in Nat
  BY MasterAssumption
<1>7. QED BY <1>3, <1>4, <1>5, <1>6 DEF LateInv

LEMMA LatePresetElf == ASSUME ElfOnLine, Tries >= 2, LossInv, LateInv, ElfPreset PROVE LateInv'
<1> DEFINE ask == PresetRegisters(7)
           device == ElfPolled[at].device
           wanted == [kind |-> ElfKinds[step],
                      date |-> Asked(ElfKinds[step], Depth[ElfKinds[step]] - left + 1)]
<1>1. ask \in Queries
  BY DEF PresetRegisters, Query, Queries
<1>2. PICK c \in Calls(ask, Junk, TRUE) :
        /\ Took(c)
        /\ selected' = IF c.hears THEN [selected EXCEPT ![device] = wanted] ELSE selected
        /\ IF c.ret >= 0 \/ tries = 1
             THEN pc' = "fetch" /\ tries' = Tries
             ELSE tries' = tries - 1 /\ pc' = pc
  BY DEF ElfPreset
<1>3. /\ driver = "elf" /\ driver' = driver /\ open' = open /\ step' = step /\ at' = at
      /\ rows' = rows /\ pc = "preset"
  BY DEF ElfPreset
<1>4. at \in 1 .. Len(ElfPolled) /\ device \in DOMAIN selected /\ tries \in Nat \ {0} /\ Tries \in Nat
  BY <1>3, MasterAssumption DEF LossInv, ElfOnLine
<1>5. c.hears => selected'[device].kind = ElfKinds[step]
  BY <1>2, <1>4
<1> HIDE DEF ask, device, wanted
<1>6. /\ LineInv' /\ CallFacts(c, ask, Junk, TRUE) /\ faults' = c.faults /\ underway' = c.underway
      /\ faults' \in Nat /\ faults \in Nat /\ faults' >= faults
  BY <1>1, <1>2, <1>3, LineStep DEF LateInv
<1>7. LateAnswersKeepRows'
  BY <1>3, <1>6, RowsStay DEF LateInv
<1>8. underway' # <<>> => ~Passes(underway'[1], FetchAsk')
  <2>1. underway' # <<>> => Coming(underway'[1], ask, Junk)
    BY <1>6 DEF CallFacts
  <2>2. ask.fn = "multiple" /\ FetchAsk'.fn = "registers"
    BY DEF ask, FetchAsk, PresetRegisters, ReadRegisters, Query
  <2>3. QED BY <2>1, <2>2 DEF Coming, Passes
<1>9. open /\ pc' = "fetch" /\ faults' <= 1 => selected'[device].kind = ElfKinds[step]
  <2>1. SUFFICES ASSUME open, pc' = "fetch", faults' <= 1 PROVE c.hears
    BY <1>5
  <2>2. c.ret >= 0 \/ tries = 1
    BY <1>2, <1>3, <2>1
  <2>3. c.ret >= 0 \/ faults >= 1
    <3>1. tries = 1 => tries < Tries
      BY <1>4
    <3>2. QED BY <1>3, <2>1, <2>2, <3>1 DEF LateInv
  <2>4. QED BY <1>6, <2>1, <2>3 DEF CallFacts
<1>10. open /\ pc' = "preset" /\ tries' < Tries => faults' >= 1
  <2>1. SUFFICES ASSUME open, pc' = "preset" PROVE faults' >= 1
    OBVIOUS
  <2>2. ~(c.ret >= 0) /\ c.ret \in Int
    BY <1>2, <1>6, <2>1 DEF CallFacts
  <2>3. c.ret < 0
    BY <2>2
  <2>4. QED BY <1>6, <2>1, <2>3 DEF CallFacts
<1>11. QED BY <1>3, <1>6, <1>7, <1>8, <1>9, <1>10 DEF LateInv, device

LEMMA LateFetchElf == ASSUME ElfOnLine, LossInv, LateInv, ElfFetch PROVE LateInv'
<1> DEFINE device == ElfPolled[at].device
           there == selected[device]
           of == Reading(device, there.kind, there.date)
           ask == ReadRegisters(80)
<1>1. ask \in Queries /\ FetchAsk = ask /\ Fetched = device /\ FetchedKind = ElfKinds[step]
  BY DEF ReadRegisters, Query, Queries, FetchAsk, Fetched, FetchedKind, ElfFetch
<1>2. PICK c \in Calls(ask, of, TRUE) :
        /\ Took(c)
        /\ IF c.ret >= 0 THEN rows' \in Kept(c, device, ElfKinds[step]) ELSE rows' = rows
        /\ IF c.ret >= 0 \/ tries = 1
             THEN Onward(ElfKinds, Len(ElfPolled), {})
             ELSE tries' = tries - 1 /\ pc' = pc /\ at' = at /\ step' = step
  BY DEF ElfFetch
<1>3. /\ driver = "elf" /\ driver' = driver /\ open' = open /\ selected' = selected /\ pc = "fetch"
  BY DEF ElfFetch
<1> HIDE DEF ask, device, there
<1>4. /\ LineInv' /\ CallFacts(c, ask, of, TRUE) /\ faults' = c.faults /\ underway' = c.underway
      /\ faults' \in Nat /\ faults \in Nat /\ faults' >= faults
  <2> HIDE DEF of
  <2>1. QED BY <1>1, <1>2, <1>3, LineStep DEF LateInv
<1>5. open /\ faults' <= 1 => there.kind = ElfKinds[step]
  BY <1>3, <1>4 DEF LateInv, there, device
<1>6. \A o : Noisy(o, of) => o.dev = device /\ (open /\ faults' <= 1 => o.kind = ElfKinds[step])
  BY <1>5, NoisyReading
<1>7. underway # <<>> /\ Passes(underway[1], ask) /\ underway[1].of # Junk =>
        underway[1].of.dev = device
        /\ (faults' <= 1 /\ underway[1].of.sound => underway[1].of.kind = ElfKinds[step])
  BY <1>1, <1>3, <1>4 DEF LateInv, SaidOf
<1> HIDE DEF of
<1>8. LateAnswersKeepRows'
  <2>1. CASE c.ret >= 0
    <3>1. open
      BY <1>4, <2>1 DEF CallFacts, LineInv
    <3>2. c.of = Junk \/ (c.of.dev = device /\ (faults' <= 1 /\ c.of.sound => c.of.kind = ElfKinds[step]))
      BY <1>4, <1>6, <1>7, <3>1 DEF CallFacts
    <3>3. rows' \in Kept(c, device, ElfKinds[step])
      BY <1>2, <2>1
    <3>4. QED BY <1>4, <3>2, <3>3, RowsKept DEF LateInv
  <2>2. CASE ~(c.ret >= 0)
    BY <1>2, <1>4, <2>2, RowsStay DEF LateInv
  <2>3. QED BY <2>1, <2>2
<1>9. CASE Onward(ElfKinds, Len(ElfPolled), {})
  <2>1. Len(ElfKinds) \in Nat \ {0}
    BY DEF ElfKinds
  <2>2. tries' = Tries /\ pc' = "preset"
    BY <1>9, <2>1, Onwards, Zenon
  <2>3. Tries \in Nat
    BY MasterAssumption
  <2>4. QED BY <1>3, <1>4, <1>8, <2>2, <2>3 DEF LateInv
<1>10. CASE pc' = pc /\ at' = at /\ step' = step
  <2>1. Fetched' = device /\ FetchedKind' = ElfKinds[step] /\ FetchAsk' = ask
    BY <1>1, <1>3, <1>10 DEF Fetched, FetchedKind, FetchAsk
  <2>2. ASSUME underway' # <<>>, Passes(underway'[1], ask)
        PROVE  /\ underway'[1].of.dev = device
               /\ faults' <= 1 => underway'[1].of.kind = ElfKinds[step]
    <3>1. Noisy(underway'[1].of, of)
      BY <1>4, <2>2 DEF CallFacts, Coming, Passes
    <3>2. open
      BY <1>4, <2>2 DEF CallFacts
    <3>3. QED BY <1>6, <3>1, <3>2
  <2>3. QED BY <1>3, <1>4, <1>5, <1>8, <1>10, <2>1, <2>2 DEF LateInv, SaidOf, there, device
<1>11. QED BY <1>2, <1>9, <1>10

(* The kinds of a Karat-307: the current values first, and then archives.  *)
LEMMA KindsOfKarat ==
  /\ Len(KaratKinds) \in Nat /\ Len(KaratKinds) > 1 /\ KaratKinds[1] = "current"
  /\ \A n \in 1 .. Len(KaratKinds) :
       KaratKinds[n] \in {"current", "hour", "day", "month"} /\ (KaratKinds[n] = "current" <=> n = 1)
<1>1. CASE KaratKinds = <<"current", "hour", "day", "month">>
  BY <1>1
<1>2. CASE KaratKinds = <<"current", "hour", "day">>
  BY <1>2
<1>3. QED BY <1>1, <1>2 DEF KaratKinds

LEMMA SameKinds == ASSUME now' = now PROVE KaratKinds' = KaratKinds
BY DEF KaratKinds, Month

LEMMA LateGreetKarat == ASSUME LossInv, LateInv, KaratGreet PROVE LateInv'
<1> DEFINE ask == ReadRegisters(IF left = 1 THEN 27 ELSE 4)
           present == KaratPresent(KaratTable[at])
<1>1. ask \in Queries /\ present \in BOOLEAN /\ ask.nb \in {4, 27}
  BY DEF KaratPresent, ReadRegisters, Query, Queries
<1>2. PICK c \in Calls(ask, Junk, present) : Took(c)
  BY DEF KaratGreet
<1>3. /\ driver = "karat" /\ driver' = driver /\ open' = open /\ step' = step /\ rows' = rows
      /\ now' = now
  BY DEF KaratGreet
<1> HIDE DEF ask, present
<1>4. /\ LineInv' /\ faults' \in Nat /\ faults \in Nat /\ faults' >= faults
      /\ CallFacts(c, ask, Junk, present) /\ underway' = c.underway
  BY <1>1, <1>2, <1>3, LineStep DEF LateInv
<1>5. LateAnswersKeepRows'
  BY <1>3, <1>4, RowsStay DEF LateInv
<1>6. underway' # <<>> => ~Passes(underway'[1], FetchAsk')
  <2>1. underway' # <<>> => Coming(underway'[1], ask, Junk)
    BY <1>4 DEF CallFacts
  <2>2. Expected(ask) \in {13, 59} /\ Expected(FetchAsk') \in {225, 245}
    BY <1>1, <1>3 DEF ask, FetchAsk, ReadRegisters, Query, Expected
  <2>3. QED BY <2>1, <2>2 DEF Coming, Passes
<1>7. KaratKinds' = KaratKinds
  BY <1>3, SameKinds
<1>8. QED BY <1>3, <1>4, <1>5, <1>6, <1>7 DEF LateInv

LEMMA LatePresetKarat == ASSUME LossInv, LateInv, KaratPreset PROVE LateInv'
<1> DEFINE ask == PresetRegisters(2)
           present == KaratPresent(KaratTable[at])
<1>1. ask \in Queries /\ present \in BOOLEAN
  BY DEF KaratPresent, PresetRegisters, Query, Queries
<1>2. PICK c \in Calls(ask, Junk, present) : Took(c)
  BY DEF KaratPreset
<1>3. /\ driver = "karat" /\ driver' = driver /\ open' = open /\ step' = step /\ rows' = rows
      /\ now' = now
  BY DEF KaratPreset
<1> HIDE DEF present
<1>4. /\ LineInv' /\ faults' \in Nat /\ faults \in Nat /\ faults' >= faults
      /\ CallFacts(c, ask, Junk, present) /\ underway' = c.underway
  <2> HIDE DEF ask
  <2>1. QED BY <1>1, <1>2, <1>3, LineStep DEF LateInv
<1>5. LateAnswersKeepRows'
  BY <1>3, <1>4, RowsStay DEF LateInv
<1>6. underway' # <<>> => ~Passes(underway'[1], FetchAsk')
  <2>1. underway' # <<>> => Coming(underway'[1], ask, Junk)
    BY <1>4 DEF CallFacts
  <2>2. ask.fn = "multiple" /\ FetchAsk'.fn = "registers"
    BY DEF ask, FetchAsk, PresetRegisters, ReadRegisters, Query
  <2>3. QED BY <2>1, <2>2 DEF Coming, Passes
<1>7. KaratKinds' = KaratKinds
  BY <1>3, SameKinds
<1>8. QED BY <1>3, <1>4, <1>5, <1>6, <1>7 DEF LateInv

LEMMA LateFetchKarat == ASSUME LossInv, LateInv, KaratFetch PROVE LateInv'
<1> DEFINE device == KaratTable[at].device
           kind == KaratKinds[step]
           date == IF kind = "current" THEN 0 ELSE selected[device].date
           of == Reading(device, kind, date)
           ask == ReadRegisters(IF kind = "current" THEN 110 ELSE 120)
           present == KaratPresent(KaratTable[at])
<1>1. /\ ask \in Queries /\ present \in BOOLEAN
      /\ FetchAsk = ask /\ Fetched = device /\ FetchedKind = kind
  BY DEF ReadRegisters, Query, Queries, FetchAsk, Fetched, FetchedKind, KaratFetch, KaratPresent
<1>2. PICK c \in Calls(ask, of, present) :
        /\ Took(c)
        /\ IF c.ret >= 0 THEN rows' \in Kept(c, device, kind) ELSE rows' = rows
        /\ IF c.ret >= 0 \/ tries = 1
             THEN Onward(KaratKinds, Len(KaratTable), {"current"})
             ELSE tries' = tries - 1 /\ pc' = pc /\ at' = at /\ step' = step
  BY DEF KaratFetch
<1>3. /\ driver = "karat" /\ driver' = driver /\ open' = open /\ now' = now /\ pc = "fetch"
      /\ step \in 1 .. Len(KaratKinds)
  BY DEF KaratFetch, LateInv
<1>4. Expected(ask) = IF kind = "current" THEN 225 ELSE 245
  BY DEF ask, ReadRegisters, Query, Expected
<1>5. KaratKinds' = KaratKinds
  BY <1>3, SameKinds
<1>6. Expected(FetchAsk') = IF KaratKinds[step'] = "current" THEN 225 ELSE 245
  BY <1>3, <1>5 DEF FetchAsk, ReadRegisters, Query, Expected
<1> HIDE DEF ask, device, kind, date, present
<1>7. /\ LineInv' /\ CallFacts(c, ask, of, present) /\ faults' = c.faults /\ underway' = c.underway
      /\ faults' \in Nat /\ faults \in Nat /\ faults' >= faults
  <2> HIDE DEF of
  <2>1. QED BY <1>1, <1>2, <1>3, LineStep DEF LateInv
<1>8. \A o : Noisy(o, of) => o.dev = device /\ o.kind = kind
  BY NoisyReading
<1>9. underway # <<>> /\ Passes(underway[1], ask) /\ underway[1].of # Junk =>
        underway[1].of.dev = device
        /\ (faults' <= 1 /\ underway[1].of.sound => underway[1].of.kind = kind)
  BY <1>1, <1>3, <1>7 DEF LateInv, SaidOf
<1> HIDE DEF of
<1>10. LateAnswersKeepRows'
  <2>1. CASE c.ret >= 0
    <3>1. c.of = Junk \/ (c.of.dev = device /\ (faults' <= 1 /\ c.of.sound => c.of.kind = kind))
      BY <1>7, <1>8, <1>9 DEF CallFacts
    <3>2. rows' \in Kept(c, device, kind)
      BY <1>2, <2>1
    <3>3. QED BY <1>7, <3>1, <3>2, RowsKept DEF LateInv
  <2>2. CASE ~(c.ret >= 0)
    BY <1>2, <1>7, <2>2, RowsStay DEF LateInv
  <2>3. QED BY <2>1, <2>2
<1>11. underway' # <<>> =>
         \/ underway'[1].exc
         \/ underway'[1].len = Expected(ask) /\ underway'[1].of.dev = device /\ underway'[1].of.kind = kind
  BY <1>7, <1>8 DEF CallFacts, Coming
<1>12. CASE at' = at /\ step' = step
  <2>1. Fetched' = device /\ FetchedKind' = kind
    BY <1>1, <1>3, <1>5, <1>12 DEF Fetched, FetchedKind
  <2>2. QED BY <1>3, <1>5, <1>7, <1>10, <1>11, <1>12, <2>1 DEF LateInv, SaidOf, Passes
<1>13. CASE ~(at' = at /\ step' = step) /\ Onward(KaratKinds, Len(KaratTable), {"current"})
  <2>1. /\ step' = (step % Len(KaratKinds)) + 1
        /\ pc' = IF KaratKinds[step'] = "current" THEN "fetch" ELSE "preset"
    BY <1>13 DEF Onward
  <2>2. Len(KaratKinds) \in Nat /\ Len(KaratKinds) > 1
    BY KindsOfKarat
  <2>3. /\ step' \in 1 .. Len(KaratKinds)
        /\ step < Len(KaratKinds) => step' = step + 1
        /\ step = Len(KaratKinds) => step' = 1
    BY <1>3, <2>1, <2>2
  <2>4. pc' = "fetch" => KaratKinds[step'] = "current" /\ kind # "current"
    <3>1. SUFFICES ASSUME pc' = "fetch" PROVE KaratKinds[step'] = "current" /\ step # 1
      BY <1>3, KindsOfKarat DEF kind
    <3>2. KaratKinds[step'] = "current"
      BY <2>1, <3>1
    <3>3. step' = 1
      <4>1. \A n \in 1 .. Len(KaratKinds) : KaratKinds[n] = "current" => n = 1
        BY KindsOfKarat
      <4>2. step' \in 1 .. Len(KaratKinds)
        BY <2>3
      <4>3. QED BY <3>2, <4>1, <4>2
    <3>4. ASSUME step = 1 PROVE FALSE
      <4>1. 1 < Len(KaratKinds)
        BY <2>2
      <4>2. step' = 2
        BY <2>3, <3>4, <4>1
      <4>3. QED BY <3>3, <4>2
    <3>5. QED BY <3>2, <3>4
  <2>5. pc' = "fetch" /\ underway' # <<>> => ~Passes(underway'[1], FetchAsk')
    BY <1>4, <1>6, <1>11, <2>4 DEF Passes
  <2>6. QED BY <1>3, <1>5, <1>7, <1>10, <2>3, <2>5 DEF LateInv
<1>14. QED BY <1>2, <1>12, <1>13

LEMMA InitLate == ASSUME Init PROVE LateInv
<1>1. MasterInit /\ driver \in {"elf", "karat"} /\ open \in BOOLEAN
  BY DEF Init, ElfInit, KaratInit, ElfOpened, KaratOpened, Connected
<1>2. /\ pc = "greet" /\ step = 1 /\ faults = 0 /\ hurt = FALSE
      /\ port = <<>> /\ underway = <<>> /\ rows = {}
  BY <1>1 DEF MasterInit
<1>3. LineInv
  <2>1. 0 \in 0 .. MaxFaults
    BY MasterAssumption
  <2>2. hurt \in BOOLEAN
    BY <1>2, Zenon
  <2>3. QED BY <1>1, <1>2, <2>1, <2>2, Zenon DEF LineInv
<1>4. LateAnswersKeepRows
  BY <1>2 DEF LateAnswersKeepRows, OwnDevice, OneFaultKeepsKind
<1>5. step \in 1 .. Len(KaratKinds)
  BY <1>2, KindsOfKarat
<1>6. QED BY <1>2, <1>3, <1>4, <1>5 DEF LateInv

LEMMA StepLate ==
  ASSUME ElfOnLine, Tries >= 2, LossInv, LateInv, [Next]_vars PROVE LateInv'
<1>1. CASE ElfNext
  BY <1>1, LateGreetElf, LatePresetElf, LateFetchElf DEF ElfNext
<1>2. CASE KaratNext
  BY <1>2, LateGreetKarat, LatePresetKarat, LateFetchKarat DEF KaratNext
<1>3. CASE UNCHANGED masterVars
  <2>1. UNCHANGED <<driver, open, now, pc, at, step, tries, selected, port, underway, rows, faults, hurt>>
    BY <1>3 DEF masterVars
  <2>2. /\ KaratKinds' = KaratKinds /\ Fetched' = Fetched /\ FetchedKind' = FetchedKind
        /\ FetchAsk' = FetchAsk
    BY <2>1, SameKinds DEF Fetched, FetchedKind, FetchAsk
  <2>3. LateAnswersKeepRows'
    BY <2>1 DEF LateInv, LateAnswersKeepRows, OwnDevice, OneFaultKeepsKind
  <2>4. LineInv'
    BY <2>1 DEF LateInv, LineInv, FrameType
  <2>5. QED BY <2>1, <2>2, <2>3, <2>4 DEF LateInv, SaidOf
<1>4. QED BY <1>1, <1>2, <1>3 DEF Next, MasterStep, ServerStep, World, Ended, vars

(* Whatever comes late, is lost or is garbled, and though no answer is     *)
(* compared with the address or the number of its query, no row is a       *)
(* record of another device of the line; and one fault alone brings no     *)
(* record of one kind under another (modbus.c:627, elf2.cpp:225).  A frame *)
(* that comes late meets a write, or a read of another length, before it   *)
(* meets a read of another device or kind.                                 *)
THEOREM LateHarmless == ElfOnLine /\ Tries >= 2 => (Spec => []LateAnswersKeepRows)
<1> SUFFICES ASSUME ElfOnLine, Tries >= 2 PROVE Spec => []LateAnswersKeepRows
  OBVIOUS
<1>1. Init => LossInv /\ LateInv
  BY InitLoss, InitLate
<1>2. LossInv /\ LateInv /\ [Next]_vars => LossInv' /\ LateInv'
  BY StepLoss, StepLate
<1>3. LateInv => LateAnswersKeepRows
  BY DEF LateInv
<1>4. QED BY <1>1, <1>2, <1>3, PTL DEF Spec

-----------------------------------------------------------------------------
(* The beginning of a day or of a month does not come after it.            *)
LEMMA RoundedDown ==
  ASSUME NEW x \in Nat, NEW d \in Nat \ {0} PROVE (x \div d) * d \in 0 .. x
<1>1. x \div d \in Nat /\ x % d \in Nat /\ x = d * (x \div d) + (x % d)
  OBVIOUS
<1>2. (x \div d) * d = d * (x \div d)
  BY <1>1
<1>3. d * (x \div d) \in Nat
  BY <1>1
<1>4. QED BY <1>1, <1>2, <1>3

LEMMA TimesLess ==
  ASSUME NEW a \in Nat, NEW k \in Nat, NEW d \in Nat, k <= d PROVE a * k <= a * d /\ a * k \in Nat
<1>1. d - k \in Nat /\ a * d = a * k + a * (d - k)
  OBVIOUS
<1>2. a * (d - k) \in Nat /\ a * k \in Nat
  BY <1>1
<1>3. QED BY <1>1, <1>2

(* The archives the drivers ask for are of times after the count began.    *)
Deep ==
  \A h \in Nows :
    /\ h > Depth["hour"] /\ h >= HoursPerDay * Depth["day"]
    /\ h >= (HoursPerDay * DaysPerMonth) * Depth["month"]

LEMMA AskedBefore ==
  ASSUME Deep, now \in Nows, NEW kind \in Kinds, NEW k \in 1 .. Depth[kind]
  PROVE  Asked(kind, k) \in 0 .. now
<1>1. /\ now \in Nat /\ HoursPerDay \in Nat \ {0} /\ DaysPerMonth \in Nat \ {0}
      /\ kind \in {"current", "hour", "day", "month"} /\ Depth[kind] \in Nat \ {0} /\ k \in Nat
      /\ k <= Depth[kind]
  BY MasterAssumption DEF Kinds
<1>2. CASE kind = "current"
  BY <1>1, <1>2 DEF Asked
<1>3. CASE kind = "hour"
  BY <1>1, <1>3 DEF Asked, Deep
<1>4. CASE kind = "day"
  <2>1. HoursPerDay * k <= HoursPerDay * Depth["day"] /\ HoursPerDay * k \in Nat
    BY <1>1, <1>4, TimesLess
  <2>2. HoursPerDay * Depth["day"] <= now /\ HoursPerDay * Depth["day"] \in Nat
    BY <1>1, <1>4 DEF Deep
  <2>3. now - HoursPerDay * k \in Nat /\ now - HoursPerDay * k <= now
    BY <1>1, <2>1, <2>2
  <2>4. Day(now - HoursPerDay * k) \in 0 .. now - HoursPerDay * k
    BY <1>1, <2>3, RoundedDown DEF Day
  <2>5. Asked(kind, k) = Day(now - HoursPerDay * k)
    BY <1>4 DEF Asked
  <2>6. QED BY <1>1, <2>3, <2>4, <2>5
<1>5. CASE kind = "month"
  <2> DEFINE hours == HoursPerDay * DaysPerMonth
  <2>1. hours \in Nat \ {0}
    BY <1>1
  <2>2. hours * Depth["month"] <= now /\ hours * Depth["month"] \in Nat
    BY <1>1, <1>5, <2>1 DEF Deep
  <2>3. Asked(kind, k) = Month(now - hours * k)
    BY <1>5 DEF Asked
  <2>4. ASSUME NEW h \in Nat PROVE Month(h) = (h \div hours) * hours
    <3>1. h \div hours \in Nat
      BY <2>1
    <3>2. Month(h) = ((h \div hours) * HoursPerDay) * DaysPerMonth
      BY DEF Month
    <3> HIDE DEF hours
    <3>3. \A n \in Nat : (n * HoursPerDay) * DaysPerMonth = n * (HoursPerDay * DaysPerMonth)
      BY <1>1
    <3>4. QED BY <3>1, <3>2, <3>3 DEF hours
  <2> HIDE DEF hours
  <2>5. hours * k <= hours * Depth["month"] /\ hours * k \in Nat
    BY <1>1, <1>5, <2>1, TimesLess
  <2>6. now - hours * k \in Nat /\ now - hours * k <= now
    BY <1>1, <2>2, <2>5
  <2>7. Month(now - hours * k) \in 0 .. now - hours * k
    BY <2>1, <2>4, <2>6, RoundedDown
  <2>8. QED BY <1>1, <2>3, <2>6, <2>7
<1>6. QED BY <1>1, <1>2, <1>3, <1>4, <1>5

(* The configuration of a driver is as long as its table.                  *)
LEMMA TablesLoaded ==
  /\ Len(ElfTable) = Len(DevElf) /\ Len(KaratTable) = Len(DevKarat) /\ Len(DevKarat) \in Nat
  /\ \A n \in 1 .. Len(DevKarat) : KaratTable[n].device \in Numbers
<1>1. /\ DevElf \in Seq(Nat) /\ DevKarat \in Seq(Nat)
      /\ DOMAIN DevElf = 1 .. Len(DevElf) /\ DOMAIN DevKarat = 1 .. Len(DevKarat)
      /\ Len(DevElf) \in Nat /\ Len(DevKarat) \in Nat
  BY MasterAssumption
<1>2. ASSUME NEW k \in Nat, NEW f, f = [n \in 1 .. k |-> f[n]] PROVE Len(f) = k
  <2>1. f \in Seq({f[n] : n \in 1 .. k}) /\ DOMAIN f = 1 .. k
    BY <1>2
  <2>2. QED BY <2>1, LenProperties
<1>3. /\ ElfTable = [n \in 1 .. Len(DevElf) |-> ElfTable[n]]
      /\ KaratTable = [n \in 1 .. Len(DevKarat) |-> KaratTable[n]]
      /\ \A n \in 1 .. Len(DevKarat) : KaratTable[n].device = DevKarat[n]
  BY <1>1 DEF ElfTable, KaratTable, Loaded
<1>4. Len(ElfTable) = Len(DevElf)
  BY <1>1, <1>2, <1>3
<1>5. Len(KaratTable) = Len(DevKarat)
  BY <1>1, <1>2, <1>3
<1>6. QED BY <1>1, <1>3, <1>4, <1>5 DEF Numbers

(* There is a Karat-307, an archive reaches not beyond the count of the    *)
(* time, and no more ELF are polled than there are in the table.           *)
Polled == ElfOnLine /\ Len(ElfPolled) <= Len(ElfTable) /\ DevKarat # <<>> /\ Deep

KeyedRows ==
  /\ \A w \in rows : w.key.dev \in Numbers /\ w.key.kind \in Kinds
  /\ \A w, x \in rows : w.key = x.key => w = x

MasterTypes ==
  /\ now \in Nows /\ step \in 1 .. 4 /\ tries \in 1 .. Tries /\ left \in Nat \ {0}
  /\ selected \in [Numbers -> [kind : Kinds, date : 0 .. now]]
  /\ KeyedRows
  /\ pc # "greet" => left <= Depth[FetchedKind]
  /\ driver = "karat" => at \in 1 .. Len(DevKarat) /\ step \in 1 .. Len(KaratKinds)

LEMMA KindsInRange ==
  ASSUME LossInv, MasterTypes
  PROVE  /\ FetchedKind \in Kinds /\ Depth[FetchedKind] \in Nat \ {0}
         /\ Len(KaratKinds) <= 4
         /\ ElfOnLine /\ pc # "greet" => Fetched \in Numbers
<1>1. FetchedKind \in {"current", "hour", "day", "month"}
  <2>1. CASE driver = "elf"
    <3>1. step \in 1 .. 3
      BY <2>1 DEF LossInv
    <3>2. QED BY <2>1, <3>1 DEF FetchedKind, ElfKinds
  <2>2. CASE driver = "karat"
    BY <2>2, KindsOfKarat DEF MasterTypes, FetchedKind
  <2>3. QED BY <2>1, <2>2 DEF LossInv
<1>2. FetchedKind \in Kinds /\ Depth[FetchedKind] \in Nat \ {0}
  BY <1>1, MasterAssumption DEF Kinds
<1>3. Len(KaratKinds) <= 4
  BY DEF KaratKinds
<1>4. ElfOnLine /\ pc # "greet" => Fetched \in Numbers
  BY TablesLoaded DEF LossInv, MasterTypes, ElfOnLine, Fetched
<1>5. QED BY <1>2, <1>3, <1>4

LEMMA KeyedKept ==
  ASSUME KeyedRows, NEW c, NEW d \in Numbers, NEW kind \in Kinds, rows' \in Kept(c, d, kind)
  PROVE  KeyedRows'
<1> DEFINE key(reading) == [dev |-> d, kind |-> kind, date |-> Stamp(kind, reading.date)]
           KeysType(r) == \A w \in r : w.key.dev \in Numbers /\ w.key.kind \in Kinds
           Unique(r) == \A w, x \in r : w.key = x.key => w = x
<1>1. \/ rows' = rows
      \/ \E reading : rows' \in {StoreCurrent(rows, key(reading), reading),
                                 StoreArchive(rows, key(reading), reading)}
  BY DEF Kept
<1>2. \A reading : key(reading).dev = d /\ key(reading).kind = kind
  OBVIOUS
<1>3. ASSUME NEW reading, NEW r \in {StoreCurrent(rows, key(reading), reading),
                                     StoreArchive(rows, key(reading), reading)}
      PROVE  KeysType(r) /\ Unique(r)
  <2> DEFINE k == key(reading)
  <2>1. k.dev \in Numbers /\ k.kind \in Kinds
    OBVIOUS
  <2>2. KeysType(rows) /\ Unique(rows)
    BY DEF KeyedRows
  <2> HIDE DEF k
  <2>3. KeysType(StoreCurrent(rows, k, reading)) /\ Unique(StoreCurrent(rows, k, reading))
    BY <2>1, <2>2 DEF StoreCurrent, RowOf
  <2>4. KeysType(StoreArchive(rows, k, reading)) /\ Unique(StoreArchive(rows, k, reading))
    BY <2>1, <2>2 DEF StoreArchive, RowOf
  <2>5. QED BY <2>3, <2>4 DEF k
<1> HIDE DEF key
<1>4. KeysType(rows') /\ Unique(rows')
  BY <1>1, <1>3 DEF KeyedRows
<1>5. QED BY <1>4 DEF KeyedRows

(* The order of the calls, and how many records are left.                  *)
LEMMA OnwardTypes ==
  ASSUME MasterTypes, NEW kinds, NEW last, NEW unset, Onward(kinds, last, unset),
         Len(kinds) \in Nat, step \in 1 .. Len(kinds),
         \A n \in 1 .. Len(kinds) : kinds[n] \in Kinds, left <= Depth[kinds[step]]
  PROVE  /\ step' \in 1 .. Len(kinds) /\ tries' = Tries /\ pc' # "greet"
         /\ left' \in Nat \ {0} /\ left' <= Depth[kinds[step']]
         /\ last \in Nat \ {0} /\ at \in 1 .. last => at' \in 1 .. last
<1>1. tries' = Tries /\ pc' # "greet"
  BY DEF Onward
<1>2. left \in Nat \ {0}
  BY DEF MasterTypes
<1>3. CASE left > 1
  <2>1. left' = left - 1 /\ at' = at /\ step' = step
    BY <1>3 DEF Onward
  <2>2. kinds[step] \in {"current", "hour", "day", "month"}
    BY MasterAssumption DEF Kinds
  <2>3. Depth[kinds[step]] \in Nat
    BY <2>2, MasterAssumption
  <2>4. QED BY <1>1, <1>2, <1>3, <2>1, <2>3
<1>4. CASE ~(left > 1)
  <2>1. step' = (step % Len(kinds)) + 1 /\ left' = Depth[kinds[step']]
        /\ at' \in {at, (at % last) + 1}
    BY <1>4 DEF Onward
  <2>2. step' \in 1 .. Len(kinds)
    BY <2>1
  <2>3. kinds[step'] \in {"current", "hour", "day", "month"}
    BY <2>2, MasterAssumption DEF Kinds
  <2>4. left' \in Nat \ {0} /\ left' <= Depth[kinds[step']]
    BY <2>1, <2>3, MasterAssumption
  <2>5. last \in Nat \ {0} /\ at \in 1 .. last => at' \in 1 .. last
    BY <2>1
  <2>6. QED BY <1>1, <2>2, <2>4, <2>5
<1>5. QED BY <1>3, <1>4

LEMMA GreetTypes ==
  ASSUME Polled, LossInv, MasterTypes, ElfGreet \/ KaratGreet PROVE MasterTypes'
<1>1. /\ driver' = driver /\ now' = now /\ step' = step /\ selected' = selected /\ rows' = rows
      /\ pc = "greet" /\ tries' \in {tries, Tries}
      /\ left' \in {1, left + 1} /\ (pc' # "greet" => left' = 1)
      /\ driver = "karat" => at' \in {at, (at % Len(KaratTable)) + 1}
  BY DEF ElfGreet, KaratGreet
<1>2. /\ step \in 1 .. 4 /\ tries \in 1 .. Tries /\ left \in Nat \ {0}
      /\ driver = "karat" => at \in 1 .. Len(DevKarat) /\ step \in 1 .. Len(KaratKinds)
  BY DEF MasterTypes
<1>3. KaratKinds' = KaratKinds /\ FetchedKind' = FetchedKind
  BY <1>1, SameKinds DEF FetchedKind
<1>4. Depth[FetchedKind] \in Nat \ {0}
  BY KindsInRange
<1>5. left' \in Nat \ {0} /\ tries' \in 1 .. Tries
  BY <1>1, <1>2, MasterAssumption
<1>6. driver = "karat" => at' \in 1 .. Len(DevKarat)
  BY <1>1, <1>2, TablesLoaded
<1>7. pc' # "greet" => left' <= Depth[FetchedKind']
  BY <1>1, <1>3, <1>4
<1>8. KeyedRows'
  BY <1>1 DEF MasterTypes, KeyedRows
<1>9. QED BY <1>1, <1>2, <1>3, <1>5, <1>6, <1>7, <1>8 DEF MasterTypes

LEMMA PresetTypes ==
  ASSUME Polled, LossInv, MasterTypes, ElfPreset \/ KaratPreset PROVE MasterTypes'
<1>1. /\ driver' = driver /\ now' = now /\ step' = step /\ rows' = rows /\ at' = at /\ left' = left
      /\ pc = "preset" /\ tries' \in {Tries, tries - 1} /\ (tries = 1 => tries' = Tries)
  <2>1. tries = 1 => ~(tries # 1)
    OBVIOUS
  <2>2. QED BY DEF ElfPreset, KaratPreset
<1>2. /\ step \in 1 .. 4 /\ tries \in 1 .. Tries /\ left \in Nat \ {0} /\ now \in Nows
      /\ left <= Depth[FetchedKind]
      /\ driver = "karat" => at \in 1 .. Len(DevKarat) /\ step \in 1 .. Len(KaratKinds)
      /\ selected \in [Numbers -> [kind : Kinds, date : 0 .. now]]
  BY <1>1 DEF MasterTypes
<1>3. KaratKinds' = KaratKinds /\ FetchedKind' = FetchedKind
  BY <1>1, SameKinds DEF FetchedKind
<1>4. FetchedKind \in Kinds /\ Depth[FetchedKind] \in Nat \ {0} /\ Tries \in Nat
  BY KindsInRange, MasterAssumption
<1>5. tries' \in 1 .. Tries
  BY <1>1, <1>2, <1>4
<1> DEFINE k == Depth[FetchedKind] - left + 1
           date == Asked(FetchedKind, k)
<1>6. date \in 0 .. now
  <2>1. k \in 1 .. Depth[FetchedKind]
    BY <1>2, <1>4
  <2> HIDE DEF k
  <2>2. QED BY <1>2, <1>4, <2>1, AskedBefore DEF Polled
<1>7. \/ selected' = selected
      \/ \E d : selected' = [selected EXCEPT ![d] = [kind |-> FetchedKind, date |-> date]]
      \/ \E e : selected' = KaratHeard(e, date)
  BY DEF ElfPreset, KaratPreset, FetchedKind
<1> HIDE DEF date
<1>8. selected' \in [Numbers -> [kind : Kinds, date : 0 .. now]]
  <2>1. ASSUME NEW e PROVE KaratHeard(e, date) \in [Numbers -> [kind : Kinds, date : 0 .. now]]
    BY <1>2, <1>6 DEF KaratHeard
  <2>2. ASSUME NEW d
        PROVE  [selected EXCEPT ![d] = [kind |-> FetchedKind, date |-> date]]
                 \in [Numbers -> [kind : Kinds, date : 0 .. now]]
    BY <1>2, <1>4, <1>6
  <2>3. QED BY <1>2, <1>7, <2>1, <2>2
<1>9. KeyedRows'
  BY <1>1 DEF MasterTypes, KeyedRows
<1>10. QED BY <1>1, <1>2, <1>3, <1>5, <1>8, <1>9 DEF MasterTypes

LEMMA FetchTypes ==
  ASSUME Polled, LossInv, MasterTypes, ElfFetch \/ KaratFetch PROVE MasterTypes'
<1>1. /\ driver' = driver /\ now' = now /\ selected' = selected /\ pc = "fetch"
  BY DEF ElfFetch, KaratFetch
<1>2. /\ step \in 1 .. 4 /\ tries \in 1 .. Tries /\ left \in Nat \ {0} /\ now \in Nows
      /\ left <= Depth[FetchedKind]
      /\ driver = "karat" => at \in 1 .. Len(DevKarat) /\ step \in 1 .. Len(KaratKinds)
      /\ selected \in [Numbers -> [kind : Kinds, date : 0 .. now]]
  BY <1>1 DEF MasterTypes
<1>3. KaratKinds' = KaratKinds
  BY <1>1, SameKinds
<1>4. FetchedKind \in Kinds /\ Fetched \in Numbers /\ Tries \in Nat \ {0} /\ Len(KaratKinds) <= 4
  BY <1>1, KindsInRange, MasterAssumption DEF Polled
<1>5. KeyedRows'
  <2>1. rows' = rows \/ \E c : rows' \in Kept(c, Fetched, FetchedKind)
    BY DEF ElfFetch, KaratFetch, Fetched, FetchedKind
  <2>2. CASE rows' = rows
    BY <2>2 DEF MasterTypes, KeyedRows
  <2>3. CASE \E c : rows' \in Kept(c, Fetched, FetchedKind)
    BY <1>4, <2>3, KeyedKept DEF MasterTypes
  <2>4. QED BY <2>1, <2>2, <2>3
<1>6. CASE tries # 1 /\ tries' = tries - 1 /\ pc' = pc /\ at' = at /\ step' = step /\ left' = left
  <2>1. FetchedKind' = FetchedKind /\ tries' \in 1 .. Tries
    BY <1>1, <1>2, <1>3, <1>4, <1>6 DEF FetchedKind
  <2>2. QED BY <1>1, <1>2, <1>3, <1>5, <1>6, <2>1 DEF MasterTypes
<1>7. CASE driver = "elf" /\ Onward(ElfKinds, Len(ElfPolled), {})
  <2>1. Len(ElfKinds) = 3 /\ \A n \in 1 .. 3 : ElfKinds[n] \in Kinds
    BY MasterAssumption DEF ElfKinds, Kinds
  <2>2. step \in 1 .. 3 /\ left <= Depth[ElfKinds[step]]
    BY <1>2, <1>7 DEF LossInv, FetchedKind
  <2>3. step' \in 1 .. 3 /\ tries' = Tries /\ left' \in Nat \ {0} /\ left' <= Depth[ElfKinds[step']]
    BY <1>7, <2>1, <2>2, OnwardTypes
  <2>4. FetchedKind' = ElfKinds[step']
    BY <1>1, <1>7 DEF FetchedKind
  <2>5. QED BY <1>1, <1>2, <1>4, <1>5, <1>7, <2>3, <2>4 DEF MasterTypes
<1>8. CASE driver = "karat" /\ Onward(KaratKinds, Len(KaratTable), {"current"})
  <2>1. Len(KaratKinds) \in Nat /\ \A n \in 1 .. Len(KaratKinds) : KaratKinds[n] \in Kinds
    BY KindsOfKarat, MasterAssumption DEF Kinds
  <2>2. step \in 1 .. Len(KaratKinds) /\ left <= Depth[KaratKinds[step]]
    BY <1>2, <1>8 DEF FetchedKind
  <2>3. /\ step' \in 1 .. Len(KaratKinds) /\ tries' = Tries /\ left' \in Nat \ {0}
        /\ left' <= Depth[KaratKinds[step']]
        /\ Len(KaratTable) \in Nat \ {0} /\ at \in 1 .. Len(KaratTable) => at' \in 1 .. Len(KaratTable)
    BY <1>8, <2>1, <2>2, OnwardTypes
  <2>4. at' \in 1 .. Len(DevKarat)
    BY <1>2, <1>8, <2>3, TablesLoaded
  <2>5. FetchedKind' = KaratKinds[step']
    BY <1>1, <1>3, <1>8 DEF FetchedKind
  <2>6. step' \in 1 .. 4
    BY <1>4, <2>1, <2>3
  <2>7. QED BY <1>1, <1>2, <1>3, <1>4, <1>5, <1>8, <2>3, <2>4, <2>5, <2>6 DEF MasterTypes
<1>9. QED BY <1>6, <1>7, <1>8 DEF ElfFetch, KaratFetch

(* What the drivers keep of what they poll.                                *)
LEMMA InitMaster == ASSUME Polled, Init PROVE MasterTypes
<1>1. MasterInit /\ driver \in {"elf", "karat"}
  BY DEF Init, ElfInit, KaratInit
<1>2. /\ now \in Nows /\ pc = "greet" /\ at = 1 /\ step = 1 /\ left = 1 /\ tries = 1 /\ rows = {}
      /\ selected = [d \in Numbers |-> [kind |-> "current", date |-> 0]]
  BY <1>1 DEF MasterInit
<1>3. "current" \in Kinds /\ now \in Nat /\ Tries \in Nat \ {0}
  BY <1>2, MasterAssumption DEF Kinds
<1>4. 0 \in 0 .. now
  BY <1>3
<1>5. selected \in [Numbers -> [kind : Kinds, date : 0 .. now]]
  BY <1>2, <1>3, <1>4
<1>6. at \in 1 .. Len(DevKarat)
  <2>1. DevKarat \in Seq(Nat) /\ DevKarat # <<>>
    BY MasterAssumption DEF Polled
  <2>2. Len(DevKarat) \in Nat \ {0}
    BY <2>1, EmptySeq
  <2>3. QED BY <1>2, <2>2
<1>7. step \in 1 .. Len(KaratKinds)
  BY <1>2, KindsOfKarat
<1>8. step \in 1 .. 4 /\ tries \in 1 .. Tries /\ left \in Nat \ {0}
  BY <1>2, <1>3
<1>9. KeyedRows
  BY <1>2 DEF KeyedRows
<1>10. QED BY <1>2, <1>5, <1>6, <1>7, <1>8, <1>9 DEF MasterTypes

LEMMA StepMaster == ASSUME Polled, LossInv, MasterTypes, [Next]_vars PROVE MasterTypes'
<1>1. CASE ElfGreet \/ KaratGreet
  BY <1>1, GreetTypes
<1>2. CASE ElfPreset \/ KaratPreset
  BY <1>2, PresetTypes
<1>3. CASE ElfFetch \/ KaratFetch
  BY <1>3, FetchTypes
<1>4. CASE UNCHANGED masterVars
  <2>1. UNCHANGED <<driver, now, pc, at, step, left, tries, selected, rows>>
    BY <1>4 DEF masterVars
  <2>2. KaratKinds' = KaratKinds /\ FetchedKind' = FetchedKind
    BY <2>1, SameKinds DEF FetchedKind
  <2>3. KeyedRows'
    BY <2>1 DEF MasterTypes, KeyedRows
  <2>4. QED BY <2>1, <2>2, <2>3 DEF MasterTypes
<1>5. QED
  BY <1>1, <1>2, <1>3, <1>4
     DEF Next, MasterStep, ElfNext, KaratNext, ServerStep, World, Ended, vars

(* The line stays as it should be, whatever call is made on it.            *)
LEMMA StepLine == ASSUME LineInv, [Next]_vars PROVE LineInv'
<1>1. ASSUME NEW ask \in Queries, NEW of, NEW present \in BOOLEAN,
             \E c \in Calls(ask, of, present) : Took(c), open' = open
      PROVE  LineInv'
  BY <1>1, LineStep
<1>2. /\ \A n \in Nat \ {0} : ReadRegisters(n) \in Queries
      /\ \A n \in Nat \ {0} : PresetRegisters(n) \in Queries
      /\ \A e : ElfPresent(e) \in BOOLEAN /\ KaratPresent(e) \in BOOLEAN
  BY DEF ReadRegisters, PresetRegisters, Query, Queries, ElfPresent, KaratPresent
<1>3. CASE ElfGreet
  <2> DEFINE n == IF left = 1 THEN 4 ELSE 3
  <2>1. n \in Nat \ {0}
    OBVIOUS
  <2>2. open' = open /\ \E c \in Calls(ReadRegisters(n), Junk, ElfPresent(ElfTable[at])) : Took(c)
    BY <1>3 DEF ElfGreet
  <2> HIDE DEF n
  <2>3. QED BY <1>1, <1>2, <2>1, <2>2
<1>4. CASE KaratGreet
  <2> DEFINE n == IF left = 1 THEN 27 ELSE 4
  <2>1. n \in Nat \ {0}
    OBVIOUS
  <2>2. open' = open /\ \E c \in Calls(ReadRegisters(n), Junk, KaratPresent(KaratTable[at])) : Took(c)
    BY <1>4 DEF KaratGreet
  <2> HIDE DEF n
  <2>3. QED BY <1>1, <1>2, <2>1, <2>2
<1>5. CASE ElfPreset
  <2>1. open' = open /\ PresetRegisters(7) \in Queries
    BY <1>2, <1>5 DEF ElfPreset
  <2>2. PICK c \in Calls(PresetRegisters(7), Junk, TRUE) : Took(c)
    BY <1>5 DEF ElfPreset
  <2>3. QED BY <2>1, <2>2, LineStep
<1>6. CASE KaratPreset
  <2>1. open' = open /\ \E c \in Calls(PresetRegisters(2), Junk, KaratPresent(KaratTable[at])) : Took(c)
    BY <1>6 DEF KaratPreset
  <2>2. QED BY <1>1, <1>2, <2>1
<1>7. CASE ElfFetch
  <2>1. open' = open /\ ReadRegisters(80) \in Queries
    BY <1>2, <1>7 DEF ElfFetch
  <2>2. PICK of : \E c \in Calls(ReadRegisters(80), of, TRUE) : Took(c)
    BY <1>7 DEF ElfFetch
  <2>3. QED BY <2>1, <2>2, LineStep
<1>8. CASE KaratFetch
  <2> DEFINE n == IF KaratKinds[step] = "current" THEN 110 ELSE 120
  <2>1. n \in Nat \ {0}
    OBVIOUS
  <2>2. /\ open' = open
        /\ \E of : \E c \in Calls(ReadRegisters(n), of, KaratPresent(KaratTable[at])) : Took(c)
    BY <1>8 DEF KaratFetch
  <2> HIDE DEF n
  <2>3. QED BY <1>1, <1>2, <2>1, <2>2
<1>9. CASE UNCHANGED masterVars
  <2>1. UNCHANGED <<open, port, underway, faults, hurt>>
    BY <1>9 DEF masterVars
  <2>2. QED BY <2>1 DEF LineInv, FrameType
<1>10. QED
  BY <1>3, <1>4, <1>5, <1>6, <1>7, <1>8, <1>9
     DEF Next, MasterStep, ElfNext, KaratNext, ServerStep, World, Ended, vars

(* The types, together.                                                    *)
LEMMA WellTyped ==
  ASSUME Polled, LossInv, LineInv, MasterTypes, SlaveTypeOK, side \in {"master", "slave"}
  PROVE  TypeOK
<1>1. /\ driver \in {"elf", "karat"} /\ open \in BOOLEAN /\ now \in Nows
      /\ pc \in {"greet", "preset", "fetch"}
      /\ step \in 1 .. 4 /\ left \in Nat \ {0} /\ tries \in 1 .. Tries
      /\ selected \in [Numbers -> [kind : Kinds, date : 0 .. now]]
  BY DEF LossInv, MasterTypes
<1>2. at \in 1 .. IF driver = "elf" THEN Len(DevElf) ELSE Len(DevKarat)
  <2>1. CASE driver = "elf"
    <3>1. at \in 1 .. IF pc = "greet" THEN Len(ElfTable) ELSE Len(ElfPolled)
      BY <2>1 DEF LossInv
    <3>2. /\ Len(ElfPolled) <= Len(ElfTable) /\ Len(ElfTable) = Len(DevElf)
          /\ Len(ElfPolled) \in Nat /\ Len(ElfTable) \in Nat
      BY TablesLoaded DEF Polled, ElfOnLine
    <3>3. at \in 1 .. Len(DevElf)
      BY <3>1, <3>2
    <3>4. QED BY <2>1, <3>3
  <2>2. CASE driver = "karat"
    BY <2>2 DEF MasterTypes
  <2>3. QED BY <1>1, <2>1, <2>2
<1>3. /\ \A f \in {port[n] : n \in DOMAIN port} \cup {underway[n] : n \in DOMAIN underway} :
           f.len \in Nat \ {0} /\ f.good \in BOOLEAN /\ f.exc \in BOOLEAN
      /\ Len(underway) <= 1
  <2>1. port = <<>>
    BY DEF LineInv
  <2>2. CASE underway = <<>>
    BY <2>1, <2>2
  <2>3. CASE underway = <<underway[1]>> /\ FrameType(underway[1])
    <3> DEFINE g == underway[1]
    <3>1. underway = <<g>> /\ FrameType(g)
      BY <2>3
    <3> HIDE DEF g
    <3>2. {port[n] : n \in DOMAIN port} \cup {underway[n] : n \in DOMAIN underway} = {g}
      BY <2>1, <3>1
    <3>3. QED BY <3>1, <3>2 DEF FrameType
  <2>4. QED BY <2>2, <2>3 DEF LineInv
<1>4. /\ \A w \in rows : w.key.dev \in Numbers /\ w.key.kind \in Kinds
      /\ \A w, x \in rows : w.key = x.key => w = x
  BY DEF MasterTypes, KeyedRows
<1>5. faults \in 0 .. MaxFaults /\ hurt \in BOOLEAN
  BY DEF LineInv
<1>6. MasterTypeOK
  BY <1>1, <1>2, <1>3, <1>4, <1>5, Zenon DEF MasterTypeOK
<1>7. QED BY <1>6 DEF TypeOK

(* The types of the drivers and the server, for any tables, tries, faults  *)
(* and clients.  There is more in them than ranges: one row for a key and  *)
(* a device of the tables in each (func.cpp:183, :243), and never more     *)
(* than one frame on its way, however many calls give up (modbus.c:446).   *)
THEOREM ModbusTyping == Polled => (Spec => []TypeOK)
<1> SUFFICES ASSUME Polled PROVE Spec => []TypeOK
  OBVIOUS
<1> DEFINE Inv == /\ LossInv /\ LineInv /\ MasterTypes /\ ServerInv
                  /\ side \in {"master", "slave"}
<1>1. ElfOnLine
  BY DEF Polled
<1>2. Init => Inv
  <2>1. Init => side \in {"master", "slave"}
    BY DEF Init
  <2>2. QED BY <1>1, <2>1, InitLoss, InitLate, InitMaster, InitServer DEF LateInv
<1>3. Inv /\ [Next]_vars => Inv'
  <2>1. [Next]_vars => side' = side
    BY DEF Next, MasterStep, ServerStep, World, Ended, vars
  <2>2. side \in {"master", "slave"} /\ side' = side => side' \in {"master", "slave"}
    OBVIOUS
  <2>3. QED BY <1>1, <2>1, <2>2, StepLoss, StepLine, StepMaster, StepServer
<1>4. Inv => TypeOK
  BY WellTyped DEF ServerInv
<1>5. QED BY <1>2, <1>3, <1>4, PTL DEF Spec
=============================================================================
