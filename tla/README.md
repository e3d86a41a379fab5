# A verification project for EnergoSCADA

EnergoSCADA (`src/`) collects readings from heat, gas and electricity meters. One
process, the *kernel*, runs a thread per kind of meter; each thread polls its
devices over a serial line, a CAN bus, TCP or UDP and stores current values and
archives in MySQL. An HTTP server and a Modbus server in the same process answer
queries, and a shell script restarts the kernel when it is gone. The program has no
tests and next to no documents; what it promises is said by its comments, its table of
flags and its log lines. These TLA+ modules say what it does, TLC checks it on small
instances, and TLAPS proves the main properties for all of them.

## Inventory

| component | state it keeps | operations | how it interacts |
|---|---|---|---|
| process and dispatcher (`kernel.cpp`, `kernel.h`, `main.h`, `watcher.sh`) | `WorkRegim`, `isConfigurated`, the configuration `dk`, a running flag per driver | `initkernel`, a pass a minute: `LoadDKConfig`, `StartThreads`, test of `regim` | creates the driver threads, reads the row of `dev_dk` the web pages write, is restarted by `watcher.sh` |
| driver threads (all of the below, and `tsrv`) | their own flag, device tables, ports, in file-level statics | set-up, a loop of passes, a stop check, an end | share the flags, `WorkRegim`, `dk`, `currenttime` with the dispatcher, without locks |
| Tekon-19 (`tecon_19.cpp`) | channels, link state, position of a walk | current values; walks over hour, day and month archives by record number | UDP request and answer; `StoreData` |
| LK bus (`lk.cpp`) | concentrators and heat modules, `qerrors`, `conn`, `akt` | greeting and poll with two attempts, booking of failures | RS-485 or CAN; UPDATEs of `device` |
| ELF, Karat-307 (`elf2.cpp`, `karat.cpp`) over `libmodbus` | position of the walk; in the meter: the record wanted | write the wanted record, read it, three tries each | serial line without a flush before a query |
| KM-5, VKT-7, IRP (`km_5.cpp`, `vkt.cpp`, `irp.cpp`) | the last answer in an array, `qerrors`; VKT: list, type and date in the meter | current values, walks backwards through archives | serial line or TCP; differences of two pipes from the rows stored |
| Mercury 230 / SET-4TM, CE303, CE102 (`mercury230.cpp`, `ce303.cpp`, `ce102.cpp`) | the last answer, `qerrors`, `serial`, the record number of a walk | session, current values, half hours, days, months | serial line, also behind a concentrator |
| Modbus server (`modbus_slave.cpp`) | listening socket, one connection, the registers | refresh from the database, wait for a query, answer | TCP clients; `modbus_manage_query` writes into the same registers |
| HTTP server (`crq.cpp`) | listening socket, the statics `ans`, `query`, `res`, `dbase` | accept loop, a thread per connection | shares the statics among the handlers; `exit` ends the process |
| storage functions (`func.cpp`) | none of their own | `StoreData` (look, then insert or update), `UpdateThreads`, `Events`, `ULOGW` | called by all drivers; `ULOGW` calls `localtime` |
| database handle (`db.cpp`) | a connection and the last result | `sqlconn`, `sqlexec`, `sqldisconn` | one per file that uses it, shared by the threads of that file |
| shared time (`localtime`) | one static `struct tm` | every `localtime` of any thread | `currenttime` points to it |

Not part of the built program (see the Makefile's target `kernel`): the drivers
`adam`, `dk8072`, `ecom3000`, `elf`, `hart`, `set_4tm`, `spg7xx`, `tecon_17`,
`tecon_19_gsm`, `modbus`, `mdm`, `viewpac`, the tools `service`, `eval_flats`, `wdt`.
`vis-t` and `panel` are linked but never started.

What is hard here, and what makes each part correct:

* **Threads and flags.** A flag is stored by two threads, after the fact, and read
  by a third. Correct: never two threads on one port and one set of statics
  (`OneThreadPerSlot`), a flag that stands for a thread (`FlagTruthful`; what happens
  when it does not: `StrandedStays`), a driver that runs when it should and ends when
  it should (`EnabledRuns`, `SwitchedOffStops`, `ShutdownDrains`).
* **Record numbers and dates.** An archive is asked for by record number and stored by
  date; both are computed, apart from each other, from the local time. Correct:
  they keep pace over midnight, leap days, new years and the turn of a ring
  (`HourSlotAdvances`, `RecordsAdvance`, `DatesKeepPace`; `HoursArePaired` in
  `RowsAreOwn` for the half hours of a Mercury, `HoursAreTrue` in `KmRowsAreTrue` for the
  labels of a KM-5).
* **Answers that are lost, late, wrong or refused.** Hardly any driver compares an
  answer with its request. What protects a row is something else each time: a write of
  another length before each read (`LateAnswersKeepRows`), a request for the newest
  record before each walk (`KmRowsAreTrue`), the name in the answer (`CeNamesProtect`),
  a check sum over everything that came (`RowsAreOwn`). Correct: a row is of its device,
  kind and date (`LedgerSpec`, `LossesAreHarmless`, `RowsAreEarned`, `IrpRowsAreOwn`, ...),
  and the line gets back into step (`Realigned`).
* **Loss and retry.** The only retry of an archive is the next walk. Correct: gaps are filled
  while they can be (`CatchesUp`, `RecordsArrive`, `MonthsArrive`).
* **Link state.** Failures are counted by several functions and compared with a limit
  by one. Correct: the row says what the polls met (`LinkTruthful`, `RowsAreEarned`,
  `DeadIsShown`, `ConcentratorStaysUp`, `SilenceKeepsLink`, `SilenceIsNoticed`).
* **Statics shared without locks, servers with one of everything.**
  `AnswersOwnRequest`, `StaleOnlyAtReconnect`, `ListensUnlessHeld` for the HTTP
  server; `RepliesAreTrue`, `OnlyFirstClient`, `Answered` for the Modbus server; `MisdatedAsNow`, `CurrentOrWalked` for the shared time.

`PROJECT.json` lists the hazards with the line where each bites and the properties
that would catch it going wrong. Several properties are conjunctions of parts with
names and comments of their own (`RowsAreOwn` of four, `KmRowsAreTrue` of three).

Hazards without a property, and why:

* *Nothing says what should happen:* `kernel.cpp:79` sets `regim` to 3, so a request to
  finish made while the process was down is lost; `func.cpp:193` fetches a row of the
  result of a SELECT that failed, and the process ends (it is restarted:
  `EnabledRuns`); `crq.cpp:748` turns an interval into a type other than the one months
  are stored under; `ce303.cpp:180` stores the energy in the row of the power;
  `func.cpp:347` has a switch without breaks, so every poll is booked as increments.
* *No bound is in the code:* the devices of `initkernel` (`kernel.cpp:102`), the results
  `dev_info` does not free (`crq.cpp:453`), the ports and connections each switching off
  leaves open (`km_5.cpp:83`), the channels a restart appends (`km_5.cpp:366`; those of
  Tekon, `tecon_19.cpp:505`, are in `LedgerSpec`).
* *Decided outside this code:* which concentrator feels addressed by an identifier two of them
  have (`lk.cpp:2101`), whether the CAN converter answers (`lk.cpp:2158`) or a VKT-7
  does (`vkt.cpp:230`, a read that blocks for ever), what two readers of one
  terminal get (`mercury230.cpp:846`), what lies behind an array of four bytes
  (`elf2.cpp:178`).
* *A text or constant that is wrong in every state:* the year test and the INSERT of
  the TSRV (`tsrv.cpp:395`, `:379`); the UPDATE that sets `conn` for all devices of the
  type (`irp.cpp:445`); the switch of CE102 that is no longer loaded, so that its
  thread ends after the first meter (`ce102.cpp:63`); the loop over the meters that
  includes the index after the last one (`mercury230.cpp:101`).

## Modules

**Drivers** is data: the start plan (`StartThreads`, entry by entry: the flag it
tests and the switches it wants) and a profile of each thread function: how set-up
can end it, whether it has a live stop check and which switches that reads, whether
the loop clears the flag the dispatcher tests, and so on.

**Kernel** is the process: `Boot` (`watcher.sh` and `initkernel`), the dispatcher's
steps, one action per step of a driver thread, the `Operator` who edits `dev_dk`,
`Crash`. The store of a flag (`Mark`) is a step of its own after `pthread_create`
(`Spawn`), because the new thread runs in between. `dk` is the configuration in
memory, `row` the one in the table. Threads have identifiers that are reused, so
that two threads for a slot are a possible state. **MCKernel** adds the symmetry.

**TekonCalendar** is the arithmetic of `ReadAllArchive` on a calendar whose only
behaviour is the passing of an hour: `HourSlot`, `DayWalk` and `MonthSlot` are the
record numbers asked for, the dates in `DayWalk` and `MonthDates` are those written
against them. The calendar itself (`Leap`, `MonthOf`, ...) stands for `localtime`.

**Ledger** is what an archive promises: an entry is made once, with the reading of
its own channel and hour, and stays. **Tekon** is the driver thread over one device:
start, socket, greeting, current value, hour walk, stop, crash, with `StoreData` and
the socket inside the actions. `socket` holds the datagrams not yet received: a late
answer is simply there when the next read takes the first one. `HourSlot` is a parameter
of which only the facts proved of TekonCalendar's are assumed. `LedgerSpec` is the
refinement `INSTANCE Ledger WITH book <- data`. **MCTekon** gives `HourSlot` a ring of
`Ring` records.

**Clock** is the static struct of `localtime` (`tm`): walkers convert the hour of a
record into it and format the date from it in the next step; stampers date a current
value from `currenttime`; log lines and the dispatcher refresh it at any time.

**Crq** is the HTTP server. `sqlexec` is two steps, because two handlers interleave
between the query and the fetch of its result; a result is identified by the
connection that formatted its query and the one whose parameters were in `ans`.
`live` are the results allocated; `intact` falls when one is read or freed after it was
freed. A socket is "lost" on the paths that end a handler without closing it.

**Line** is a half-duplex line whose reads take all the bytes there are. **Lk** is the LK
driver over it: `pc` follows the thread through a pass, `attempt` through the two
attempts of a poll; `mem` are the members of the module objects, `row` the column
`conn` of `device`, `missed` counts the polls of a module that stored nothing.

**ModbusLib** is libmodbus as it is used here: frames are records whose bytes only
count, `Receive` takes as many as the query expects and flushes where the code does,
`Managed` is what a server answers. **Master** is what the two drivers over it share:
the outcomes of a call (`Calls`), the position of the walk, the record each meter was
asked for last (`selected`). **Elf** and **Karat** are the drivers: greeting, write of the
wanted record, read. **Slave** is the server and its clients. **Modbus** composes them;
they have only the database in common, so a behaviour is of one of the two masters or
of the server.

**Tables** are the two forms of `StoreData`: a current row is overwritten, the first
archive row of a date stays; `StoreArchives` stores the days of one block. **HeatBase** is what the drivers of heat and power meters
have in common: a request and the read after it (`Heard`, `Gets`), the array the last
answer is left in (`buffer`), the count of failures, the passing of time and the
falling silent of a meter. **Km5**, **Vkt**, **Irp** and **Mercury**, **Ce303**, **Ce102** are
the drivers, an action per request of a round; **Heat** and **Power** compose them, one
driver in a behaviour, and state what their rows are worth. Values are
`[kind, n, since, dev]`: what was measured, in which hour, day or month, since when (a
difference), by which meter.

**MC...** modules only carry the configurations. **...Proofs** hold the proofs.
Operators whose comment begins with "Mutant" are variants with a plausible mistake;
each property is known to fail when one of them takes the place of the code's (a
conjunction through one of its parts).

## Runs

| run | question | instance |
|---|---|---|
| `kernel_threads` | Do the flags keep one thread per driver, and mean a thread? | Mercury (two start-plan entries, one flag), the HTTP server (ends in set-up or by itself, before or after its flag is set), LK without a concentrator; three threads |
| `kernel_life` | Does what should run run, and what should end end? | Tekon (always startable, may miss the stop check) and CE303 (gated), two threads |
| `calendar` | Do numbers and dates keep pace? | every hour of 2008-2013 |
| `tekon_lost` | Is the archive the ledger, and do gaps get filled? | two channels, lost answers, failed inserts, a restart, crashes |
| `tekon_answers` | Is a stored value the answer to its request? **No**, when one is late | one channel |
| `clock_walk` | What can the shared time do to a date? | one walker, one stamper |
| `crq_serial` | Is the HTTP server right for one client at a time? | every kind of request, every fault, two sockets |
| `lk` | Do the rows say what the polls met, and whose are they? | two concentrators, two modules behind the first, CAN |
| `modbus` | What do lost, late and garbled calls do to the rows; what do clients get? | two ELFs; two Karats, one of them with no row in `device`; three registers, two clients |
| `modbus_checksum` | Is a row made of an answer whose check sum is right? **No** | the same drivers, garbled answers |
| `heat` | What is a row worth, which hours and days get one, is silence noticed? | KM-5 with three channels of two meters, one VKT-7, two IRPs |
| `power` | The same of power meters, and is each asked again? | a Mercury behind a concentrator and a SET-4TM, two CE303, two CE102 |

The two runs that end in a violation are the findings of `PROJECT.json`, each with the
comment it contradicts.

Bounds and why they are enough:

* *Threads.* Two are what a violation of `OneThreadPerSlot` needs; the third of
  `kernel_threads` lets the other slots be busy meanwhile. A thread works for one slot
  and slots interact only through the dispatcher.
* *Calendar.* 2008-2013 has two leap years, years of all four remainders, and all
  turns of the month ring; the hour ring turns 28 times.
* *Tekon.* A walk of two records (`Span` = 1) has a first and a last one; two
  channels show a value under the wrong one; `Alarm` = 1 stands for 15, the count is
  capped one above it; one tick (`Horizon`) puts the change of the hour at every
  point of a pass, and the walks of the first hour end at record 0, where the ring
  has turned; `MaxChan` = 4 is one restart in the process.
* *Crq.* A second socket lets a leaked one remain while the server goes on; both of
  them leaked are the limit of descriptors.
* *Clock.* `Span` = 2, `Lag` = 1: the walk's hours and the hours of now are apart,
  and time passes during a walk.
* *Lk.* A second concentrator is what hides a dead first one; one module may die
  (`Mortal`), one answer be late or garbled (`MaxUpsets`), losses are not bounded.
  `Alarm` = 1 stands for 6.
* *Modbus.* Two faults are one more than `OneFaultKeepsKind` in `LateAnswersKeepRows` speaks of and one
  fewer than the three tries of `LossesAreHarmless`; a third changes nothing that the proof
  of the latter does not cover. One answer may be garbled beside them. The quantities
  of registers are the code's, because their lengths matter.
* *Heat* and *Power.* Times are few: three of the KM-5 and VKT around the end of a
  day (three hours long; a walk of `Depth` = 5 records reaches back over the beginning of
  one, so that both hours a difference of two may end with occur), eight days of the IRPs around the turn of a ring of six
  and of a year, three half hours around the end of a day, a month and a year
  (`HoursPerDay` = 1, `DaysPerMonth` = 2, `MonthsPerYear` = 3) and of the ring of 16.
  Three things are restrictions: the time goes on only after the driver has made a
  whole round (a round takes minutes), a meter falls silent for good only in
  behaviours without other faults, and a late answer comes by the next read. In
  one behaviour there is one fault (`MaxFaults`), two with the VKT-7 and the CE303; the
  KM-5's invariants also hold with two, while those of the Mercury and of the IRPs
  do not, which is why their comments say "one".

Deadlock is checked everywhere but in the calendar, whose last hour has no successor;
the states in which a driver has ended or hangs have an action that says so.

### Fairness

`Kernel`: `watcher.sh` looks every ten seconds, the dispatcher and `main` only
sleep, and the reads of a driver time out, so their steps are weakly fair. Queries,
thread creations and openings of a port that are tried again and again succeed in
the end (strong fairness of `Load`, of a creation for a slot, of reaching the stop
check). The Modbus and HTTP servers wait for peers without a bound and are not fair,
nor are the operator, crashes, or the end of the dispatcher's 172 × 3600 rounds.

`Tekon`: the thread's steps and time are weakly fair. That every channel's archive is
read again and again (the first twenty minutes of an hour skip it), and that a value
asked for again and again is stored in the end, is strong fairness; `CatchesUp` is
about a driver that stays up, so it assumes nothing of crashes.

`Crq`: the handlers run and `StartThreads` looks every minute. Nothing is assumed of
clients: `recv` has no timeout, so a handler that waits for its request may wait for
ever, and `ListensUnlessHeld` has that as an exception.

`Lk`, `Modbus`, `Heat`, `Power`: the thread of the driver or of the server is weakly
fair, because its reads and sleeps end; where one does not (a VKT-7 that does not
answer) the driver is in a state of its own (`VktHung`). Faults, time, clients and the
dying of a meter are never fair. The server's `select` ends after a minute, which is what
`Answered` rests on.

## What the model found

Findings with a run:

* `tecon_19.cpp:790`: a late answer is stored, for good, under the next hour (`tekon_answers`).
* `libmodbus modbus.c:591`: the value of the check of the sum is dropped; a garbled
  answer becomes the lasting row of its date (`modbus_checksum`).

Stated by the shape of a property, and shown by the runs that pass:

* Kernel: `lk.cpp:94` returns with `lk_thread` TRUE; without a concentrator at the first
  start the LK driver never starts again in this process (`StrandedStays`).
* Tekon: a value read in January gets month 00, or 48 (line 343); the first
  two days of a year are never read from the day archive (both in `DatesKeepPace`);
  channels are counted again after a restart and store nothing (`tekon_lost`).
* Clock: an archive walk changes the current time under other drivers
  (`tecon_19.cpp:271`, `CurrentOrWalked`, `MisdatedAsNow`).
* Crq: of two requests at once one may get the other's rows (`crq.cpp:327`), so
  `AnswersOwnRequest` is checked for one client at a time; a double free in
  `sqldisconn` (`StaleOnlyAtReconnect`); sockets that are never closed (`ListensUnlessHeld`).
* Lk: an answer to the second attempt is thrown away and booked as a failure
  (`lk.cpp:148`); two UPDATEs have their arguments exchanged (`OnlyOwnRows`); with a second
  concentrator in use a dead one is never shown (`ConcentratorStaysUp`).
* Modbus: a late answer shifts those of the following calls, and for good if what is cut
  off always misses the flush (`Realigned`); the server refuses a query for one value and
  every later one of that client (`RepliesAreTrue`), and serves only the first client of
  its life (`OnlyFirstClient`).
* KM-5: the last hour of a day has no row of its own, because its label is 0
  (`km_5.cpp:205`); for the same reason a difference at the beginning of a day may span two
  hours without any loss, and after a gap all of it (`KmRowsAreTrue`); the
  event of a silent meter is not kept (`func.cpp:72`). VKT-7: a refused choice of list or
  type puts one kind of record under another for good (`RefusedDatesAreHarmless`). IRP: the
  days in the first and last place of the ring and the last days of a year are never
  read (`RecordsArrive`); the alarm at "equal 6" is jumped over by steps of three
  (`SilenceIsNoticed`).
* Mercury: a silent meter stays shown as connected (`SilenceKeepsLink`); December has month
  13 and no row (`MonthsArrive`); a concentrator's refusal is stored as the value before,
  and halves of two hours are paired at the ring's ends (`RowsAreOwn`); the walk of a SET-4TM counts an unsigned number below zero
  (`EachIsAsked`). CE102: the thread ends after its first meter, the others are never asked
  (the property speaks of the Mercury for that reason).

## Proofs

| theorem | module | says |
|---|---|---|
| `TypeCorrect`, `OneThread`, `TruthfulFlags`, `Stranded` | KernelProofs | `TypeOK`, `OneThreadPerSlot`, `FlagTruthful`, `StrandedStays` |
| `CalendarType`, `HourRecords`, `DayAndMonthRecords`, `DaysAndMonths` | TekonCalendarProofs | `TypeOK`, `HourSlotAdvances`, `RecordsAdvance`, `DatesKeepPace`, for all years 2000-2099 |
| `TekonType`, `LinkState`, `FirstValueStays`, `DriverKeepsLedger` | TekonProofs | `TypeOK`, `LinkTruthful`, that a value once stored stays (`WriteOnce`); the refinement `LedgerSpec` when answers are only lost |
| `CrqType`, `SerialAnswers`, `SerialFrees` | CrqProofs | `TypeOK`; `AnswersOwnRequest` and `StaleOnlyAtReconnect` for one client at a time |
| `ClockType`, `CurrentDates`, `OneWalkDates` | ClockProofs | `TypeOK`, `CurrentOrWalked` for any number of threads; `MisdatedAsNow` for one walk at a time |
| `LkType`, `LkConcentrator`, `LkOwnRows`, `LkRows` | LkProofs | `TypeOK`, `ConcentratorStaysUp`, `OnlyOwnRows`, `RowsAreEarned` |
| `ServerReplies`, `ServerHasOneClient` | ModbusProofs | `RepliesAreTrue`, `OnlyFirstClient` |
| `LossesHarmless`, `LateHarmless`, `ModbusTyping` | ModbusProofs | `LossesAreHarmless`; `LateAnswersKeepRows` for two tries or more; `TypeOK` |
| `KmRows`, `VktRefusals`, `IrpRows`, `HeatTypeOK` | MeterProofs | `KmRowsAreTrue` for days of three hours or more; `RefusedDatesAreHarmless`; `IrpRowsAreOwn` for one fault at most; `TypeOK` |
| `LinkStays`, `CeNames`, `PowerRows`, `PowerTyping` | MeterProofs | `SilenceKeepsLink` for meters with different numbers; `CeNamesProtect`; `RowsAreOwn` for one fault at most; `PowerTypeOK` |

Every invariant of every run that passes is stated by one of these theorems, and so is
every action property. `TypeOK` of Kernel, TekonCalendar, Tekon, Crq, Clock and Lk is no
property of a run; that of Modbus, Heat and Power (`PowerTypeOK`) is, because a row of
which there are two for a key is a mistake a run should find.

The assumptions are those the modules state (`KernelAssumption`, `TekonAssumption`,
`LkAssumption`, ...), which TLC evaluates in the runs, and those in the statement of a
theorem, which the instances of the runs satisfy.

*Kernel.* `OneThreadPerSlot` alone is not inductive: it must be known that a thread's
slot is flagged, or about to be (`Flagged`), which is why the dispatcher does not want
it. `FlagTruthful` needs more: the thread a flag is being set for (`Pending`) cannot
end meanwhile, because the switches it was created for can only change in `Load`,
which waits for the walk to end, and because a reliable thread stops only for its
switches or for `WorkRegim`. `Phase` ties `WorkRegim` to where the dispatcher is.

*TekonCalendar.* A new year adds the days of the old one to `DayCount` (`YearTurn`,
by remainder of the year), and 24 records modulo 64 days are one ring (`NextDaySlot`).
A record of the day walk is dated one day after its number, in the year of yesterday
(`WalkShape`), and the walk is empty on the second day of a year. Every day lies in a month
(`AMonth`), and the next day in the same one or the next (`NextMonth`).

*Tekon.* `NothingLeft` says the socket is empty between requests when answers are only lost, and
`InStep` that in a walk the record number is the one of the hour in hand, down to the
end of the walk, among hours the device still holds. With `SlotAssumption` (numbers
step by one, hours held have their own) the value that comes is that of the hour it is
stored under, so a step of `StoreData` is `Enter` of the ledger or a stutter.

*Crq.* `SerialInv`: at most one handler is at work; what it has left for its next step
(`ans`, `query`, `wire`, `res`) is its own, and the result it holds is live.

*Clock.* `ClockInv` says of each thread between two steps what `tm` may hold: its own
time, or an hour some walk has been at. With one walk that leaves its own hour or the
time since it was converted.

*Lk.* `IInv` follows the failures of a pass: as many as modules behind the
concentrator in hand at most, and its row is only taken down when they are as many as
all there are, so all are behind it. `Missed` says that a failure the driver has counted
is a poll that stored nothing, so that more than `Alarm` of the first are more than `Alarm`
of the second; `Quiet`, that before the first upset nothing is under way, so that what a read
takes is what it asked for.

*Modbus.* `Serving` says the first client is the only one the thread ever has and that
between a refresh and a query the registers hold values. For the drivers, `LossInv` counts:
while a write has failed, there have been at least as many faults as tries used up; so
when the read comes after the last failed try the faults are no longer fewer than the
tries, and otherwise the meter holds what was asked for. `QuietCall` is what a call over a
line with nothing under way brings.

`LateAnswersKeepRows` has no bound on the faults, so its invariant cannot say that nothing is
under way. `LineInv` says what can be: between two calls the port is empty and one frame at
most is still to come, which has taken a fault (`StreamRead` goes through the bytes a call
may meet: too few, one frame, two, or one that is cut off). `LateInv` adds that a frame which would
pass for the answer of the read that is due is an earlier answer to the same read: the
write before a read has an answer of 8 bytes, and the two reads of a Karat that follow
each other have different lengths, so anything older comes to nothing before. And with one
fault at most the last write has reached the meter when a read is due: a write that came to
nothing took the fault, and the next try got through. That needs two tries (the code
has three). `ModbusTyping` adds `MasterTypes`: positions, tries and records left, where
`Deep` says that no archive reaches back beyond the count of the time, which at the code's
depths and dates is so by decades.

That `SelectSeq` keeps members of its sequence, and no more of them than there are, is an
assumption of these theorems (`ElfOnLine`, `Polled`) and of that on the KM-5 (`KmOnLine`),
since the provers do not have its definition. They also say that there is an ELF to poll
(without one, `elf2.cpp` has nothing to index) and a Karat.

*Heat.* Three inductive invariants, one for each driver. Of a VKT-7 (`VktInv`): as long as
only dates and greetings have been refused, list, type and date in the meter are those the
driver has in mind. Of a KM-5 (`KmInv`): what may be under way when a record of a walk is read
is an answer to the request before, which was of the same meter and archive, because each
walk begins with a request for the newest record's number; so a record is stored
under its own date, whatever the faults. For the differences (`DiffInv`, without faults):
from its first row on, pipe 2 of a meter has every hour up to the one before (`Unbroken`, with
`WalkUnbroken` for the walk in hand and `RoundCovers` for the round in which an hour has
closed), so the newest older row of pipe 2 is of the hour before, or, where the labels
23, 0 and 1 become rows of the hours 22, 0 and 0, of the one before that. A day must have
three hours or more: with two, each day has but one row. Of an IRP (`IrpInv`): the late answer was the one
fault, so none is lost after it, and what is under way when a block of days is asked for is a
block of the same meter, for a walk begins only with a pointer that was read. `HeatTypeOK`
(`HeatTyped`) needs tables with rows and walks of two records or more (`Equipped`; in the
code 2 to 25).

*Power.* `LinkInv`: the failures counted for a meter are at most one, before its turn in
a pass none. `CeInv`: what is under way and what is in the array has the name of a parameter
of the meter in hand or of the one before. For `RowsAreOwn`, `OneFault`: an answer under way
was the fault, so every meter is alive, the port is open and the next read gets an answer
of its own as well; the sum over both is wrong, and behind a concentrator it is tested, so
nothing late is stored. `MerWalk`: in a ring that has not turned the walk is at the first half
of an hour both of whose halves are recorded, so `HoursArePaired`. `Ce102Inv` says the same of the
CE102's hour, where the time may have gone on by one between request and answer.
`MerEquipped` collects what that rests on: one fault, meters with different numbers, current
values that are not named like archives, and a time at which a meter has recorded more
hours than a walk reads (250 in the code, ten days; the first places of the ring are what the
comment of `HoursArePaired` excepts).
`PowerTyping` needs tables with rows and a SET-4TM that is not polled in the year 0 of the
count (`PowerEquipped`).

Only model-checked: all liveness (TLAPS has no proof rules for it here), and what a
recursion over data computes. `IrpRowsAreOwn` and the Mercury's and CE102's parts of
`RowsAreOwn` are false with a second fault, in the code as in the model; their theorems say
"one fault at most" for that reason and not to get the proof through.

## Not modelled, and why

* Packet layouts, check sums and unit conversions of the drivers; the serial and GSM
  interfaces of Tekon-19; its day and month *requests* (their numbering is modelled).
* How a Tekon-19 numbers its records is the device's; that it is the numbering the
  driver computes is assumed (external in the map).
* Tekon takes the date of a record from the record; that another thread's `localtime`
  may come between lines 271 and 272 is the subject of Clock. In Clock, log lines are
  on (the debug level of `kernel.h:83` and of line 47 of `tecon_19.cpp`).
* Calls of the database library are atomic: that two of them overlap on a connection
  is beyond what a model of this code can say. A query that fails ends the process in
  Tekon (`Crash`); the later modules leave that out.
* TSRV: only the life of its thread. Its archive is read with function 65, whose answer
  libmodbus takes for 8 bytes and one value, so that of a record two bytes are the
  meter's and the rest is what was on the stack; the year test refuses all records since
  2021. There is no state of the program a property could relate to a measurement.
* VIS-T and the panel are never started. The 2IP and MEE sensors of `lk.cpp` are never
  loaded (lines 84-88 are commented out). `send_ce` and `read_ce` of `mercury230.cpp` and
  `ReadAllArchive` of `ce303.cpp` are never called. `src/modbus/modbus.c` is a copy that
  is not built.
* What lies behind an array: the four bytes an ELF's answer is written into
  (`elf2.cpp:178`), the channels a restarted KM-5 driver polls beyond its own, the
  second part of a KM-5's answer (`&data+nbytes`).
* The Mercury and the CE303 threads open the same `/dev/ttyr00`; what two readers of a
  terminal get is not said by this code. Power lets one driver run at a time.
* Values are within the limits the code checks; meters answer as their protocol says
  unless a fault is in the model; a KM-5 labels an hour by its end; a VKT-7 always answers
  or refuses (a lost answer hangs the driver, `VktHung`).
* `initkernel`'s device array, statistics, the texts of answers and logs.

## Plan

*Done:* the process and its threads; the drivers that are built and store something
determined by the code; both servers; libmodbus as they use it; the shared time; and
theorems of each, for all invariants and action properties. What would come next: the
database handle as a module of its own, with a failed query in every driver; the
restart of the KM-5, VKT-7 and IRP drivers in one process.
