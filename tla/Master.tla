-------------------------------- MODULE Master --------------------------------
(***************************************************************************)
(* A driver that polls its devices with libmodbus over one serial line:    *)
(* what elf2.cpp and karat.cpp have in common.  For each device, kind of   *)
(* archive and date it writes the wanted date into the device's registers  *)
(* and then reads the record the device puts into others, each with three  *)
(* tries.  modbus_send flushes nothing: an answer that came after its call *)
(* had given up is the first thing the next call reads, and when it is     *)
(* long enough that call ends before its own answer is there.              *)
(***************************************************************************)
EXTENDS ModbusLib, Tables

CONSTANTS Device,     \* the table device: a sequence of [idd, adr]
          DevElf,     \* the table dev_elf: numbers of devices
          DevKarat,   \* the table dev_karat
          Depth,      \* records asked for, by kind
          Tries,      \* attempts at a call
          Nows,       \* hours at which the driver may be started
          HoursPerDay, DaysPerMonth,
          Faults,     \* what may happen to a call
          MaxFaults   \* bound: faults in a behaviour

ASSUME MasterAssumption ==
  /\ \A d \in DOMAIN Device : Device[d].idd \in Nat /\ Device[d].adr \in Nat
  /\ DevElf \in Seq(Nat) /\ DevKarat \in Seq(Nat)
  /\ Depth \in [{"current", "hour", "day", "month"} -> Nat \ {0}]
  /\ Tries \in Nat \ {0} /\ Nows \subseteq Nat
  /\ HoursPerDay \in Nat \ {0} /\ DaysPerMonth \in Nat \ {0}
  /\ Faults \subseteq {"unheard", "lost", "late", "garbled", "refused"}
  /\ MaxFaults \in Nat

VARIABLES driver,     \* "elf" or "karat"
          open,       \* the port could be opened
          now,        \* the hour
          pc, at,     \* what is next, for which device
          step, left, \* which kind of archive, and records still to ask for
          tries,      \* tries left of the call
          selected,   \* in each device: the record it was asked for last
          port,       \* frames in the input buffer of the port
          underway,   \* a frame that is still to come
          rows,       \* the tables of readings
          faults,     \* calls that went wrong, but for garbled answers
          hurt        \* an answer has been garbled, or came late

masterVars == <<driver, open, now, pc, at, step, left, tries, selected, port, underway,
                rows, faults, hurt>>

-----------------------------------------------------------------------------
Day(h) == (h \div HoursPerDay) * HoursPerDay
Month(h) == (h \div (HoursPerDay * DaysPerMonth)) * HoursPerDay * DaysPerMonth

(* The date under which a record of a kind is stored, from its own date.   *)
Stamp(kind, h) ==
  CASE kind = "current" -> 0
    [] kind = "hour" -> h
    [] kind = "day" -> Day(h)
    [] kind = "month" -> Month(h)

(* The date asked for: from two hours, a day or a month ago backwards.  28 *)
(* days before a day of the first half of a month lie in the month before. *)
Asked(kind, k) ==
  CASE kind = "current" -> 0
    [] kind = "hour" -> now - 1 - k
    [] kind = "day" -> Day(now - HoursPerDay * k)
    [] kind = "month" -> Month(now - HoursPerDay * DaysPerMonth * k)

Kinds == DOMAIN Depth
Reading(d, kind, date) == [dev |-> d, kind |-> kind, date |-> date, sound |-> TRUE]
Numbers == {DevElf[n] : n \in DOMAIN DevElf} \cup {DevKarat[n] : n \in DOMAIN DevKarat}

MasterTypeOK ==
  /\ driver \in {"elf", "karat"} /\ open \in BOOLEAN /\ now \in Nows
  /\ pc \in {"greet", "preset", "fetch"}
  /\ at \in 1 .. IF driver = "elf" THEN Len(DevElf) ELSE Len(DevKarat)
  /\ step \in 1 .. 4 /\ left \in Nat \ {0} /\ tries \in 1 .. Tries
  /\ selected \in [Numbers -> [kind : Kinds, date : 0 .. now]]
  /\ \A f \in {port[n] : n \in DOMAIN port} \cup {underway[n] : n \in DOMAIN underway} :
       f.len \in Nat \ {0} /\ f.good \in BOOLEAN /\ f.exc \in BOOLEAN
  /\ Len(underway) <= 1
  /\ \A w \in rows : w.key.dev \in Numbers /\ w.key.kind \in Kinds
  /\ \A w, x \in rows : w.key = x.key => w = x
  /\ faults \in 0 .. MaxFaults /\ hurt \in BOOLEAN

-----------------------------------------------------------------------------
(* What becomes of a query: does the device act on it, which frame comes,  *)
(* and does it come after the call has given up?  Line noise may have      *)
(* changed the date or a value in a frame.                                 *)
Fates(query, of) ==
  LET fate(f, hears, frame, late) ==
        [fault |-> f, hears |-> hears, frame |-> frame, late |-> late]
      noisy == IF of = Junk THEN {Junk}
               ELSE {[of EXCEPT !.date = h, !.sound = FALSE] : h \in {of.date, now}}
  IN  {fate("none", TRUE, <<Answer(query, of)>>, FALSE),
       fate("unheard", FALSE, <<>>, FALSE),
       fate("lost", TRUE, <<>>, FALSE),
       fate("late", TRUE, <<Answer(query, of)>>, TRUE),
       fate("refused", FALSE, <<Refusal(query)>>, FALSE)}
      \cup {fate("garbled", TRUE, <<[Answer(query, o) EXCEPT !.good = FALSE]>>, FALSE) :
              o \in noisy}

(* The outcomes of a call.  A device that nobody is gives no answer.  Late *)
(* are an answer after the time-out, an answer to a call that was content  *)
(* with an earlier one, and the rest of one that was cut and then missed   *)
(* by the flush.                                                           *)
Calls(query, of, present) ==
  LET early == port \o underway
      hasty == early # <<>> /\ Total(early) >= Expected(query)
      call(f, missed) ==
        LET waits == f.late \/ hasty
            r == Receive(query, IF waits THEN early ELSE early \o f.frame)
        IN  [ret |-> r.ret, of |-> r.of, port |-> r.port, hears |-> f.hears,
             underway |-> IF waits THEN f.frame ELSE IF missed THEN r.cut ELSE <<>>,
             faults |-> IF f.fault \in {"none", "garbled"} THEN faults ELSE faults + 1,
             hurt |-> hurt \/ f.fault \in {"garbled", "late"}]
      silence == [fault |-> "none", hears |-> TRUE, frame |-> <<>>, late |-> FALSE]
      can(fault) ==
        \/ fault = "none"
        \/ fault = "garbled" /\ "garbled" \in Faults /\ ~hurt
        \/ fault \in Faults \ {"garbled"} /\ faults < MaxFaults
  IN  IF ~open
        THEN {[ret |-> Failure, of |-> Junk, port |-> <<>>, hears |-> FALSE,
               underway |-> <<>>, faults |-> faults, hurt |-> hurt]}
        ELSE {call(f, missed) :
                f \in IF present THEN {g \in Fates(query, of) : can(g.fault)} ELSE {silence},
                missed \in BOOLEAN}

Took(call) ==
  /\ port' = call.port /\ underway' = call.underway
  /\ faults' = call.faults /\ hurt' = call.hurt

(* A call that brought a number of registers, and the record made of them. *)
(* Registers that were not filled hold what an earlier call left there.    *)
Kept(call, d, kind) ==
  LET under(reading) ==
        LET key == [dev |-> d, kind |-> kind, date |-> Stamp(kind, reading.date)]
        IN  IF kind = "current" THEN StoreCurrent(rows, key, reading)
            ELSE StoreArchive(rows, key, reading)
      stale == [Reading(d, kind, Asked(kind, Depth[kind] - left + 1)) EXCEPT !.sound = FALSE]
  IN  IF call.of = Junk THEN {rows, under(stale)} ELSE {under(call.of)}

(* Mutant: current values are read without a write before, by both drivers.*)
OnwardUnset(kinds, last, unset) ==
  /\ tries' = Tries
  /\ IF left > 1
       THEN left' = left - 1 /\ UNCHANGED <<at, step>>
       ELSE /\ step' = (step % Len(kinds)) + 1
            /\ left' = Depth[kinds[step']]
            /\ at' = IF step < Len(kinds) THEN at ELSE (at % last) + 1
  /\ pc' = IF kinds[step'] \in unset \cup {"current"} THEN "fetch" ELSE "preset"

(* Mutant: the step beyond the last device.                                *)
OnwardBeyond(kinds, last, unset) ==
  /\ tries' = Tries
  /\ IF left > 1
       THEN left' = left - 1 /\ UNCHANGED <<at, step>>
       ELSE /\ step' = (step % Len(kinds)) + 1
            /\ left' = Depth[kinds[step']]
            /\ at' = IF step < Len(kinds) THEN at ELSE at + 1
  /\ pc' = IF kinds[step'] \in unset THEN "fetch" ELSE "preset"

(* The next record, kind and device; "kinds" are those the thread polls,   *)
(* "last" the last device.  Without a date to set, a call is saved.        *)
Onward(kinds, last, unset) ==
  /\ tries' = Tries
  /\ IF left > 1
       THEN left' = left - 1 /\ UNCHANGED <<at, step>>
       ELSE /\ step' = (step % Len(kinds)) + 1
            /\ left' = Depth[kinds[step']]
            /\ at' = IF step < Len(kinds) THEN at ELSE (at % last) + 1
  /\ pc' = IF kinds[step'] \in unset THEN "fetch" ELSE "preset"

(* modbus_connect: the port is open and set up, or it is not; the drivers  *)
(* go on in either case.                                                   *)
Connected == BOOLEAN

MasterInit ==
  /\ now \in Nows
  /\ pc = "greet" /\ at = 1 /\ step = 1 /\ left = 1 /\ tries = 1
  /\ selected = [d \in Numbers |-> [kind |-> "current", date |-> 0]]
  /\ port = <<>> /\ underway = <<>>
  /\ rows = {}
  /\ faults = 0 /\ hurt = FALSE
=============================================================================
