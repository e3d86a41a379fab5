---------------------------------- MODULE Elf ----------------------------------
(***************************************************************************)
(* The ELF driver of elf2.cpp: one write tells the meter the kind and the  *)
(* date of the wanted record, one area then holds the record, whatever its *)
(* kind.  The record says its date but not its kind.                       *)
(***************************************************************************)
EXTENDS Master

ElfTable == Loaded(DevElf, Device)
ElfAddresses == {1, 2, 4, 5}           \* the circuits that are polled
ElfKinds == <<"current", "hour", "day">>

ElfPolled == SelectSeq([n \in DOMAIN ElfTable |-> ElfTable[n]],
                       LAMBDA e : e.adr \in ElfAddresses)
ElfPresent(e) == e.adr # 0

(* OpenCom, on the port of the first meter; its result is not looked at.   *)
ElfOpened == Connected

ElfInit == driver = "elf" /\ open \in ElfOpened /\ MasterInit

(* ReadVersion and ReadTime of every meter of the table: two calls whose   *)
(* answers are only logged.                                                *)
ElfGreet ==
  /\ driver = "elf" /\ pc = "greet"
  /\ LET e == ElfTable[at]
     IN  \E c \in Calls(ReadRegisters(IF left = 1 THEN 4 ELSE 3),
                        Junk, ElfPresent(e)) : Took(c)
  /\ IF left = 1
       THEN left' = 2 /\ UNCHANGED <<pc, at>>
       ELSE /\ left' = 1
            /\ at' = (at % Len(ElfTable)) + 1
            /\ pc' = IF at < Len(ElfTable) THEN "greet" ELSE "preset"
  /\ tries' = IF pc' = "preset" THEN Tries ELSE tries
  /\ UNCHANGED <<driver, open, now, step, selected, rows>>

(* Mutant: one attempt to write.                                           *)
ElfPresetOnce ==
  /\ driver = "elf" /\ pc = "preset"
  /\ LET e == ElfPolled[at]
         kind == ElfKinds[step]
         wanted == [kind |-> kind, date |-> Asked(kind, Depth[kind] - left + 1)]
     IN  \E c \in Calls(PresetRegisters(7), Junk, TRUE) :
           /\ Took(c)
           /\ selected' = IF c.hears THEN [selected EXCEPT ![e.device] = wanted] ELSE selected
           /\ pc' = "fetch" /\ tries' = Tries
  /\ UNCHANGED <<driver, open, now, at, step, left, rows>>

(* ReadData, the write: up to three tries.  After the last one the reading *)
(* goes on as if it had succeeded.                                         *)
ElfPreset ==
  /\ driver = "elf" /\ pc = "preset"
  /\ LET e == ElfPolled[at]
         kind == ElfKinds[step]
         wanted == [kind |-> kind, date |-> Asked(kind, Depth[kind] - left + 1)]
     IN  \E c \in Calls(PresetRegisters(7), Junk, TRUE) :
           /\ Took(c)
           /\ selected' = IF c.hears THEN [selected EXCEPT ![e.device] = wanted] ELSE selected
           /\ IF c.ret >= 0 \/ tries = 1
                THEN pc' = "fetch" /\ tries' = Tries
                ELSE tries' = tries - 1 /\ UNCHANGED pc
  /\ UNCHANGED <<driver, open, now, at, step, left, rows>>

(* ReadData, the read: up to three tries, then the record is stored under  *)
(* the kind that was asked for and the date it says itself.  (A record of  *)
(* an impossible year is not: Kept may leave the rows as they are.)        *)
ElfFetch ==
  /\ driver = "elf" /\ pc = "fetch"
  /\ LET e == ElfPolled[at]
         there == selected[e.device]
     IN  \E c \in Calls(ReadRegisters(80),
                        Reading(e.device, there.kind, there.date), TRUE) :
           /\ Took(c)
           /\ IF c.ret >= 0
                THEN rows' \in Kept(c, e.device, ElfKinds[step])
                ELSE UNCHANGED rows
           /\ IF c.ret >= 0 \/ tries = 1
                THEN Onward(ElfKinds, Len(ElfPolled), {})
                ELSE tries' = tries - 1 /\ UNCHANGED <<pc, at, step, left>>
  /\ UNCHANGED <<driver, open, now, selected>>

ElfNext == ElfGreet \/ ElfPreset \/ ElfFetch
=============================================================================
