--------------------------------- MODULE Karat ---------------------------------
(***************************************************************************)
(* The Karat-307 driver of karat.cpp: one write tells the meter the date,  *)
(* and each kind of archive has an area of its own to read the record of   *)
(* that date from.                                                         *)
(***************************************************************************)
EXTENDS Master

KaratTable == Loaded(DevKarat, Device)

(* Months are asked for in the first half of a month only.                 *)
KaratKinds ==
  IF 2 * (now - Month(now)) < HoursPerDay * DaysPerMonth
    THEN <<"current", "hour", "day", "month">> ELSE <<"current", "hour", "day">>

(* OpenCom, always on the one port; its result is not looked at.           *)
KaratOpened == Connected

KaratInit == driver = "karat" /\ open \in KaratOpened /\ MasterInit

(* Address 0 is everybody's, and nobody answers.                           *)
KaratPresent(k) == k.adr # 0
KaratHeard(k, date) ==
  [d \in Numbers |->
     IF d = k.device \/ (k.adr = 0 /\ d \in {KaratTable[n].device : n \in DOMAIN KaratTable})
       THEN [selected[d] EXCEPT !.date = date] ELSE selected[d]]

(* ReadVersion and twice ReadTime of every meter of the table.             *)
KaratGreet ==
  /\ driver = "karat" /\ pc = "greet"
  /\ LET k == KaratTable[at]
     IN  \E c \in Calls(ReadRegisters(IF left = 1 THEN 27 ELSE 4),
                        Junk, KaratPresent(k)) : Took(c)
  /\ IF left < 3
       THEN left' = left + 1 /\ UNCHANGED <<pc, at>>
       ELSE /\ left' = 1
            /\ at' = (at % Len(KaratTable)) + 1
            /\ pc' = IF at < Len(KaratTable) THEN "greet" ELSE "fetch"
  /\ tries' = IF pc' = "fetch" THEN Tries ELSE tries
  /\ UNCHANGED <<driver, open, now, step, selected, rows>>

(* ReadData, the write of the date, for the archives: up to three tries,   *)
(* and then the reading goes on.                                           *)
KaratPreset ==
  /\ driver = "karat" /\ pc = "preset"
  /\ LET k == KaratTable[at]
         kind == KaratKinds[step]
     IN  \E c \in Calls(PresetRegisters(2), Junk, KaratPresent(k)) :
           /\ Took(c)
           /\ selected' = IF c.hears
                            THEN KaratHeard(k, Asked(kind, Depth[kind] - left + 1))
                            ELSE selected
           /\ IF c.ret >= 0 \/ tries = 1
                THEN pc' = "fetch" /\ tries' = Tries
                ELSE tries' = tries - 1 /\ UNCHANGED pc
  /\ UNCHANGED <<driver, open, now, at, step, left, rows>>

(* ReadData, the read of the kind's own area: up to three tries; the       *)
(* record is stored under the date it says itself.                         *)
KaratFetch ==
  /\ driver = "karat" /\ pc = "fetch"
  /\ LET k == KaratTable[at]
         kind == KaratKinds[step]
         date == IF kind = "current" THEN 0 ELSE selected[k.device].date
     IN  \E c \in Calls(ReadRegisters(IF kind = "current" THEN 110 ELSE 120),
                        Reading(k.device, kind, date), KaratPresent(k)) :
           /\ Took(c)
           /\ IF c.ret >= 0
                THEN rows' \in Kept(c, k.device, kind)
                ELSE UNCHANGED rows
           /\ IF c.ret >= 0 \/ tries = 1
                THEN Onward(KaratKinds, Len(KaratTable), {"current"})
                ELSE tries' = tries - 1 /\ UNCHANGED <<pc, at, step, left>>
  /\ UNCHANGED <<driver, open, now, selected>>

KaratNext == KaratGreet \/ KaratPreset \/ KaratFetch
=============================================================================
