-------------------------------- MODULE Clock --------------------------------
(***************************************************************************)
(* The broken-down time the kernel's threads share.  localtime returns one *)
(* static struct for the process: currenttime of kernel.h points to it,    *)
(* every log line of ULOGW and every pass of the dispatcher puts the       *)
(* current time in it, and the archive walks of tecon_19.cpp put the hour  *)
(* they are at in it, each between the reads of the others.                *)
(*                                                                         *)
(* Walkers are threads in a walk of ReadAllArchive, Stampers threads that  *)
(* date a current value from currenttime.                                  *)
(***************************************************************************)
EXTENDS Integers

CONSTANTS Walkers, Stampers, \* threads
          Span,              \* tp*5, how far back a walk goes
          Lag,               \* it starts this many hours before now, 3
          Start, Horizon,    \* bound: hours the model looks at
          None               \* "no value", "no entry"

ASSUME ClockAssumption ==
  /\ Span \in Nat
  /\ Lag \in Nat
  /\ Start \in Nat
  /\ Horizon \in Nat
  /\ Lag + Span <= Start /\ Start <= Horizon
  /\ Walkers \cap Stampers = {}

VARIABLES now,    \* the hour
          tm,     \* the hour in the struct of localtime
          pc,     \* thread -> where it is
          tims,   \* walker -> the hour its record belongs to,
          last,   \* and the hour its walk ends with
          got,    \* thread -> the value it holds, None when none came
          date,   \* walker -> the date string it has formatted
          entry   \* thread -> what it stored last

vars == <<now, tm, pc, tims, last, got, date, entry>>

-----------------------------------------------------------------------------
Threads == Walkers \cup Stampers

Hours == 0 .. Horizon

Entries == [value : Hours, date : Hours, at : Hours]

TypeOK ==
  /\ now \in Start .. Horizon
  /\ tm \in Hours
  /\ pc \in [Threads -> {"idle", "read", "convert", "format", "log", "store"}]
  /\ tims \in [Walkers -> Hours]
  /\ last \in [Walkers -> Hours]
  /\ got \in [Threads -> Hours \cup {None}]
  /\ date \in [Walkers -> Hours]
  /\ entry \in [Threads -> Entries \cup {None}]

Init ==
  /\ now = Start
  /\ tm = Start
  /\ pc = [t \in Threads |-> "idle"]
  /\ tims = [t \in Walkers |-> Start]
  /\ last = [t \in Walkers |-> Start]
  /\ got = [t \in Threads |-> None]
  /\ date = [t \in Walkers |-> Start]
  /\ entry = [t \in Threads |-> None]

Goto(t, label) == pc' = [pc EXCEPT ![t] = label]

-----------------------------------------------------------------------------
(* The dispatcher's pass, or a log line of any thread.                     *)
Refresh ==
  /\ tm' = now
  /\ UNCHANGED <<now, pc, tims, last, got, date, entry>>

Tick ==
  /\ now < Horizon
  /\ now' = now + 1
  /\ UNCHANGED <<tm, pc, tims, last, got, date, entry>>

-----------------------------------------------------------------------------
(* The hour walk.                                                          *)

BeginWalk(t) ==
  /\ pc[t] = "idle"
  /\ tims' = [tims EXCEPT ![t] = now - Lag]
  /\ last' = [last EXCEPT ![t] = now - Lag - Span]
  /\ tm' = now
  /\ got' = [got EXCEPT ![t] = None]
  /\ Goto(t, "read")
  /\ UNCHANGED <<now, date, entry>>

(* read_tekon, which logs the answer or its absence.                       *)
ReadRecord(t) ==
  /\ pc[t] = "read"
  /\ got' \in {[got EXCEPT ![t] = v] : v \in {tims[t], None}}
  /\ tm' = now
  /\ Goto(t, "convert")
  /\ UNCHANGED <<now, tims, last, date, entry>>

(* Mutant: the walk steps back before the hour is converted.               *)
ConvertNext(t) ==
  /\ pc[t] = "convert"
  /\ tm' = tims[t] - 1
  /\ Goto(t, "format")
  /\ UNCHANGED <<now, tims, last, got, date, entry>>

Convert(t) ==
  /\ pc[t] = "convert"
  /\ tm' = tims[t]
  /\ Goto(t, "format")
  /\ UNCHANGED <<now, tims, last, got, date, entry>>

(* The date string is written from the struct, when an answer came.        *)
Format(t) ==
  /\ pc[t] = "format"
  /\ date' = IF got[t] = None THEN date ELSE [date EXCEPT ![t] = tm]
  /\ Goto(t, "log")
  /\ UNCHANGED <<now, tm, tims, last, got, entry>>

(* Mutant: the end of the walk is looked for one record too late.          *)
StoreRecordOn(t) ==
  /\ pc[t] = "log"
  /\ IF got[t] = None
       THEN UNCHANGED <<tm, entry>>
       ELSE /\ tm' = now
            /\ entry' = [entry EXCEPT ![t] =
                           [value |-> got[t], date |-> date[t], at |-> now]]
  /\ IF tims[t] < last[t]
       THEN Goto(t, "idle") /\ UNCHANGED tims
       ELSE Goto(t, "read") /\ tims' = [tims EXCEPT ![t] = @ - 1]
  /\ UNCHANGED <<now, last, got, date>>

(* The value is logged and stored, and the walk steps back.                *)
StoreRecord(t) ==
  /\ pc[t] = "log"
  /\ IF got[t] = None
       THEN UNCHANGED <<tm, entry>>
       ELSE /\ tm' = now
            /\ entry' = [entry EXCEPT ![t] =
                           [value |-> got[t], date |-> date[t], at |-> now]]
  /\ IF tims[t] = last[t]
       THEN Goto(t, "idle") /\ UNCHANGED tims
       ELSE Goto(t, "read") /\ tims' = [tims EXCEPT ![t] = @ - 1]
  /\ UNCHANGED <<now, last, got, date>>

-----------------------------------------------------------------------------
(* A current value, dated from currenttime (type 9).                       *)

(* The read logs, which puts the current time in the struct.               *)
ReadCurrent(t) ==
  /\ pc[t] = "idle"
  /\ got' = [got EXCEPT ![t] = now]
  /\ tm' = now
  /\ Goto(t, "store")
  /\ UNCHANGED <<now, tims, last, date, entry>>

Stamp(t) ==
  /\ pc[t] = "store"
  /\ entry' = [entry EXCEPT ![t] = [value |-> got[t], date |-> tm, at |-> now]]
  /\ Goto(t, "idle")
  /\ UNCHANGED <<now, tm, tims, last, got, date>>

Walk(t) ==
  BeginWalk(t) \/ ReadRecord(t) \/ Convert(t) \/ Format(t) \/ StoreRecord(t)

Next ==
  \/ Refresh
  \/ Tick
  \/ \E t \in Walkers : Walk(t)
  \/ \E t \in Stampers : ReadCurrent(t) \/ Stamp(t)

Spec == Init /\ [][Next]_vars

-----------------------------------------------------------------------------
(* currenttime is said to be the "current system time" (kernel.h:27): a    *)
(* current value is dated with a time between its reading and its storing, *)
(* or else with an hour that an archive walk of another thread has been    *)
(* at, however many hours back, and never with any other.                  *)
CurrentOrWalked ==
  [][\A t \in Stampers :
       entry'[t] # entry[t]
         => \/ entry'[t].date \in entry'[t].value .. entry'[t].at
            \/ \E w \in Walkers : entry'[t].date \in last[w] .. last[w] + Span]_vars

(* With one walker in the process, an archive value that is not dated with *)
(* its own hour is dated with the time of the walk: another thread's       *)
(* localtime came between the conversion and the sprintf.  It is never     *)
(* put on another one of the hours walked over.                            *)
MisdatedAsNow ==
  \A t \in Walkers :
    entry[t] # None /\ entry[t].date # entry[t].value
      => entry[t].date \in entry[t].value + Lag .. entry[t].at
=============================================================================
