------------------------------- MODULE HeatBase -------------------------------
(***************************************************************************)
(* What the drivers of the heat meters (km_5.cpp, vkt.cpp, irp.cpp) and    *)
(* of the power meters (mercury230.cpp, ce303.cpp, ce102.cpp) have in      *)
(* common: a thread that asks one meter after the other for its readings,  *)
(* a line without a flush, and the tables.  In a behaviour one driver of   *)
(* the heat meters runs, or one of the power meters.                       *)
(***************************************************************************)
EXTENDS Tables, Sequences

CONSTANTS Span,       \* by driver: the times of a behaviour, a set lo .. hi
          HoursPerDay, DaysPerMonth,
          Depth,      \* records asked for in a walk
          Faults,     \* what may happen to an answer
          MaxFaults   \* bound, by driver: faults in a behaviour

ASSUME HeatAssumption ==
  /\ \A d \in DOMAIN Span : Span[d] \subseteq Nat
  /\ HoursPerDay \in Nat \ {0} /\ DaysPerMonth \in Nat \ {0} /\ Depth \in Nat \ {0}
  /\ Faults \subseteq {"lost", "late", "garbled", "refused", "matched", "port"}
  /\ \A d \in DOMAIN Span : MaxFaults[d] \in Nat

VARIABLES driver,     \* the one that runs
          now,        \* the time: hours, with the driver of the IRPs days
          rest,       \* rounds to end before the time may go on
          pc, at,     \* what is asked for next, of which channel or meter
          step,       \* and in which part of the round
          left,       \* requests left in the walk
          asked,      \* the record asked for next: its number or its date
          buffer,     \* the local array "data" of the archive function
          flying,     \* answers under way that no read has got yet
          rows,       \* the tables of readings
          errors,     \* qerrors of each meter
          alarmed,    \* meters Events has been called for
          dead,       \* meters that have fallen silent
          budget,     \* faults still to come
          hurt        \* the kinds of faults there have been

lineVars == <<flying, dead, budget, hurt>>
heatVars == <<driver, now, rest, pc, at, step, left, asked, buffer, rows, errors,
              alarmed, lineVars>>

-----------------------------------------------------------------------------
Frame(what, d, kind, n) == [what |-> what, dev |-> d, kind |-> kind, n |-> n]
Junk == Frame("junk", 0, "none", 0)      \* residues on the stack, line noise
Silence == Frame("silence", 0, "none", 0)

(* A request on the serial line and the read after it: what came too late  *)
(* for an earlier read is read now, before the answer to this request.     *)
Heard(answer, got) ==
  LET fate(kind, read, coming) ==
        /\ kind \in Faults /\ budget > 0
        /\ budget' = budget - 1 /\ hurt' = hurt \cup {kind}
        /\ got = flying \o read /\ flying' = coming
      answers == ~(answer.what = "silence" \/ answer.dev \in dead)
  IN  /\ UNCHANGED dead
      /\ \/ /\ got = flying \o (IF answers THEN <<answer>> ELSE <<>>)
            /\ flying' = <<>> /\ UNCHANGED <<budget, hurt>>
         \/ answers /\ \/ fate("lost", <<>>, <<>>)
                       \/ fate("late", <<>>, <<answer>>)
                       \/ fate("garbled", <<Junk>>, <<>>)

(* What a read may get: the second argument of Heard.                      *)
Gets(answer) ==
  {flying \o g : g \in {<<>>, <<Junk>>}} \cup
    (IF answer.what = "silence" THEN {} ELSE {Append(flying, answer)})

Value(kind, n) == [kind |-> kind, n |-> n, since |-> n, dev |-> 0]
Key(d, pipe, kind, date) == [dev |-> d, pipe |-> pipe, kind |-> kind, date |-> date]

(* More errors of a meter, which are an event when one of them makes       *)
(* "alarm" of them; beyond that the counter is capped.                     *)
Counted(d, by, alarm) ==
  errors' = [errors EXCEPT ![d] = IF @ + by > alarm + 1 THEN alarm + 1 ELSE @ + by]
Failed(d, by, alarm) ==
  /\ Counted(d, by, alarm)
  /\ alarmed' = IF alarm \in errors[d] + 1 .. errors[d] + by THEN alarmed \cup {d} ELSE alarmed
Answered(d) == errors' = [errors EXCEPT ![d] = 0] /\ UNCHANGED alarmed

(* A round of the driver has ended.                                        *)
RoundOver == rest' = IF rest > 0 THEN rest - 1 ELSE 0
SameRound == UNCHANGED rest

-----------------------------------------------------------------------------
(* The time goes on, but not before the driver has made a whole round: one *)
(* takes minutes at most (bound: the last time of Span).                   *)
Tick ==
  /\ rest = 0 /\ now + 1 \in Span[driver]
  /\ now' = now + 1 /\ rest' = 2
  /\ UNCHANGED <<driver, pc, at, step, left, asked, buffer, rows, errors, alarmed, lineVars>>

(* A meter falls silent for good (bound: in behaviours without faults).    *)
Die ==
  /\ dead = {} /\ budget = 0 /\ hurt = {}
  /\ \E d \in DOMAIN errors : dead' = {d}
  /\ UNCHANGED <<driver, now, rest, pc, at, step, left, asked, buffer, rows, errors,
                 alarmed, flying, budget, hurt>>

HeatInit(name, meters) ==
  /\ driver = name
  /\ now \in Span[name] /\ \A h \in Span[name] : now <= h
  /\ rest = 1 /\ at = 1 /\ asked = 0
  /\ buffer = Junk /\ flying = <<>>
  /\ rows = {}
  /\ errors = [d \in meters |-> 0] /\ alarmed = {}
  /\ budget \in 0 .. MaxFaults[name] /\ hurt = {}
=============================================================================
