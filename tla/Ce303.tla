-------------------------------- MODULE Ce303 ---------------------------------
(***************************************************************************)
(* The driver of the CE303 power meters, ce303.cpp.  An answer carries the *)
(* name of its parameter, which is read with sscanf; an answer with        *)
(* nothing in it ends the text before the name, sscanf returns EOF, and    *)
(* that passes for a match: the parameter read before is stored again.     *)
(***************************************************************************)
EXTENDS HeatBase

CONSTANTS CeTable,     \* the meters: a sequence of numbers of devices
          CeParams     \* the parameters, in the order of their requests

ASSUME CeAssumption == CeTable \in Seq(Nat \ {0}) /\ CeParams \in Seq(STRING)

(* LoadCEConfig: a meter for each device that is switched on.              *)
CeMeters == {CeTable[r] : r \in DOMAIN CeTable}

(* ReadInfo asks for these and keeps nothing: the UPDATE of the link is    *)
(* commented out.                                                          *)
CeInfoSteps == <<"serial", "prev", "open", "date", "time">>

(* send_ce, and what is answered.                                          *)
CeAnswer ==
  IF pc = "info" THEN Frame("text", CeTable[at], CeInfoSteps[step], 0)
  ELSE Frame("text", CeTable[at], CeParams[left], 0)

(* The row of a parameter: the energy goes into the row of the power.      *)
CeRowOf(param) == IF param = "energy" THEN "power" ELSE param

(* Mutant: the names in the answers are not compared.                      *)
CeMatchAny(got) == IF got[1].what = "text" THEN {got[1]} ELSE {buffer}

(* read_ce and sscanf: what is taken of a read that has got something.  Of *)
(* several frames the first is looked at if their sum is right by chance   *)
(* or is not looked at, which is so when they end like a line.             *)
CeMatch(got) ==
  IF got[1].what = "junk" THEN {buffer}
  ELSE IF got[1].kind = CeParams[left] THEN {got[1]} ELSE {}

-----------------------------------------------------------------------------
(* OpenCom, for the first meter's port; without it the thread ends.        *)
CeOpened == {"info", "gone"}

CeInit ==
  /\ HeatInit("ce303", CeMeters)
  /\ dead = {} /\ pc \in CeOpened /\ step = 1 /\ left = 1

(* ReadInfo: without a date the time is not asked for.                     *)
CeInfo ==
  /\ driver = "ce303" /\ pc = "info"
  /\ \E got \in Gets(CeAnswer) :
       /\ Heard(CeAnswer, got)
       /\ IF step = 5 \/ (step = 4 /\ got = <<>>) THEN pc' = "current" /\ step' = 1
          ELSE step' = step + 1 /\ UNCHANGED pc
  /\ UNCHANGED <<driver, now, rest, at, left, asked, buffer, rows, errors, alarmed>>

(* ReadDataCurrent: a parameter.                                           *)
CeCurrent ==
  /\ driver = "ce303" /\ pc = "current"
  /\ \E got \in Gets(CeAnswer) :
       /\ Heard(CeAnswer, got)
       /\ \E taken \in {{}} \cup (IF got = <<>> THEN {} ELSE {CeMatch(got)}) :
            /\ Len(got) = 1 /\ got[1].what = "text" => taken = CeMatch(got)
            /\ buffer' = IF taken = {} THEN buffer ELSE CHOOSE f \in taken : TRUE
            /\ rows' = IF taken = {} THEN rows
                       ELSE StoreCurrentOf(rows, Key(CeTable[at], 0, CeRowOf(CeParams[left]), 0),
                                         [Value(buffer'.kind, buffer'.n) EXCEPT !.dev = buffer'.dev])
  /\ IF left < Len(CeParams) THEN left' = left + 1 /\ SameRound /\ UNCHANGED <<pc, at>>
     ELSE /\ left' = 1 /\ pc' = "info"
          /\ IF at < Len(CeTable) THEN at' = at + 1 /\ SameRound ELSE at' = 1 /\ RoundOver
  /\ UNCHANGED <<driver, now, step, asked, errors, alarmed>>

CeNext == CeInfo \/ CeCurrent
=============================================================================
