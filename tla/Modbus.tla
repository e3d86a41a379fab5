-------------------------------- MODULE Modbus --------------------------------
(***************************************************************************)
(* The users of libmodbus: in a behaviour either one of the two drivers    *)
(* that are masters on a serial line, or the server that is a slave on     *)
(* TCP.  They share no state but the database.                             *)
(***************************************************************************)
EXTENDS Elf, Karat, Slave

VARIABLE side

vars == <<side, masterVars, slaveVars>>

TypeOK == side \in {"master", "slave"} /\ MasterTypeOK /\ SlaveTypeOK

Init ==
  /\ side \in {"master", "slave"}
  /\ ElfInit \/ (side = "master" /\ KaratInit)
  /\ side = "slave" => open /\ \A h \in Nows : now <= h
  /\ SlaveInit

MasterStep == side = "master" /\ (ElfNext \/ KaratNext) /\ UNCHANGED <<side, slaveVars>>
ServerStep == side = "slave" /\ Server /\ UNCHANGED <<side, masterVars>>
World == side = "slave" /\ (Connect \/ Ask \/ Leave \/ Measure) /\ UNCHANGED <<side, masterVars>>
Ended == side = "slave" /\ thread = "end" /\ UNCHANGED vars

Next == MasterStep \/ ServerStep \/ World \/ Ended

Spec == Init /\ [][Next]_vars /\ WF_vars(MasterStep) /\ WF_vars(ServerStep)

-----------------------------------------------------------------------------
(* A row says what its device measured: of this device, of this kind and   *)
(* of the time it is dated.                                                *)
Sound(w) ==
  /\ w.value.sound
  /\ w.value.dev = w.key.dev
  /\ w.value.kind = w.key.kind
  /\ Stamp(w.key.kind, w.value.date) = w.key.date

(* However calls are lost on the way or refused, as long as it is fewer    *)
(* than there are tries and no answer came late, every row is sound (the   *)
(* tries of elf2.cpp:225 and :240, karat.cpp:209 and :218): after a write  *)
(* that got through nothing is read but what was asked for.                *)
LossesAreHarmless == faults < Tries /\ ~hurt => \A w \in rows : Sound(w)

(* Nothing compares the address in an answer with the device that was      *)
(* asked (modbus.c:627), and still no row is a record of another device of *)
(* the line, whatever comes late: before each read there is a write, whose *)
(* answer has another length.                                              *)
OwnDevice == \A w \in rows : w.value.dev = w.key.dev

(* One fault, though an answer that comes late, does not bring a record of *)
(* one kind under another: that takes a second one.                        *)
OneFaultKeepsKind ==
  faults <= 1 => \A w \in rows : w.value.sound => w.value.kind = w.key.kind

(* What a late answer does not bring about (modbus.c:627).                 *)
LateAnswersKeepRows == OwnDevice /\ OneFaultKeepsKind

(* The shift of answers that one late answer causes ends, and each call    *)
(* gets its own answer again, unless the flush goes on missing what is cut *)
(* off (modbus.c:352 flushes before the rest of the frame has come).       *)
Realigned ==
  <>[](\A n \in DOMAIN underway : underway[n].fn # "fragment") =>
    <>[](port = <<>> /\ (pc = "preset" /\ step = 1 => underway = <<>>))

(* A row is made of an answer whose check sum is right ("checks values     *)
(* (and checksum in RTU)", modbus.c:599).                                  *)
RowsAreChecked == \A w \in rows : w.value.sound
=============================================================================
