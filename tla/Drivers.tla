------------------------------ MODULE Drivers ------------------------------
(***************************************************************************)
(* What kernel.cpp and the thread function of each device driver decide    *)
(* about a driver thread's life, as data.                                  *)
(*                                                                         *)
(* A slot is one "is it running" flag of kernel.h (km5_thread, lk_thread,  *)
(* threads[TYPE_MERCURY230], ...).  The record of a slot says              *)
(*   watches  the switches whose loss makes the thread stop; a thread      *)
(*            stops when its stop check sees all of them off               *)
(*   stops    the loop has a live stop check at all (not under "if (0)")   *)
(*   gated    a pass over the devices is entered only while a switch is on *)
(*   skips    a pass may end without having reached the stop check         *)
(*   quits    when set-up ends the thread: "never", when the driver has no *)
(*            device configured ("empty"), or when opening the port or the *)
(*            socket "fails"                                               *)
(*   forgets  a thread ended by set-up leaves its flag as it was           *)
(*   breaks   the loop may end by itself (peer closed, accept() failed)    *)
(*   heeds    the loop ends when WorkRegim is FALSE                        *)
(*   clears   leaving the loop clears the flag the dispatcher tests        *)
(*   marks    the thread sets its own flag when it starts                  *)
(***************************************************************************)
EXTENDS Naturals, Sequences

(* The switches of dev_dk that LoadDKConfig copies into dk.pth[] and       *)
(* dk.crq_enabl.                                                           *)
Switches == {"KM", "LK", "IRP", "VKT", "ELF", "TEKON", "CE", "CE303",
             "MERCURY230", "SET_4TM", "TSRV", "KARAT", "CRQ"}

(* StartThreads, one entry per "if (enabled && !flag) pthread_create", in  *)
(* its order.  The Modbus server has no switch; Mercury 230 and SET-4TM    *)
(* share one flag and one thread function.                                 *)
StartPlan ==
  << [slot |-> "modbus", on |-> {}],
     [slot |-> "km5",    on |-> {"KM"}],
     [slot |-> "lk",     on |-> {"LK"}],
     [slot |-> "irp",    on |-> {"IRP"}],
     [slot |-> "vkt",    on |-> {"VKT"}],
     [slot |-> "elf",    on |-> {"ELF"}],
     [slot |-> "tek",    on |-> {"TEKON"}],
     [slot |-> "ce",     on |-> {"CE"}],
     [slot |-> "ce303",  on |-> {"CE303"}],
     [slot |-> "mer",    on |-> {"MERCURY230"}],
     [slot |-> "mer",    on |-> {"SET_4TM"}],
     [slot |-> "tsrv",   on |-> {"TSRV"}],
     [slot |-> "karat",  on |-> {"KARAT"}],
     [slot |-> "crq",    on |-> {"CRQ"}] >>

(* Loops "while (WorkRegim)" over its devices and never looks at its       *)
(* switch again: the shape the profiles below vary.                        *)
LOCAL Plain ==
  [watches |-> {}, stops |-> FALSE, gated |-> FALSE, skips |-> FALSE,
   quits |-> "empty", forgets |-> TRUE, breaks |-> FALSE, heeds |-> TRUE,
   clears |-> TRUE, marks |-> FALSE]

ModbusThread == [Plain EXCEPT !.quits = "fails", !.breaks = TRUE,
                              !.clears = FALSE]

KmThread == [Plain EXCEPT !.watches = {"KM"}, !.stops = TRUE,
                          !.quits = "fails", !.marks = TRUE]

(* The stop check is under "if (0)".                                       *)
LkThread == [Plain EXCEPT !.marks = TRUE]

IrpThread == Plain

VktThread == [Plain EXCEPT !.clears = FALSE]

ElfThread == Plain

(* The only set-up that cannot end the thread; "continue" on a closed port *)
(* or an unreachable peer passes over the stop check.                      *)
TekThread == [Plain EXCEPT !.watches = {"TEKON"}, !.stops = TRUE,
                           !.skips = TRUE, !.quits = "never"]

(* Tests dk.pth_ce, which LoadDKConfig no longer loads: the check sees the *)
(* switch off however it is set.                                           *)
CeThread == [Plain EXCEPT !.stops = TRUE, !.quits = "fails"]

Ce303Thread == [Plain EXCEPT !.watches = {"CE303"}, !.stops = TRUE,
                             !.gated = TRUE, !.quits = "fails"]

(* One thread for two meter types: it stops when both switches are off.    *)
(* "if (!rs) continue" passes over the check; the end of the loop clears   *)
(* mer_thread, which nobody tests, and not threads[].                      *)
MerThread == [Plain EXCEPT !.watches = {"MERCURY230", "SET_4TM"},
                           !.stops = TRUE, !.gated = TRUE, !.skips = TRUE,
                           !.quits = "never", !.clears = FALSE]

TsrvThread == [Plain EXCEPT !.clears = FALSE]

(* Clears karat_thread; the dispatcher tests threads[TYPE_KARAT].          *)
KaratThread == [Plain EXCEPT !.clears = FALSE]

(* accept() for ever; a failed bind, listen or accept ends the server.     *)
CrqThread == [Plain EXCEPT !.quits = "fails", !.forgets = FALSE,
                           !.breaks = TRUE, !.heeds = FALSE]

Profile ==
  [s \in {"modbus", "km5", "lk", "irp", "vkt", "elf", "tek", "ce", "ce303",
          "mer", "tsrv", "karat", "crq"} |->
     CASE s = "modbus" -> ModbusThread [] s = "km5"   -> KmThread
       [] s = "lk"     -> LkThread     [] s = "irp"   -> IrpThread
       [] s = "vkt"    -> VktThread    [] s = "elf"   -> ElfThread
       [] s = "tek"    -> TekThread    [] s = "ce"    -> CeThread
       [] s = "ce303"  -> Ce303Thread  [] s = "mer"   -> MerThread
       [] s = "tsrv"   -> TsrvThread   [] s = "karat" -> KaratThread
       [] s = "crq"    -> CrqThread]

AllSlots == DOMAIN Profile

=============================================================================
