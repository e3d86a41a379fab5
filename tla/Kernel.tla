------------------------------- MODULE Kernel -------------------------------
(***************************************************************************)
(* The life of the kernel process and of its driver threads: main and the  *)
(* dispatcher of kernel.cpp, the flag protocol between StartThreads and    *)
(* the thread functions (their profiles are in Drivers), the operator who  *)
(* edits dev_dk from the web pages, and watcher.sh, which starts the       *)
(* kernel again when it finds no kernel process.                           *)
(*                                                                         *)
(* Between pthread_create and "flag=TRUE" the new thread already runs, so  *)
(* creating a thread and setting its flag are two steps of the dispatcher. *)
(***************************************************************************)
EXTENDS Drivers

CONSTANTS Slots,      \* the slots looked at: a part of the start plan
          Equipped,   \* the slots whose driver has a device configured
          Tid,        \* identifiers of threads, reused when a thread ends
          None        \* "no slot"

ASSUME KernelAssumption ==
  /\ Slots \subseteq AllSlots
  /\ None \notin AllSlots
  /\ Equipped \subseteq AllSlots
  /\ Slots \cap {"modbus", "crq"} \subseteq Equipped   \* they have no table

VARIABLES proc,       \* "up" while the kernel process exists
          main,       \* where main is: "wait" for WorkRegim, then "linger"
          WorkRegim,
          disp,       \* where the dispatcher is
          at,         \* its position in StartPlan
          first,      \* it has not finished its first walk yet
          dk,         \* the configuration in memory: regim and switches
          row,        \* the same columns of the dev_dk row
          flag,       \* the slots whose "is it running" flag is TRUE
          job,        \* thread -> the slot it works for, None when free
          pc          \* thread -> "setup", "idle" (loop top) or "pass"

vars == <<proc, main, WorkRegim, disp, at, first, dk, row, flag, job, pc>>

config == <<dk, row>>
dispatcher == <<disp, at, first>>
threads == <<flag, job, pc>>

-----------------------------------------------------------------------------
Regims == {0, 3}      \* 0 asks the kernel to finish; it boots with 3

(* The switches that can matter to the slots looked at.                    *)
Relevant == UNION {StartPlan[i].on : i \in {j \in DOMAIN StartPlan :
                                              StartPlan[j].slot \in Slots}}

Config == [regim : Regims, on : SUBSET Switches]

NoConfig == [regim |-> 0, on |-> {}]

TypeOK ==
  /\ proc \in {"down", "up"}
  /\ main \in {"wait", "linger"}
  /\ WorkRegim \in BOOLEAN
  /\ disp \in {"none", "begin", "walk", "mark", "load", "decide", "leave",
              "stopped"}
  /\ at \in 1 .. Len(StartPlan) + 1
  /\ first \in BOOLEAN
  /\ dk \in Config
  /\ row \in Config
  /\ flag \in SUBSET Slots
  /\ job \in [Tid -> Slots \cup {None}]
  /\ pc \in [Tid -> {"setup", "idle", "pass"}]

Live(s) == \E t \in Tid : job[t] = s

(* The memory of a process that does not run.                              *)
Blank ==
  /\ main' = "wait"
  /\ WorkRegim' = FALSE
  /\ disp' = "none"
  /\ at' = 1
  /\ first' = TRUE
  /\ dk' = NoConfig
  /\ flag' = {}
  /\ job' = [t \in Tid |-> None]
  /\ pc' = [t \in Tid |-> "setup"]

Init ==
  /\ proc = "down"
  /\ main = "wait"
  /\ WorkRegim = FALSE
  /\ disp = "none"
  /\ at = 1
  /\ first = TRUE
  /\ dk = NoConfig
  /\ row \in [regim : Regims, on : SUBSET Relevant]
  /\ flag = {}
  /\ job = [t \in Tid |-> None]
  /\ pc = [t \in Tid |-> "setup"]

-----------------------------------------------------------------------------
(* watcher.sh starts the kernel; initkernel puts regim back to 3, loads    *)
(* the configuration, and main creates the dispatcher (or only logs that   *)
(* it could not).                                                          *)
Boot ==
  /\ proc = "down"
  /\ proc' = "up"
  /\ row' = [row EXCEPT !.regim = 3]
  /\ dk' = row'
  /\ disp' \in {"begin", "none"}
  /\ UNCHANGED <<main, WorkRegim, at, first, threads>>

(* initkernel cannot read the device table: the process returns at once.   *)
BootFails ==
  /\ proc = "down"
  /\ row' = [row EXCEPT !.regim = 3]
  /\ UNCHANGED <<proc, main, WorkRegim, dispatcher, dk, threads>>

(* The process ends whatever its threads are doing: a fault, a kill, the   *)
(* HTTP command "exit".                                                    *)
Crash ==
  /\ proc = "up"
  /\ proc' = "down"
  /\ Blank
  /\ UNCHANGED row

(* main waits for WorkRegim to fall.  It starts waiting before the         *)
(* dispatcher has raised it, so it may fall through at once.               *)
MainFallsThrough ==
  /\ proc = "up"
  /\ main = "wait"
  /\ ~WorkRegim
  /\ main' = "linger"
  /\ UNCHANGED <<proc, WorkRegim, dispatcher, config, threads>>

(* After the long sleep main returns, and with it the process.             *)
MainReturns ==
  /\ proc = "up"
  /\ main = "linger"
  /\ proc' = "down"
  /\ Blank
  /\ UNCHANGED row

(* The operator edits the row of dev_dk: the mode or one switch.           *)
Operator ==
  /\ \/ \E r \in Regims : row' = [row EXCEPT !.regim = r]
     \/ \E w \in Relevant : row' = [row EXCEPT !.on = @ \cup {w}]
     \/ \E w \in Relevant : row' = [row EXCEPT !.on = @ \ {w}]
  /\ UNCHANGED <<proc, main, WorkRegim, dispatcher, dk, threads>>

-----------------------------------------------------------------------------
(* The dispatcher.                                                         *)

Entry == StartPlan[at]

(* Mutant: SET-4TM tests a flag of its own, which nobody sets.             *)
WantedOwnFlag ==
  /\ at \in DOMAIN StartPlan
  /\ Entry.slot \in Slots
  /\ Entry.on \subseteq dk.on
  /\ Entry.slot \notin flag \/ Entry.on = {"SET_4TM"}

(* Mutant: a thread is created for every switch that is on.                *)
WantedBlind ==
  /\ at \in DOMAIN StartPlan
  /\ Entry.slot \in Slots
  /\ Entry.on \subseteq dk.on

(* "if (enabled && !flag)" of the entry the dispatcher is at.              *)
Wanted ==
  /\ at \in DOMAIN StartPlan
  /\ Entry.slot \in Slots
  /\ Entry.on \subseteq dk.on
  /\ Entry.slot \notin flag

Begin ==
  /\ disp = "begin"
  /\ WorkRegim' = TRUE
  /\ disp' = "walk"
  /\ at' = 1
  /\ UNCHANGED <<proc, main, first, config, threads>>

(* pthread_create succeeds: the thread runs before its flag is set.        *)
Spawn(t) ==
  /\ disp = "walk"
  /\ Wanted
  /\ job[t] = None
  /\ job' = [job EXCEPT ![t] = Entry.slot]
  /\ pc' = [pc EXCEPT ![t] = "setup"]
  /\ disp' = "mark"
  /\ UNCHANGED <<proc, main, WorkRegim, at, first, config, flag>>

(* The entry is not wanted, or pthread_create fails and is only logged.    *)
PassEntry ==
  /\ disp = "walk"
  /\ at \in DOMAIN StartPlan
  /\ at' = at + 1
  /\ UNCHANGED <<proc, main, WorkRegim, disp, first, config, threads>>

(* flag=TRUE, after the fact.                                              *)
Mark ==
  /\ disp = "mark"
  /\ flag' = flag \cup {Entry.slot}
  /\ disp' = "walk"
  /\ at' = at + 1
  /\ UNCHANGED <<proc, main, WorkRegim, first, config, job, pc>>

(* The first walk is made on the configuration of initkernel; every later  *)
(* one follows a LoadDKConfig and is followed by the test of dk.regim.     *)
EndWalk ==
  /\ disp = "walk"
  /\ at = Len(StartPlan) + 1
  /\ disp' = IF first THEN "load" ELSE "decide"
  /\ first' = FALSE
  /\ UNCHANGED <<proc, main, WorkRegim, at, config, threads>>

(* Mutant: the switches are read at boot only.                             *)
LoadRegimOnly ==
  /\ disp = "load"
  /\ dk' = [dk EXCEPT !.regim = row.regim]
  /\ disp' = "walk"
  /\ at' = 1
  /\ UNCHANGED <<proc, main, WorkRegim, first, row, threads>>

(* LoadDKConfig.                                                           *)
Load ==
  /\ disp = "load"
  /\ dk' = row
  /\ disp' = "walk"
  /\ at' = 1
  /\ UNCHANGED <<proc, main, WorkRegim, first, row, threads>>

(* The query of LoadDKConfig fails: the configuration stays as it was.     *)
LoadFails ==
  /\ disp = "load"
  /\ disp' = "walk"
  /\ at' = 1
  /\ UNCHANGED <<proc, main, WorkRegim, first, config, threads>>

Decide ==
  /\ disp = "decide"
  /\ disp' = IF dk.regim = 0 THEN "leave" ELSE "load"
  /\ UNCHANGED <<proc, main, WorkRegim, at, first, config, threads>>

(* "while (secc--)" has run out, after 619200 rounds of a minute.          *)
Expire ==
  /\ disp = "decide"
  /\ dk.regim # 0
  /\ disp' = "leave"
  /\ UNCHANGED <<proc, main, WorkRegim, at, first, config, threads>>

(* Mutant: the dispatcher ends without lowering WorkRegim.                 *)
FinishSilently ==
  /\ disp = "leave"
  /\ disp' = "stopped"
  /\ UNCHANGED <<proc, main, WorkRegim, at, first, config, threads>>

Finish ==
  /\ disp = "leave"
  /\ WorkRegim' = FALSE
  /\ disp' = "stopped"
  /\ UNCHANGED <<proc, main, at, first, config, threads>>

DispatcherStep ==
  \/ Begin \/ PassEntry \/ Mark \/ EndWalk \/ Load \/ LoadFails \/ Decide
  \/ Expire \/ Finish
  \/ \E t \in Tid : Spawn(t)

-----------------------------------------------------------------------------
(* A driver thread t working for the slot job[t].                          *)

P(t) == Profile[job[t]]

On(t) == P(t).watches \cap dk.on # {}

Gone(t) == job' = [job EXCEPT ![t] = None]

Unflagged(t) == flag \ {job[t]}

(* The thread cannot start: it returns before its loop.                    *)
Quit(t) ==
  /\ job[t] # None
  /\ pc[t] = "setup"
  /\ \/ P(t).quits = "fails"
     \/ P(t).quits = "empty" /\ job[t] \notin Equipped
  /\ flag' = IF ~P(t).forgets THEN Unflagged(t)
             ELSE IF P(t).marks THEN flag \cup {job[t]} ELSE flag
  /\ Gone(t)
  /\ UNCHANGED <<proc, main, WorkRegim, dispatcher, config, pc>>

EnterLoop(t) ==
  /\ job[t] # None
  /\ pc[t] = "setup"
  /\ P(t).quits = "empty" => job[t] \in Equipped
  /\ flag' = IF P(t).marks THEN flag \cup {job[t]} ELSE flag
  /\ pc' = [pc EXCEPT ![t] = "idle"]
  /\ UNCHANGED <<proc, main, WorkRegim, dispatcher, config, job>>

BeginPass(t) ==
  /\ job[t] \in Equipped
  /\ pc[t] = "idle"
  /\ P(t).heeds => WorkRegim
  /\ P(t).gated => On(t)
  /\ pc' = [pc EXCEPT ![t] = "pass"]
  /\ UNCHANGED <<proc, main, WorkRegim, dispatcher, config, flag, job>>

(* Mutant: the thread exits without clearing its flag.                     *)
StopCheckSilent(t) ==
  /\ job[t] # None
  /\ pc[t] = "pass"
  /\ P(t).stops
  /\ ~On(t)
  /\ Gone(t)
  /\ UNCHANGED <<proc, main, WorkRegim, dispatcher, config, flag, pc>>

(* "if (!dk.pth[...])": the thread clears its flag and exits.              *)
StopCheck(t) ==
  /\ job[t] # None
  /\ pc[t] = "pass"
  /\ P(t).stops
  /\ ~On(t)
  /\ flag' = Unflagged(t)
  /\ Gone(t)
  /\ UNCHANGED <<proc, main, WorkRegim, dispatcher, config, pc>>

(* The pass ends: the switch is still on, or the check was not reached.    *)
EndPass(t) ==
  /\ job[t] # None
  /\ pc[t] = "pass"
  /\ P(t).stops => (On(t) \/ P(t).skips)
  /\ pc' = [pc EXCEPT ![t] = "idle"]
  /\ UNCHANGED <<proc, main, WorkRegim, dispatcher, config, flag, job>>

(* A server loop ends by itself: the Modbus master hangs up, accept fails. *)
Break(t) ==
  /\ job[t] # None
  /\ pc[t] = "pass"
  /\ P(t).breaks
  /\ flag' = IF P(t).clears THEN Unflagged(t) ELSE flag
  /\ Gone(t)
  /\ UNCHANGED <<proc, main, WorkRegim, dispatcher, config, pc>>

(* The loop ends because WorkRegim has fallen.                             *)
Leave(t) ==
  /\ job[t] # None
  /\ pc[t] = "idle"
  /\ P(t).heeds
  /\ ~WorkRegim
  /\ flag' = IF P(t).clears THEN Unflagged(t) ELSE flag
  /\ Gone(t)
  /\ UNCHANGED <<proc, main, WorkRegim, dispatcher, config, pc>>

ThreadStep(t) ==
  Quit(t) \/ EnterLoop(t) \/ BeginPass(t) \/ StopCheck(t) \/ EndPass(t)
    \/ Break(t) \/ Leave(t)

Next ==
  \/ Boot \/ BootFails \/ Crash \/ MainFallsThrough \/ MainReturns \/ Operator
  \/ DispatcherStep
  \/ \E t \in Tid : ThreadStep(t)

Spec == Init /\ [][Next]_vars

(* watcher.sh looks every ten seconds; main and the dispatcher only sleep; *)
(* a driver's reads time out, so its pass ends.  The two servers wait for  *)
(* their peers without a bound and are not fair.  A query, a               *)
(* pthread_create and the opening of a port that are tried for ever        *)
(* succeed in the end; a pass with its port open reaches the stop check.   *)
FairThread(t) == job[t] \notin {"modbus", "crq"} /\ ThreadStep(t)

SpawnFor(s) ==
  at \in DOMAIN StartPlan /\ Entry.slot = s /\ \E t \in Tid : Spawn(t)

Fairness ==
  /\ WF_vars(Boot) /\ WF_vars(MainReturns)
  /\ WF_vars(DispatcherStep /\ ~Expire)
  /\ SF_vars(Load)
  /\ \A s \in Slots : SF_vars(SpawnFor(s))
  /\ \A t \in Tid : WF_vars(FairThread(t)) /\ SF_vars(StopCheck(t))

FairSpec == Spec /\ Fairness

-----------------------------------------------------------------------------
(* Safety.                                                                 *)

(* At most one thread works for a slot.  Every driver keeps its port, its  *)
(* query buffer and its device table in file-level statics that two        *)
(* threads would share; StartThreads relies on the flag alone, which it    *)
(* sets after the thread runs and which the thread itself clears.          *)
OneThreadPerSlot ==
  \A t, u \in Tid : job[t] = job[u] /\ job[t] # None => t = u

(* Drivers that cannot lose their flag: set-up cannot end them, the loop   *)
(* does not end by itself, and they stop only for a switch that the start  *)
(* plan tests before it starts them.                                       *)
Reliable ==
  {s \in Slots :
     /\ Profile[s].quits = "never"
     /\ ~Profile[s].breaks
     /\ \A i \in DOMAIN StartPlan :
          StartPlan[i].slot = s => StartPlan[i].on \cap Profile[s].watches # {}}

(* While the kernel works, the flag of a reliable driver stands for a      *)
(* thread that exists, so a stopped driver can be started again: the       *)
(* dispatcher never sets a flag whose thread has already cleared it.       *)
FlagTruthful ==
  \A s \in Reliable :
    s \in flag /\ WorkRegim => Live(s)

(* A flag whose thread is gone, as lk.cpp leaves it when no concentrator   *)
(* is configured ("we are started" without "we are finished"), is for good *)
(* until the process ends: whatever the operator switches, nothing clears  *)
(* it and no thread is started for it.  (While the dispatcher is between   *)
(* pthread_create and its own store, the flag may be about to be set.)     *)
StrandedStays ==
  [][\A s \in Slots :
       s \in flag /\ ~Live(s) /\ disp # "mark" /\ proc' = "up"
         => s \in flag' /\ ~Live(s)']_vars

-----------------------------------------------------------------------------
(* Liveness.                                                               *)

SwitchedOn(s) ==
  \E i \in DOMAIN StartPlan : StartPlan[i].slot = s /\ StartPlan[i].on \subseteq row.on

(* A reliable driver whose switch stays on in a kernel that keeps working  *)
(* is running in the end and stays so, whatever stops, restarts and        *)
(* failed creations came before.                                           *)
EnabledRuns ==
  \A s \in Reliable :
    <>[](proc = "up" /\ WorkRegim /\ SwitchedOn(s)) => <>[]Live(s)

(* A driver whose passes are not gated by its own switch is gone in the    *)
(* end when the operator leaves the switch off.                            *)
DisabledStops ==
  \A s \in {r \in Slots \cap Equipped : Profile[r].stops /\ ~Profile[r].gated} :
    <>[](proc = "up" /\ disp # "none" /\ ~SwitchedOn(s)) => <>[]~Live(s)

(* A gated driver may park for ever instead of stopping, but once its      *)
(* switches stay off it makes no further pass over its devices.            *)
GatedPauses ==
  \A s \in {r \in Slots : Profile[r].gated} :
    <>[](proc = "up" /\ disp # "none" /\ ~SwitchedOn(s))
      => <>[](\A t \in Tid : job[t] = s => pc[t] # "pass")

(* A driver that is switched off does not go on polling.                   *)
SwitchedOffStops == DisabledStops /\ GatedPauses

(* Asked to finish (regim 0, left alone), a kernel that does not crash     *)
(* lowers WorkRegim, and every driver that heeds it ends.                  *)
ShutdownDrains ==
  <>[](proc = "up" /\ row.regim = 0)
    => <>[](~WorkRegim /\ \A s \in Slots \ {"modbus", "crq"} : ~Live(s))
=============================================================================
