---------------------------- MODULE KernelProofs ----------------------------
(***************************************************************************)
(* What Kernel guarantees for every set of slots, every set of equipped    *)
(* drivers and every number of threads: at most one thread per slot, and   *)
(* flags of reliable drivers that mean a running thread.                   *)
(***************************************************************************)
EXTENDS Kernel, TLAPS

(* A thread's slot is flagged, or the dispatcher is just about to flag it. *)
Flagged ==
  \A t \in Tid : job[t] # None =>
    job[t] \in flag \/ (disp = "mark" /\ Entry.slot = job[t])

(* Where the dispatcher is tells what WorkRegim, the flags and the process *)
(* can be.                                                                 *)
Phase ==
  /\ proc = "down" => disp = "none"
  /\ disp \in {"none", "begin"} => flag = {} /\ \A t \in Tid : job[t] = None
  /\ disp \notin {"none", "begin", "stopped"} => WorkRegim
  /\ disp = "mark" => at \in DOMAIN StartPlan /\ Entry.slot \in Slots

(* The thread a reliable flag is about to be set for exists, and the       *)
(* switches it was created for are still on in memory: only Load changes   *)
(* them, and Load waits for the walk to end.                               *)
Pending ==
  disp = "mark" /\ Entry.slot \in Reliable =>
    Live(Entry.slot) /\ Entry.on \subseteq dk.on

IInv == TypeOK /\ Flagged /\ Phase /\ OneThreadPerSlot /\ Pending /\ FlagTruthful

-----------------------------------------------------------------------------
LEMMA PlanFacts ==
  /\ Len(StartPlan) = 14
  /\ DOMAIN StartPlan = 1 .. 14
<1>1. DOMAIN StartPlan = 1 .. 14
  BY DEF StartPlan
<1>2. Len(StartPlan) = 14
  BY DEF StartPlan
<1> QED BY <1>1, <1>2

LEMMA SlotsAreNotNone == None \notin Slots /\ None \notin AllSlots
  BY KernelAssumption

-----------------------------------------------------------------------------
LEMMA InitIInv == Init => IInv
<1> SUFFICES ASSUME Init PROVE IInv
  OBVIOUS
<1> USE DEF Init, NoConfig
<1>1. Relevant \subseteq Switches
  BY PlanFacts DEF Relevant, StartPlan, Switches
<1>2. TypeOK
  <2>1. dk \in Config /\ row \in Config
    BY <1>1 DEF Config, Regims
  <2>2. at \in 1 .. Len(StartPlan) + 1
    BY PlanFacts
  <2>3. job \in [Tid -> Slots \cup {None}] /\ pc \in [Tid -> {"setup", "idle", "pass"}]
    OBVIOUS
  <2>4. flag \in SUBSET Slots /\ first \in BOOLEAN /\ WorkRegim \in BOOLEAN
    OBVIOUS
  <2> QED BY <2>1, <2>2, <2>3, <2>4 DEF TypeOK
<1>3. Flagged /\ Phase /\ OneThreadPerSlot /\ Pending /\ FlagTruthful
  BY DEF Flagged, Phase, OneThreadPerSlot, Pending, FlagTruthful
<1> QED BY <1>2, <1>3 DEF IInv

LEMMA StepTypeOK == IInv /\ [Next]_vars => TypeOK'
<1> SUFFICES ASSUME IInv, [Next]_vars PROVE TypeOK'
  OBVIOUS
<1> USE PlanFacts DEF IInv, TypeOK, dispatcher, config, threads
<1>1. CASE Boot
  BY <1>1 DEF Boot, Config, Regims
<1>2. CASE BootFails
  BY <1>2 DEF BootFails, Config, Regims
<1>3. ASSUME proc' = "down", Blank, UNCHANGED row PROVE TypeOK'
  <2>1. dk' \in Config /\ row' \in Config
    BY <1>3 DEF Blank, NoConfig, Config, Regims
  <2>2. at' \in 1 .. Len(StartPlan) + 1
    BY <1>3 DEF Blank
  <2>3. job' \in [Tid -> Slots \cup {None}] /\ pc' \in [Tid -> {"setup", "idle", "pass"}]
    BY <1>3 DEF Blank
  <2> QED BY <1>3, <2>1, <2>2, <2>3 DEF Blank
<1>4. CASE MainFallsThrough
  BY <1>4 DEF MainFallsThrough
<1>5. CASE Operator
  <2>1. Relevant \subseteq Switches
    BY DEF Relevant, StartPlan, Switches
  <2> QED BY <1>5, <2>1 DEF Operator, Config
<1>6. CASE DispatcherStep
  <2>1. CASE Begin
    BY <1>6, <2>1 DEF Begin
  <2>2. CASE PassEntry
    BY <1>6, <2>2 DEF PassEntry
  <2>3. CASE Mark
    BY <1>6, <2>3 DEF Mark, Phase
  <2>4. CASE EndWalk
    BY <1>6, <2>4 DEF EndWalk
  <2>5. CASE Load \/ LoadFails
    BY <1>6, <2>5 DEF Load, LoadFails
  <2>6. CASE Decide \/ Expire
    BY <1>6, <2>6 DEF Decide, Expire
  <2>7. CASE Finish
    BY <1>6, <2>7 DEF Finish
  <2>8. ASSUME NEW t \in Tid, Spawn(t) PROVE TypeOK'
    BY <2>8 DEF Spawn, Wanted
  <2> QED BY <1>6, <2>1, <2>2, <2>3, <2>4, <2>5, <2>6, <2>7, <2>8
          DEF DispatcherStep
<1>7. ASSUME NEW t \in Tid, ThreadStep(t) PROVE TypeOK'
  <2>1. ASSUME job[t] # None, flag' \in {flag, flag \cup {job[t]}, Unflagged(t)}
        PROVE flag' \in SUBSET Slots
    BY <2>1 DEF Unflagged
  <2>2. CASE Quit(t) \/ StopCheck(t) \/ Break(t) \/ Leave(t)
    BY <2>1, <2>2 DEF Quit, StopCheck, Break, Leave, Gone
  <2>3. CASE EnterLoop(t)
    BY <2>1, <2>3 DEF EnterLoop
  <2>4. CASE BeginPass(t) \/ EndPass(t)
    BY <2>4 DEF BeginPass, EndPass
  <2> QED BY <1>7, <2>2, <2>3, <2>4 DEF ThreadStep
<1>8. CASE UNCHANGED vars
  BY <1>8 DEF vars
<1> QED BY <1>1, <1>2, <1>3, <1>4, <1>5, <1>6, <1>7, <1>8
        DEF Next, Crash, MainReturns

(* What the steps of the dispatcher and of the threads have in common: a   *)
(* thread that ends takes at most its own flag with it.                    *)
Ends(t) ==
  /\ job[t] # None
  /\ Gone(t)
  /\ flag' \in {flag, flag \cup {job[t]}, Unflagged(t)}
  /\ UNCHANGED <<proc, WorkRegim, dispatcher, config>>

LEMMA EndingSteps ==
  ASSUME NEW t \in Tid, Quit(t) \/ StopCheck(t) \/ Break(t) \/ Leave(t)
  PROVE  Ends(t)
  BY DEF Quit, StopCheck, Break, Leave, Ends

LEMMA StepFlagged == IInv /\ [Next]_vars => Flagged' /\ OneThreadPerSlot'
<1> SUFFICES ASSUME IInv, [Next]_vars PROVE Flagged' /\ OneThreadPerSlot'
  OBVIOUS
<1> USE SlotsAreNotNone
    DEF IInv, TypeOK, Flagged, OneThreadPerSlot, Entry, dispatcher, config, threads
<1>1. CASE Boot \/ BootFails \/ MainFallsThrough \/ Operator
  BY <1>1 DEF Boot, BootFails, MainFallsThrough, Operator, Phase
<1>2. CASE Crash \/ MainReturns
  BY <1>2 DEF Crash, MainReturns, Blank
<1>3. CASE Begin \/ PassEntry \/ EndWalk \/ Load \/ LoadFails \/ Decide \/ Expire
             \/ Finish
  BY <1>3 DEF Begin, PassEntry, EndWalk, Load, LoadFails, Decide, Expire, Finish
<1>4. CASE Mark
  BY <1>4 DEF Mark
<1>5. ASSUME NEW t \in Tid, Spawn(t) PROVE Flagged' /\ OneThreadPerSlot'
  <2>1. \A u \in Tid : job[u] # Entry.slot
    BY <1>5 DEF Spawn, Wanted
  <2> QED BY <1>5, <2>1 DEF Spawn, Wanted
<1>6. ASSUME NEW t \in Tid, Ends(t) PROVE Flagged' /\ OneThreadPerSlot'
  <2>1. \A u \in Tid : u # t => job'[u] = job[u]
    BY <1>6 DEF Ends, Gone
  <2>2. job'[t] = None
    BY <1>6 DEF Ends, Gone
  <2>3. \A u \in Tid : u # t /\ job[u] \in flag => job[u] \in flag' \/ job[u] = None
    BY <1>6 DEF Ends, Unflagged
  <2> QED BY <1>6, <2>1, <2>2, <2>3 DEF Ends
<1>7. ASSUME NEW t \in Tid, EnterLoop(t) \/ BeginPass(t) \/ EndPass(t)
      PROVE Flagged' /\ OneThreadPerSlot'
  BY <1>7 DEF EnterLoop, BeginPass, EndPass
<1>8. CASE UNCHANGED vars
  BY <1>8 DEF vars
<1> QED BY <1>1, <1>2, <1>3, <1>4, <1>5, <1>6, <1>7, <1>8, EndingSteps
        DEF Next, DispatcherStep, ThreadStep

LEMMA StepPhase == IInv /\ [Next]_vars => Phase'
<1> SUFFICES ASSUME IInv, [Next]_vars PROVE Phase'
  OBVIOUS
<1> USE SlotsAreNotNone DEF IInv, TypeOK, Phase, Entry, dispatcher, config, threads
<1>1. CASE Boot \/ BootFails \/ MainFallsThrough \/ Operator
  BY <1>1 DEF Boot, BootFails, MainFallsThrough, Operator
<1>2. CASE Crash \/ MainReturns
  BY <1>2 DEF Crash, MainReturns, Blank
<1>3. CASE Begin \/ PassEntry \/ EndWalk \/ Load \/ LoadFails \/ Decide \/ Expire
             \/ Finish \/ Mark
  BY <1>3 DEF Begin, PassEntry, EndWalk, Load, LoadFails, Decide, Expire, Finish, Mark
<1>4. ASSUME NEW t \in Tid, Spawn(t) PROVE Phase'
  BY <1>4 DEF Spawn, Wanted
<1>5. ASSUME NEW t \in Tid, Ends(t) PROVE Phase'
  BY <1>5 DEF Ends
<1>6. ASSUME NEW t \in Tid, EnterLoop(t) \/ BeginPass(t) \/ EndPass(t)
      PROVE Phase'
  <2>1. disp \notin {"none", "begin"} \/ job[t] = None
    OBVIOUS
  <2> QED BY <1>6, <2>1, KernelAssumption DEF EnterLoop, BeginPass, EndPass
<1>7. CASE UNCHANGED vars
  BY <1>7 DEF vars
<1> QED BY <1>1, <1>2, <1>3, <1>4, <1>5, <1>6, <1>7, EndingSteps
        DEF Next, DispatcherStep, ThreadStep

(* A thread of a reliable driver ends only by its stop check or because    *)
(* WorkRegim has fallen; never while the dispatcher is about to flag it.   *)
LEMMA ReliableEnds ==
  ASSUME IInv, NEW t \in Tid, job[t] \in Reliable,
         Quit(t) \/ StopCheck(t) \/ Break(t) \/ Leave(t)
  PROVE  /\ WorkRegim => flag' = Unflagged(t)
         /\ ~(disp = "mark" /\ Entry.slot = job[t])
<1> USE DEF IInv, Reliable
<1>1. ~Quit(t) /\ ~Break(t)
  BY DEF Quit, Break, P
<1>2. CASE StopCheck(t)
  <2>1. ASSUME disp = "mark", Entry.slot = job[t] PROVE FALSE
    <3>1. at \in DOMAIN StartPlan /\ Entry.on \subseteq dk.on
      BY <2>1 DEF Pending, Phase
    <3>2. Entry.on \cap Profile[job[t]].watches # {}
      BY <2>1, <3>1 DEF Entry
    <3>3. On(t)
      BY <3>1, <3>2 DEF On, P
    <3> QED BY <1>2, <3>3 DEF StopCheck
  <2> QED BY <1>2, <2>1 DEF StopCheck
<1>3. CASE Leave(t)
  BY <1>3 DEF Leave, Phase
<1> QED BY <1>1, <1>2, <1>3

LEMMA StepTruthful == IInv /\ [Next]_vars => Pending' /\ FlagTruthful'
<1> SUFFICES ASSUME IInv, [Next]_vars PROVE Pending' /\ FlagTruthful'
  OBVIOUS
<1> USE SlotsAreNotNone
    DEF IInv, TypeOK, Pending, FlagTruthful, Live, Entry, dispatcher, config, threads
<1>1. CASE Boot \/ BootFails \/ MainFallsThrough \/ Operator
  BY <1>1 DEF Boot, BootFails, MainFallsThrough, Operator, Phase
<1>2. CASE Crash \/ MainReturns
  BY <1>2 DEF Crash, MainReturns, Blank
<1>3. CASE Begin
  BY <1>3 DEF Begin, Phase
<1>4. CASE PassEntry \/ EndWalk \/ Load \/ LoadFails \/ Decide \/ Expire \/ Finish
  BY <1>4 DEF PassEntry, EndWalk, Load, LoadFails, Decide, Expire, Finish
<1>5. CASE Mark
  BY <1>5 DEF Mark
<1>6. ASSUME NEW t \in Tid, Spawn(t) PROVE Pending' /\ FlagTruthful'
  <2>1. \A s \in Slots : Live(s) => Live(s)'
    BY <1>6 DEF Spawn
  <2>2. Live(Entry.slot)'
    BY <1>6 DEF Spawn
  <2>3. Reliable \subseteq Slots
    BY DEF Reliable
  <2> QED BY <1>6, <2>1, <2>2, <2>3 DEF Spawn, Wanted
<1>7. ASSUME NEW t \in Tid, Quit(t) \/ StopCheck(t) \/ Break(t) \/ Leave(t)
      PROVE Pending' /\ FlagTruthful'
  <2>1. Ends(t)
    BY <1>7, EndingSteps
  <2>2. \A s \in Slots : s # job[t] /\ Live(s) => Live(s)'
    BY <2>1 DEF Ends, Gone
  <2>3. \A s \in Slots : s # job[t] => (s \in flag' <=> s \in flag)
    BY <2>1 DEF Ends, Unflagged
  <2>4. Reliable \subseteq Slots
    BY DEF Reliable
  <2>5. job[t] \in Reliable =>
          /\ WorkRegim => job[t] \notin flag'
          /\ ~(disp = "mark" /\ Entry.slot = job[t])
    BY <1>7, ReliableEnds DEF Unflagged
  <2>6. Pending'
    BY <2>1, <2>2, <2>4, <2>5 DEF Ends, Phase
  <2>7. FlagTruthful'
    BY <2>1, <2>2, <2>3, <2>4, <2>5 DEF Ends
  <2> QED BY <2>6, <2>7
<1>8. ASSUME NEW t \in Tid, EnterLoop(t) PROVE Pending' /\ FlagTruthful'
  BY <1>8 DEF EnterLoop
<1>9. ASSUME NEW t \in Tid, BeginPass(t) \/ EndPass(t) PROVE Pending' /\ FlagTruthful'
  BY <1>9 DEF BeginPass, EndPass
<1>10. CASE UNCHANGED vars
  BY <1>10 DEF vars
<1> QED BY <1>1, <1>2, <1>3, <1>4, <1>5, <1>6, <1>7, <1>8, <1>9, <1>10
        DEF Next, DispatcherStep, ThreadStep

-----------------------------------------------------------------------------
LEMMA Inductive == Spec => []IInv
<1>1. Init => IInv
  BY InitIInv
<1>2. IInv /\ [Next]_vars => IInv'
  BY StepTypeOK, StepFlagged, StepPhase, StepTruthful DEF IInv
<1> QED BY <1>1, <1>2, PTL DEF Spec

(* Every variable keeps its range.                                         *)
THEOREM TypeCorrect == Spec => []TypeOK
BY Inductive, PTL DEF IInv

(* However the dispatcher's flag stores, the threads' own stores, failed   *)
(* creations, stops, crashes and restarts interleave, no slot is ever      *)
(* served by two threads: StartThreads never starts a second one.          *)
THEOREM OneThread == Spec => []OneThreadPerSlot
BY Inductive, PTL DEF IInv

(* In a working kernel the flag of a reliable driver (Tekon, Mercury) is   *)
(* TRUE only if its thread exists, so the next StartThreads can restart it.*)
THEOREM TruthfulFlags == Spec => []FlagTruthful
BY Inductive, PTL DEF IInv

(* A flag whose thread is gone stays so as long as the process lives, for  *)
(* every driver: no step clears it, and StartThreads passes it by          *)
(* (lk.cpp:94).                                                            *)
THEOREM Stranded == Spec => StrandedStays
<1> DEFINE Stays == \A s \in Slots :
             s \in flag /\ ~Live(s) /\ disp # "mark" /\ proc' = "up"
               => s \in flag' /\ ~Live(s)'
<1>1. IInv /\ [Next]_vars => [Stays]_vars
  <2> SUFFICES ASSUME IInv, Next,
                      NEW s \in Slots, s \in flag, ~Live(s), disp # "mark", proc' = "up"
               PROVE  s \in flag' /\ ~Live(s)'
    OBVIOUS
  <2> USE SlotsAreNotNone DEF Live, dispatcher, config, threads
  <2>1. CASE Boot \/ BootFails \/ MainFallsThrough \/ Operator
    BY <2>1 DEF Boot, BootFails, MainFallsThrough, Operator
  <2>2. CASE Crash \/ MainReturns
    BY <2>2 DEF Crash, MainReturns
  <2>3. CASE Begin \/ PassEntry \/ Mark \/ EndWalk \/ Load \/ LoadFails \/ Decide
               \/ Expire \/ Finish
    BY <2>3 DEF Begin, PassEntry, Mark, EndWalk, Load, LoadFails, Decide, Expire, Finish
  <2>4. ASSUME NEW t \in Tid, Spawn(t) PROVE s \in flag' /\ ~Live(s)'
    BY <2>4 DEF Spawn, Wanted, IInv, TypeOK
  <2>5. ASSUME NEW t \in Tid, Ends(t) PROVE s \in flag' /\ ~Live(s)'
    <3>1. job[t] # s /\ job \in [Tid -> Slots \cup {None}]
      BY DEF IInv, TypeOK
    <3> QED BY <2>5, <3>1 DEF Ends, Gone, Unflagged
  <2>6. ASSUME NEW t \in Tid, EnterLoop(t) \/ BeginPass(t) \/ EndPass(t)
        PROVE s \in flag' /\ ~Live(s)'
    BY <2>6 DEF EnterLoop, BeginPass, EndPass
  <2> QED BY <2>1, <2>2, <2>3, <2>4, <2>5, <2>6, EndingSteps
          DEF Next, DispatcherStep, ThreadStep
<1> QED BY Inductive, <1>1, PTL DEF Spec, StrandedStays

=============================================================================
