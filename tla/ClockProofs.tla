----------------------------- MODULE ClockProofs -----------------------------
(***************************************************************************)
(* What the shared struct of localtime can do to the date of a value, for  *)
(* any threads and any length of walk.                                     *)
(***************************************************************************)
EXTENDS Clock, TLAPS

(* A walk under way is at one of its hours, all of which are over.         *)
Walking ==
  \A w \in Walkers :
    pc[w] # "idle" => /\ tims[w] \in last[w] .. last[w] + Span
                      /\ last[w] + Span + Lag <= now

(* A current value has been read by now.                                   *)
Holding ==
  \A t \in Stampers : /\ pc[t] \in {"idle", "store"}
                      /\ pc[t] = "store" => got[t] \in 0 .. now

(* The struct holds no hour to come; either it is no older than any        *)
(* current value in hand, or an hour of somebody's latest walk.            *)
Borrowed ==
  /\ tm <= now
  /\ \/ \A t \in Stampers : pc[t] = "store" => got[t] <= tm
     \/ \E w \in Walkers : tm \in last[w] .. last[w] + Span

ClockInv == TypeOK /\ Walking /\ Holding /\ Borrowed

USE ClockAssumption

LEMMA InitClock == Init => ClockInv
BY DEF Init, ClockInv, TypeOK, Walking, Holding, Borrowed, Threads, Hours, Entries

LEMMA StepType == ClockInv /\ [Next]_vars => TypeOK'
<1> SUFFICES ASSUME ClockInv, [Next]_vars PROVE TypeOK'
  OBVIOUS
<1> USE DEF ClockInv, TypeOK, Walking, Holding, Borrowed, Threads, Hours, Entries, Goto
<1>1. CASE Refresh
  BY <1>1 DEF Refresh
<1>2. CASE Tick
  BY <1>2 DEF Tick
<1>3. ASSUME NEW t \in Walkers, Walk(t) PROVE TypeOK'
  <2>1. CASE BeginWalk(t)
    BY <2>1 DEF BeginWalk
  <2>2. CASE ReadRecord(t)
    BY <2>2 DEF ReadRecord
  <2>3. CASE Convert(t)
    BY <2>3 DEF Convert
  <2>4. CASE Format(t)
    BY <2>4 DEF Format
  <2>5. CASE StoreRecord(t)
    <3>1. entry' \in [Threads -> Entries \cup {None}]
      BY <2>5 DEF StoreRecord
    <3>2. tims' \in [Walkers -> Hours]
      BY <2>5 DEF StoreRecord
    <3>3. QED BY <3>1, <3>2, <2>5 DEF StoreRecord
  <2>6. QED BY <1>3, <2>1, <2>2, <2>3, <2>4, <2>5 DEF Walk
<1>4. ASSUME NEW t \in Stampers, ReadCurrent(t) \/ Stamp(t) PROVE TypeOK'
  <2>1. CASE ReadCurrent(t)
    BY <2>1 DEF ReadCurrent
  <2>2. CASE Stamp(t)
    BY <2>2 DEF Stamp
  <2>3. QED BY <1>4, <2>1, <2>2
<1>5. CASE UNCHANGED vars
  BY <1>5 DEF vars
<1>6. QED BY <1>1, <1>2, <1>3, <1>4, <1>5 DEF Next

LEMMA StepWalking == ClockInv /\ [Next]_vars => Walking' /\ Holding'
<1> SUFFICES ASSUME ClockInv, [Next]_vars PROVE Walking' /\ Holding'
  OBVIOUS
<1> USE DEF ClockInv, TypeOK, Walking, Holding, Threads, Hours, Goto
<1>1. CASE Refresh
  BY <1>1 DEF Refresh
<1>2. CASE Tick
  BY <1>2 DEF Tick
<1>3. ASSUME NEW t \in Walkers, Walk(t) PROVE Walking' /\ Holding'
  <2>1. CASE BeginWalk(t)
    BY <2>1 DEF BeginWalk
  <2>2. CASE ReadRecord(t)
    BY <2>2 DEF ReadRecord
  <2>3. CASE Convert(t)
    BY <2>3 DEF Convert
  <2>4. CASE Format(t)
    BY <2>4 DEF Format
  <2>5. CASE StoreRecord(t)
    <3>1. pc[t] = "log" /\ tims[t] \in last[t] .. last[t] + Span /\ last[t] \in Nat /\ tims[t] \in Nat
      BY <2>5 DEF StoreRecord
    <3>2. now' = now /\ last' = last /\ got' = got
      BY <2>5 DEF StoreRecord
    <3>3. \/ pc' = [pc EXCEPT ![t] = "idle"] /\ tims' = tims
          \/ /\ tims[t] > last[t]
             /\ pc' = [pc EXCEPT ![t] = "read"]
             /\ tims' = [tims EXCEPT ![t] = @ - 1]
      <4>1. CASE tims[t] = last[t]
        BY <2>5, <4>1 DEF StoreRecord
      <4>2. CASE tims[t] # last[t]
        <5>1. tims[t] > last[t]
          BY <3>1, <4>2
        <5>2. QED BY <2>5, <4>2, <5>1 DEF StoreRecord
      <4>3. QED BY <4>1, <4>2
    <3>4. Walking'
      BY <3>1, <3>2, <3>3
    <3>5. Holding'
      BY <3>1, <3>2, <3>3
    <3>6. QED BY <3>4, <3>5
  <2>6. QED BY <1>3, <2>1, <2>2, <2>3, <2>4, <2>5 DEF Walk
<1>4. ASSUME NEW t \in Stampers, ReadCurrent(t) \/ Stamp(t) PROVE Walking' /\ Holding'
  BY <1>4 DEF ReadCurrent, Stamp
<1>5. CASE UNCHANGED vars
  BY <1>5 DEF vars
<1>6. QED BY <1>1, <1>2, <1>3, <1>4, <1>5 DEF Next

LEMMA StepBorrowed == ClockInv /\ [Next]_vars => Borrowed'
<1> SUFFICES ASSUME ClockInv, [Next]_vars PROVE Borrowed'
  OBVIOUS
<1> USE DEF ClockInv, TypeOK, Walking, Holding, Borrowed, Threads, Hours, Goto
<1>1. CASE Refresh
  BY <1>1 DEF Refresh
<1>2. CASE Tick
  BY <1>2 DEF Tick
<1>3. ASSUME NEW t \in Walkers, Walk(t) PROVE Borrowed'
  <2>1. CASE BeginWalk(t)
    BY <2>1 DEF BeginWalk
  <2>2. CASE ReadRecord(t)
    BY <2>2 DEF ReadRecord
  <2>3. CASE Convert(t)
    BY <2>3 DEF Convert
  <2>4. CASE Format(t)
    BY <2>4 DEF Format
  <2>5. CASE StoreRecord(t)
    BY <2>5 DEF StoreRecord
  <2>6. QED BY <1>3, <2>1, <2>2, <2>3, <2>4, <2>5 DEF Walk
<1>4. ASSUME NEW t \in Stampers, ReadCurrent(t) \/ Stamp(t) PROVE Borrowed'
  BY <1>4 DEF ReadCurrent, Stamp
<1>5. CASE UNCHANGED vars
  BY <1>5 DEF vars
<1>6. QED BY <1>1, <1>2, <1>3, <1>4, <1>5 DEF Next

(* Every variable keeps its range: no walk goes back beyond the hours it   *)
(* was to cover.                                                           *)
THEOREM ClockType == Spec => []TypeOK
<1>1. ClockInv /\ [Next]_vars => ClockInv'
  BY StepType, StepWalking, StepBorrowed DEF ClockInv
<1>2. ClockInv => TypeOK
  BY DEF ClockInv
<1>3. QED BY InitClock, <1>1, <1>2, PTL DEF Spec

(* The date of a current value is the time between its reading and its     *)
(* storing or an hour of another thread's walk, however many threads walk  *)
(* and store.                                                              *)
THEOREM CurrentDates == Spec => CurrentOrWalked
<1> DEFINE Dated ==
      \A t \in Stampers :
        entry'[t] # entry[t]
          => \/ entry'[t].date \in entry'[t].value .. entry'[t].at
             \/ \E w \in Walkers : entry'[t].date \in last[w] .. last[w] + Span
<1>1. ClockInv /\ [Next]_vars => ClockInv'
  BY StepType, StepWalking, StepBorrowed DEF ClockInv
<1>2. ClockInv /\ [Next]_vars => [Dated]_vars
  <2> SUFFICES ASSUME ClockInv, Next PROVE Dated
    OBVIOUS
  <2> USE DEF ClockInv, TypeOK, Holding, Borrowed, Threads, Hours
  <2>1. CASE Refresh
    BY <2>1 DEF Refresh
  <2>2. CASE Tick
    BY <2>2 DEF Tick
  <2>3. ASSUME NEW u \in Walkers, Walk(u) PROVE Dated
    <3>1. \A t \in Stampers : t # u
      OBVIOUS
    <3>2. \A t \in Stampers : entry'[t] = entry[t]
      BY <2>3, <3>1 DEF Walk, BeginWalk, ReadRecord, Convert, Format, StoreRecord
    <3>3. QED BY <3>2
  <2>4. ASSUME NEW u \in Stampers, ReadCurrent(u) PROVE Dated
    BY <2>4 DEF ReadCurrent
  <2>5. ASSUME NEW u \in Stampers, Stamp(u) PROVE Dated
    <3>1. entry'[u] = [value |-> got[u], date |-> tm, at |-> now]
      BY <2>5 DEF Stamp
    <3>2. \A t \in Stampers : t # u => entry'[t] = entry[t]
      BY <2>5 DEF Stamp
    <3>3. pc[u] = "store" /\ got[u] \in 0 .. now /\ tm \in Hours /\ now \in Nat
      BY <2>5 DEF Stamp
    <3>4. tm \in got[u] .. now \/ \E w \in Walkers : tm \in last[w] .. last[w] + Span
      BY <3>3
    <3>5. QED BY <3>1, <3>2, <3>4
  <2>6. QED BY <2>1, <2>2, <2>3, <2>4, <2>5 DEF Next
<1>3. QED BY InitClock, <1>1, <1>2, PTL DEF Spec, CurrentOrWalked

-----------------------------------------------------------------------------
(* One walker.                                                             *)
OneWalker == \A v, w \in Walkers : v = w

(* A date the walker may have come by for the hour h.                      *)
Near(d, h) == d = h \/ d \in h + Lag .. now

(* From the answer on the value in hand is that of the walk's hour; while  *)
(* the date is made, the struct holds that hour or the time of the walk,   *)
(* and so does the date.                                                   *)
Dating ==
  \A w \in Walkers :
    /\ pc[w] \in {"convert", "format", "log"} => got[w] \in {tims[w], None}
    /\ pc[w] = "format" => Near(tm, tims[w])
    /\ pc[w] = "log" /\ got[w] # None => Near(date[w], tims[w])

WalkerInv == ClockInv /\ Dating /\ MisdatedAsNow

LEMMA StepDating ==
  OneWalker => (WalkerInv /\ ClockInv' /\ [Next]_vars => Dating' /\ MisdatedAsNow')
<1> SUFFICES ASSUME OneWalker, WalkerInv, ClockInv', [Next]_vars
             PROVE Dating' /\ MisdatedAsNow'
  OBVIOUS
<1> USE DEF OneWalker, WalkerInv, ClockInv, TypeOK, Walking, Holding, Dating, Near,
            MisdatedAsNow, Threads, Hours, Goto
<1>1. CASE Refresh
  BY <1>1 DEF Refresh
<1>2. CASE Tick
  BY <1>2 DEF Tick
<1>3. ASSUME NEW t \in Walkers, Walk(t) PROVE Dating' /\ MisdatedAsNow'
  <2>1. CASE BeginWalk(t)
    BY <2>1 DEF BeginWalk
  <2>2. CASE ReadRecord(t)
    BY <2>2 DEF ReadRecord
  <2>3. CASE Convert(t)
    BY <2>3 DEF Convert
  <2>4. CASE Format(t)
    BY <2>4 DEF Format
  <2>5. CASE StoreRecord(t)
    BY <2>5 DEF StoreRecord, Entries
  <2>6. QED BY <1>3, <2>1, <2>2, <2>3, <2>4, <2>5 DEF Walk
<1>4. ASSUME NEW t \in Stampers, ReadCurrent(t) \/ Stamp(t) PROVE Dating' /\ MisdatedAsNow'
  BY <1>4 DEF ReadCurrent, Stamp
<1>5. CASE UNCHANGED vars
  BY <1>5 DEF vars
<1>6. QED BY <1>1, <1>2, <1>3, <1>4, <1>5 DEF Next

(* With one walk at a time an archive value is dated with its own hour or  *)
(* with the time of the walk, never with another hour it passes.           *)
THEOREM OneWalkDates == OneWalker => (Spec => []MisdatedAsNow)
<1> SUFFICES ASSUME OneWalker PROVE Spec => []MisdatedAsNow
  OBVIOUS
<1>1. Init => WalkerInv
  <2>1. Init => Dating /\ MisdatedAsNow
    BY DEF Init, Dating, MisdatedAsNow, Threads
  <2>2. QED BY <2>1, InitClock DEF WalkerInv
<1>2. WalkerInv /\ [Next]_vars => WalkerInv'
  BY StepType, StepWalking, StepBorrowed, StepDating DEF WalkerInv, ClockInv
<1>3. WalkerInv => MisdatedAsNow
  BY DEF WalkerInv
<1>4. QED BY <1>1, <1>2, <1>3, PTL DEF Spec
=============================================================================
