---------------------------------- MODULE Lk ----------------------------------
(***************************************************************************)
(* The LK driver of lk.cpp: a bus with concentrators (dev_lk) and, behind  *)
(* each, heat modules (dev_bit).  A pass greets every concentrator and     *)
(* polls its modules, each with two attempts; the outcome is kept in       *)
(* memory (qerrors, conn, akt) and in the rows of the table device.        *)
(* send_lk always returns true, so what the code does after a false is     *)
(* unreachable and not modelled; nor is the simulator (dk.emul).           *)
(***************************************************************************)
EXTENDS Integers, Sequences, FiniteSets, Line

CONSTANTS DevLk,      \* the table dev_lk: concentrators, [idd, adr]
          DevBit,     \* the table dev_bit: modules, [idd, ids_lk]
          Strays,     \* other devices that have a row: idd 0 or 1
          Protocol,   \* 1 (RS-485), 2 (framed), 3 (CAN)
          Alarm,      \* failures in a row still tolerated by the row: 6
          Faults,     \* what may happen to an answer
          Mortal,     \* bound: the modules that may die
          MaxUpsets,  \* bound: late and garbled answers in a behaviour
          None        \* "no row"

ASSUME LkAssumption ==
  /\ DevLk \in Seq([idd : Nat \ {0, 1}, adr : Nat]) /\ Len(DevLk) > 0
  /\ DevBit \in Seq([idd : Nat \ {0, 1}, ids_lk : Nat])   \* idd holds the
  /\ \A l, k \in 1 .. Len(DevLk) :                       \* type in its
       DevLk[l].idd = DevLk[k].idd => l = k               \* upper bits
  /\ \A m, k \in 1 .. Len(DevBit) : DevBit[m].idd = DevBit[k].idd => m = k
  /\ \A l \in 1 .. Len(DevLk), m \in 1 .. Len(DevBit) : DevLk[l].idd # DevBit[m].idd
  /\ Strays \subseteq {0, 1}
  /\ Protocol \in 1 .. 3
  /\ Alarm \in Nat \ {0}
  /\ Faults \subseteq {"lost", "late", "garbled", "short"}
  /\ Mortal \subseteq 1 .. Len(DevBit)
  /\ MaxUpsets \in Nat
  /\ None \notin {"own", "alien"}

VARIABLES pc,         \* where the thread is
          r, i,       \* the concentrator and the module in hand
          attempt,    \* 1 or 2
          errs,       \* qerrors of DeviceLK::ReadDataCurrent, modules failed
          mem,        \* the class members of a module (conn is qerrors = 0)
          row,        \* column conn of table device, by idd
          flying,     \* an answer that is still under way
          day,        \* whose is prdata of type 2 dated yesterday?
          WorkRegim, pth_lk,
          dead,       \* modules that will never answer again
          missed,     \* polls of a module in a row that stored nothing
          upsets      \* late and garbled answers so far

switches == <<WorkRegim, pth_lk>>
book == <<mem, row, day, missed>>
line == <<flying, upsets>>
vars == <<pc, r, i, attempt, errs, book, line, switches, dead>>

-----------------------------------------------------------------------------
(* The configuration: a row of dev_lk or of dev_bit becomes an object with *)
(* the device's number.  The address that counts for a concentrator is     *)
(* that of dev_lk, not that of the device.                                 *)
Lks == [l \in 1 .. Len(DevLk) |-> DevLk[l].idd]
Bits == [m \in 1 .. Len(DevBit) |-> DevBit[m].idd]

Modules == 1 .. Len(DevBit)
Behind(l) == {m \in Modules : DevBit[m].ids_lk = DevLk[l].adr}
Concentrators == {Lks[l] : l \in 1 .. Len(DevLk)}
Idds == Concentrators \cup {Bits[m] : m \in Modules} \cup Strays
Few(n) == IF n > Alarm + 1 THEN Alarm + 1 ELSE n      \* counts are capped

(* send_lk: a request for the structure with the values, which names the   *)
(* concentrator and the module.  By protocol 2 the packet also names the     *)
(* kinds of both; over CAN it goes out in frames, whose identifier is made *)
(* of the concentrator's address, of which it keeps the rest by 254.       *)
CanId(adr) == 257 + (adr % 254)
BusRequest(m) == [module |-> m, ids_lk |-> DevBit[m].ids_lk]
FramedRequest(m) ==
  [module |-> m, ids_lk |-> DevBit[m].ids_lk, lk |-> "LK", asked |-> "ZITC"]
CanRequest(m) ==
  [module |-> m, ids_lk |-> DevBit[m].ids_lk, lk |-> "LK", asked |-> "ZITC",
   can |-> CanId(DevBit[m].ids_lk)]
Request(m) ==
  CASE Protocol = 1 -> BusRequest(m)
    [] Protocol = 2 -> FramedRequest(m)
    [] Protocol = 3 -> CanRequest(m)

Frame(m) == <<"module", m>>
Short == <<"short">>
Test == <<"test">>

TypeOK ==
  /\ pc \in {"greet", "module", "book", "sleep", "end"}
  /\ r \in 1 .. Len(DevLk) + 1
  /\ i \in 1 .. Len(DevBit) + 1 /\ (pc = "module" => r <= Len(DevLk))
  /\ attempt \in 1 .. 2
  /\ errs \in 0 .. Len(DevBit)
  /\ mem \in [Modules -> [qerrors : 0 .. Alarm + 1, akt : 0 .. 1]]
  /\ row \in [Idds -> {0, 1} \cup Concentrators]
  /\ flying \in Seq({Frame(m) : m \in Modules} \cup {Test}) /\ Len(flying) <= 1
  /\ day \in [Modules -> {None, "own", "alien"}]
  /\ WorkRegim \in BOOLEAN /\ pth_lk \in BOOLEAN
  /\ dead \subseteq Mortal
  /\ missed \in [Modules -> 0 .. Alarm + 1]
  /\ upsets \in 0 .. MaxUpsets

(* OpenCom empties the line; whether there is a port is not looked at.     *)
Opened == <<>>

Init ==
  /\ pc = "greet" /\ r = 1 /\ i = 1 /\ attempt = 1 /\ errs = 0
  /\ mem = [m \in Modules |-> [qerrors |-> 0, akt |-> 1]]
  /\ row = [d \in Idds |-> 1]
  /\ flying = Opened
  /\ day = [m \in Modules |-> None]
  /\ WorkRegim = TRUE /\ pth_lk = TRUE
  /\ dead = {}
  /\ missed = [m \in Modules |-> 0]
  /\ upsets = 0

-----------------------------------------------------------------------------
(* UPDATE device ... WHERE idd = d changes the row d, if there is one.     *)
Update(d, conn) ==
  IF d \in Idds THEN [row EXCEPT ![d] = conn] ELSE row

(* read_status_7530, after a short answer: the converter is asked for its  *)
(* status, and all that has come is read with it.                          *)
AfterStatus == <<>>

(* An exchange on the bus: with what was under way, within the budget of   *)
(* upsets; a dead device answers nothing.  A short answer is a frame too.  *)
Replies(answer, gone) ==
  LET spent(e) == IF e.flying # <<>> \/ Noise \in {e.got[n] : n \in 1 .. Len(e.got)}
                    THEN upsets + 1 ELSE upsets
      can == IF gone THEN {[got |-> e, flying |-> <<>>] : e \in {<<>>, flying}}
             ELSE Exchange(flying, answer, Faults)
                    \cup (IF "short" \in Faults
                            THEN {[got |-> <<Short>>, flying |-> AfterStatus]} ELSE {})
  IN  {[got |-> e.got, flying |-> e.flying, upsets |-> spent(e)] :
         e \in {c \in can : spent(c) <= MaxUpsets}}

(* The next module behind concentrator r from position n on.               *)
NextModule(n) ==
  LET more == {m \in Modules : m >= n /\ m \in Behind(r)}
  IN  IF more = {} THEN Len(DevBit) + 1
      ELSE CHOOSE m \in more : \A k \in more : m <= k

ToModule(n) ==
  /\ i' = NextModule(n)
  /\ pc' = IF NextModule(n) \in Modules THEN "module" ELSE "book"
  /\ attempt' = 1

-----------------------------------------------------------------------------
(* DeviceLK::send_lk and read_lk.  By protocol 1 the clock is set and      *)
(* nothing is read; by protocol 2 the write of the test is commented out   *)
(* and the read takes what is there; by protocol 3 the test is sent.       *)
Greeting ==
  CASE Protocol = 1 -> {[got |-> <<Test>>, flying |-> flying, upsets |-> upsets]}
    [] Protocol = 2 -> Replies(Test, TRUE)
    [] Protocol = 3 -> Replies(Test, FALSE)

(* DeviceLK::read_lk: whatever has come is an answer.                      *)
GreetingRead(got) == IF got = <<>> THEN 0 ELSE 1

(* DeviceLK::ReadDataCurrent, its own exchange.  Then the line is flushed, *)
(* and the UPDATE gives conn the concentrator's number in the row numbered *)
(* like the outcome.                                                       *)
Greet ==
  /\ pc = "greet"
  /\ \E e \in Greeting :
       /\ row' = Update(GreetingRead(e.got), Lks[r])
       /\ flying' = e.flying
       /\ upsets' = e.upsets
  /\ errs' = 0
  /\ ToModule(1)
  /\ UNCHANGED <<r, mem, day, missed, switches, dead>>

(* After the poll of module i: the loop breaks when the process ends, and  *)
(* the function returns without its last UPDATE when LK is switched off.   *)
Polled(failed) ==
  /\ errs' = errs + failed
  /\ IF WorkRegim /\ pth_lk
       THEN ToModule(i + 1) /\ r' = r
       ELSE /\ i' = Len(DevBit) + 1
            /\ attempt' = 1
            /\ IF WorkRegim
                 THEN /\ r' = r + 1
                      /\ pc' = IF r = Len(DevLk) THEN "sleep" ELSE "greet"
                 ELSE r' = r /\ pc' = "book"

Fails(m, akt) ==
  LET q == Few(mem[m].qerrors + 1)
      active == IF akt /\ q > Alarm - 1 THEN 0 ELSE mem[m].akt
  IN  /\ mem' = [mem EXCEPT ![m] = [qerrors |-> q, akt |-> active]]
      /\ missed' = [missed EXCEPT ![m] = Few(@ + 1)]
      /\ UNCHANGED day

(* Mutant: a poll without an answer takes the way of a send problem.       *)
ReceiveAsSend(m) ==
  /\ Fails(m, TRUE)
  /\ row' = Update(mem'[m].akt, 0)
  /\ Polled(1)

(* Mutant: the row is told of every failure.                               *)
ReceiveAtOnce(m) ==
  /\ Fails(m, FALSE)
  /\ row' = Update(Bits[m], 0)
  /\ Polled(1)

(* Both attempts brought nothing, or the first a few bytes: the receive    *)
(* problem, which reaches the row after more than six in a row.            *)
ReceiveProblem(m) ==
  /\ Fails(m, FALSE)
  /\ row' = IF mem'[m].qerrors > Alarm
              THEN Update(Bits[m], 0) ELSE row
  /\ Polled(1)

(* Mutant: the arguments are right but for the device, the one before.     *)
SendProblemPrevious(m) ==
  /\ Fails(m, TRUE)
  /\ row' = Update(Bits[IF m > 1 THEN m - 1 ELSE m], 0)
  /\ Polled(1)

(* The counter of attempts is 0 when the second one was answered: this is  *)
(* taken for a problem in sending, and the answer is thrown away.  The     *)
(* UPDATE has its two arguments in each other's place.                     *)
SendProblem(m) ==
  /\ Fails(m, TRUE)
  /\ row' = Update(mem'[m].akt, 0)
  /\ Polled(1)

(* read_lk over CAN: the payloads of all frames are strung together, and   *)
(* what is unpacked is at their beginning.                                 *)
FromCan(got) == Head(got)

(* read_lk on the bus: what is unpacked begins at the first byte.  A wrong *)
(* check sum is an event (protocol 2), or sets a flag nobody reads (1), as *)
(* does the address of another module.                                     *)
FromBus(got) == Head(got)

(* Whose answer is unpacked for module m.                                  *)
Origin(m, got) ==
  IF (IF Protocol = 3 THEN FromCan(got) ELSE FromBus(got)) = Frame(m)
    THEN "own" ELSE "alien"

(* An answer at the first attempt.  Neither address nor check sum decides: *)
(* the first frame of all that came is unpacked, whosever it is.  Values   *)
(* out of range (no heat consumed) end the poll as failed, though the      *)
(* counter has been cleared; after ten o'clock the day's row is entered,   *)
(* once.                                                                   *)
Answered(m, got, sane, late) ==
  /\ mem' = [mem EXCEPT ![m] = [qerrors |-> 0, akt |-> 1]]
  /\ IF sane
       THEN /\ day' = IF late /\ day[m] = None
                        THEN [day EXCEPT ![m] = Origin(m, got)] ELSE day
            /\ row' = Update(Bits[m], 1)
            /\ missed' = [missed EXCEPT ![m] = 0]
            /\ Polled(0)
       ELSE /\ missed' = [missed EXCEPT ![m] = Few(@ + 1)]
            /\ Polled(1)
            /\ UNCHANGED <<row, day>>

(* DeviceBIT::ReadDataCurrent: flush, send, read, up to two times.         *)
Attempt ==
  /\ pc = "module"
  /\ \E e \in Replies(Frame(Request(i).module), i \in dead) :
       /\ flying' = e.flying
       /\ upsets' = e.upsets
       /\ \/ /\ e.got = <<>> /\ attempt = 1
             /\ attempt' = 2
             /\ UNCHANGED <<pc, r, i, errs, book>>
          \/ e.got = <<>> /\ attempt = 2 /\ ReceiveProblem(i)
          \/ e.got # <<>> /\ attempt = 2 /\ SendProblem(i)
          \/ e.got = <<Short>> /\ attempt = 1 /\ ReceiveProblem(i)
          \/ /\ e.got \notin {<<>>, <<Short>>} /\ attempt = 1
             /\ \E sane, late \in BOOLEAN : Answered(i, e.got, sane, late)
  /\ UNCHANGED <<switches, dead>>

(* Mutant: compared with the concentrator's own modules.                   *)
BookOwn ==
  /\ pc = "book"
  /\ row' = Update(Lks[r],
       IF errs # Cardinality(Behind(r)) THEN 1 ELSE 0)
  /\ r' = r + 1
  /\ pc' = IF r = Len(DevLk) THEN "sleep" ELSE "greet"
  /\ UNCHANGED <<i, attempt, errs, mem, day, missed, line, switches, dead>>

(* The concentrator's row: up, unless as many polls failed as there are    *)
(* modules in the whole table, the other concentrators' included.          *)
Book ==
  /\ pc = "book"
  /\ row' = Update(Lks[r], IF errs # Len(DevBit) THEN 1 ELSE 0)
  /\ r' = r + 1
  /\ pc' = IF r = Len(DevLk) THEN "sleep" ELSE "greet"
  /\ UNCHANGED <<i, attempt, errs, mem, day, missed, line, switches, dead>>

(* set_can_speed, before a pass: what has come by then is read away.       *)
CanSpeed == {<<>>, flying}

(* The thread's loop.                                                      *)
Sleep ==
  /\ pc = "sleep"
  /\ r' = 1
  /\ IF WorkRegim THEN pc' = "greet" /\ flying' \in CanSpeed
                  ELSE pc' = "end" /\ UNCHANGED flying
  /\ UNCHANGED <<i, attempt, errs, book, upsets, switches, dead>>

Thread == Greet \/ Attempt \/ Book \/ Sleep

-----------------------------------------------------------------------------
(* The world: the switches of the kernel, modules that fail, midnight.     *)
Switch == pth_lk' = ~pth_lk /\ UNCHANGED <<pc, r, i, attempt, errs, book, line, WorkRegim, dead>>

Finish ==
  /\ WorkRegim /\ WorkRegim' = FALSE
  /\ UNCHANGED <<pc, r, i, attempt, errs, book, line, pth_lk, dead>>

Die ==
  /\ \E m \in Mortal \ dead : dead' = dead \cup {m}
  /\ UNCHANGED <<pc, r, i, attempt, errs, book, line, switches>>

Midnight ==
  /\ day' = [m \in Modules |-> None]
  /\ day # day'
  /\ UNCHANGED <<pc, r, i, attempt, errs, mem, row, missed, line, switches, dead>>

Ended == pc = "end" /\ UNCHANGED vars

Next == Thread \/ Switch \/ Finish \/ Die \/ Midnight \/ Ended

Spec == Init /\ [][Next]_vars /\ WF_vars(Thread)

-----------------------------------------------------------------------------
(* A module's row says "not connected" only when more polls in a row than  *)
(* are tolerated stored nothing, however the attempts went (lk.cpp:277).   *)
DownIsEarned ==
  \A m \in Modules : row[Bits[m]] = 0 => missed[m] > Alarm

(* A concentrator's row can only say "not connected" when all the modules  *)
(* there are hang on it: with a second concentrator in use the test of     *)
(* lk.cpp:646 never finds one gone, however dead it is.                    *)
ConcentratorStaysUp ==
  \A l \in 1 .. Len(DevLk) :
    row[Lks[l]] = 0 => Modules \subseteq Behind(l)

(* As long as no answer has come late or garbled, what is stored for a     *)
(* module is its own, though nothing in an answer is compared with the     *)
(* request (lk.cpp:826).                                                   *)
OwnValues ==
  upsets = 0 => \A m \in Modules : day[m] # "alien"

(* What the tables say of a module, it has earned by its answers.          *)
RowsAreEarned == DownIsEarned /\ OwnValues

(* The UPDATEs with exchanged arguments (lk.cpp:154, lk.cpp:601) reach no  *)
(* row but those numbered 0 and 1: the poll of a device never changes what *)
(* the table says of another device of the bus.                            *)
OnlyOwnRows ==
  [][\A d \in Idds \ {0, 1} : row'[d] # row[d] =>
       \/ pc = "module" /\ d = Bits[i]
       \/ pc = "book" /\ d = Lks[r]]_vars

(* While the driver runs, a module that has died is at last shown as not   *)
(* connected: the failures the row is not told of (the second attempts)    *)
(* cannot go on for ever.                                                  *)
DeadIsShown ==
  <>[](WorkRegim /\ pth_lk) =>
    \A m \in Modules : m \in dead ~> row[Bits[m]] = 0

=============================================================================
