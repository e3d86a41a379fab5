------------------------------- MODULE LkProofs -------------------------------
(***************************************************************************)
(* Proofs about Lk, for any table of concentrators and modules, any        *)
(* protocol and any faults: every variable keeps its range, the row of a   *)
(* concentrator can only be down when no module of the table is behind     *)
(* another, a poll changes no other device's row, a module that is shown   *)
(* as not connected has missed its polls, and without an upset a value is  *)
(* its module's own.                                                       *)
(***************************************************************************)
EXTENDS Lk, SequenceTheorems, WellFoundedInduction, TLAPS

Frames == {Frame(m) : m \in Modules} \cup {Test}
Outcomes == {"own", "alien"}

(* What TypeOK says, and where the module in hand is.                      *)
Here ==
  /\ TypeOK
  /\ pc = "module" => i \in Behind(r)
  /\ pc \in {"greet", "book"} => r <= Len(DevLk)

-----------------------------------------------------------------------------
(* The tables: positions, numbers, and which rows differ.                  *)
LEMMA Tables ==
  /\ Len(DevLk) \in Nat \ {0} /\ Len(DevBit) \in Nat
  /\ Modules = 1 .. Len(DevBit)
  /\ \A l \in 1 .. Len(DevLk) : Lks[l] \in Nat \ {0, 1} /\ Lks[l] \in Idds
  /\ \A m \in Modules : Bits[m] \in Nat \ {0, 1} /\ Bits[m] \in Idds
  /\ \A l, k \in 1 .. Len(DevLk) : Lks[l] = Lks[k] => l = k
  /\ \A l \in 1 .. Len(DevLk), m \in Modules : Lks[l] # Bits[m]
<1>1. /\ Len(DevLk) \in Nat \ {0} /\ Len(DevBit) \in Nat
      /\ \A l \in 1 .. Len(DevLk) : DevLk[l].idd \in Nat \ {0, 1}
      /\ \A m \in 1 .. Len(DevBit) : DevBit[m].idd \in Nat \ {0, 1}
  <2>1. /\ DevLk \in Seq([idd : Nat \ {0, 1}, adr : Nat]) /\ Len(DevLk) > 0
        /\ DevBit \in Seq([idd : Nat \ {0, 1}, ids_lk : Nat])
    BY LkAssumption
  <2>2. \A l \in 1 .. Len(DevLk) : DevLk[l] \in [idd : Nat \ {0, 1}, adr : Nat]
    BY <2>1, ElementOfSeq
  <2>3. \A m \in 1 .. Len(DevBit) : DevBit[m] \in [idd : Nat \ {0, 1}, ids_lk : Nat]
    BY <2>1, ElementOfSeq
  <2>4. Len(DevLk) \in Nat \ {0} /\ Len(DevBit) \in Nat
    BY <2>1
  <2> QED BY <2>2, <2>3, <2>4
<1>2. \A l \in 1 .. Len(DevLk) : Lks[l] = DevLk[l].idd
  BY DEF Lks
<1>3. \A m \in 1 .. Len(DevBit) : Bits[m] = DevBit[m].idd
  BY DEF Bits
<1>4. /\ \A l \in 1 .. Len(DevLk) : Lks[l] \in Nat \ {0, 1}
      /\ \A m \in 1 .. Len(DevBit) : Bits[m] \in Nat \ {0, 1}
  BY <1>1, <1>2, <1>3
<1>5. /\ \A l \in 1 .. Len(DevLk) : Lks[l] \in Idds
      /\ \A m \in 1 .. Len(DevBit) : Bits[m] \in Idds
  BY DEF Modules, Idds, Concentrators
<1>6. /\ \A l, k \in 1 .. Len(DevLk) : Lks[l] = Lks[k] => l = k
      /\ \A l \in 1 .. Len(DevLk), m \in 1 .. Len(DevBit) : Lks[l] # Bits[m]
  BY <1>2, <1>3, LkAssumption
<1> QED BY <1>1, <1>4, <1>5, <1>6 DEF Modules

(* A nonempty set of numbers has a least one.                              *)
LEMMA LeastOf ==
  ASSUME NEW T \in SUBSET Nat, T # {}
  PROVE \E m \in T : \A k \in T : m <= k
<1> DEFINE R == OpToRel(<, Nat)
<1>1. \E m \in T : \A y \in T : ~ (<<y, m>> \in R)
  <2>1. IsWellFoundedOn(R, Nat)
    BY NatLessThanWellFounded
  <2> HIDE DEF R
  <2> QED BY <2>1, WFMin
<1>2. PICK m \in T : \A y \in T : ~ (<<y, m>> \in R)
  BY <1>1
<1>3. \A k \in T : ~ (k < m)
  BY <1>2 DEF OpToRel
<1> QED BY <1>3

(* The next module is not before n, and is behind the concentrator.        *)
LEMMA NextOne ==
  ASSUME NEW n \in 1 .. Len(DevBit) + 1
  PROVE /\ NextModule(n) \in n .. Len(DevBit) + 1
        /\ NextModule(n) \in Modules => NextModule(n) \in Behind(r)
<1> DEFINE more == {m \in Modules : m >= n /\ m \in Behind(r)}
<1>1. CASE more = {}
  BY <1>1, Tables DEF NextModule, Modules
<1>2. CASE more # {}
  <2>1. more \in SUBSET Nat
    BY Tables
  <2>2. \E m \in more : \A k \in more : m <= k
    BY <1>2, <2>1, LeastOf
  <2>3. NextModule(n) \in more
    BY <1>2, <2>2 DEF NextModule
  <2> QED BY <2>3, Tables
<1> QED BY <1>1, <1>2

(* What an exchange may bring keeps the ranges of the line.                *)
LEMMA Exchanged ==
  ASSUME Here, NEW answer \in Frames, NEW gone \in BOOLEAN,
         NEW e \in Replies(answer, gone)
  PROVE /\ e.flying \in Seq(Frames) /\ Len(e.flying) <= 1
        /\ e.upsets \in 0 .. MaxUpsets
<1>1. <<answer>> \in Seq(Frames) /\ Len(<<answer>>) = 1 /\ Len(<<>>) = 0 /\ <<>> \in Seq(Frames)
  OBVIOUS
<1>2. e.flying \in {<<>>, <<answer>>}
  BY DEF Replies, Exchange, Fate, AfterStatus
<1>3. e.upsets \in {upsets, upsets + 1} /\ e.upsets <= MaxUpsets
  BY DEF Replies
<1>4. upsets \in 0 .. MaxUpsets /\ MaxUpsets \in Nat
  BY LkAssumption DEF Here, TypeOK
<1>5. e.flying \in Seq(Frames) /\ Len(e.flying) <= 1
  <2>1. CASE e.flying = <<>>
    BY <1>1, <2>1
  <2>2. CASE e.flying = <<answer>>
    BY <1>1, <2>2
  <2> QED BY <1>2, <2>1, <2>2
<1>6. e.upsets \in 0 .. MaxUpsets
  BY <1>3, <1>4
<1> QED BY <1>5, <1>6

(* The loop over the modules goes to the next one or to the end.           *)
LEMMA Goes ==
  ASSUME Here, pc \in {"greet", "module"}, NEW n \in 1 .. Len(DevBit) + 1, ToModule(n), r' = r
  PROVE /\ i' \in n .. Len(DevBit) + 1 /\ attempt' = 1 /\ r <= Len(DevLk)
        /\ pc' \in {"module", "book"}
        /\ pc' = "module" => i' \in Behind(r)
        /\ pc' = "book" => i' = Len(DevBit) + 1
<1>1. r <= Len(DevLk)
  BY DEF Here, TypeOK
<1>2. NextModule(n) \notin Modules => NextModule(n) = Len(DevBit) + 1
  BY NextOne, Tables
<1> QED BY <1>1, <1>2, NextOne, Tables DEF ToModule

(* The end of a module's poll, however it went.                            *)
LEMMA PolledOn ==
  ASSUME Here, pc = "module", NEW failed \in 0 .. 1, Polled(failed)
  PROVE /\ pc' \in {"greet", "module", "book", "sleep"}
        /\ i' \in 1 .. Len(DevBit) + 1 /\ attempt' \in 1 .. 2
        /\ r' \in 1 .. Len(DevLk) + 1
        /\ pc' = "module" => i' \in Behind(r') /\ r' = r /\ i' > i
        /\ pc' = "book" => r' = r
        /\ pc' # "sleep" => r' <= Len(DevLk)
        /\ errs' = errs + failed
<1>1. i \in Modules /\ i + 1 \in 1 .. Len(DevBit) + 1 /\ r \in 1 .. Len(DevLk)
  BY Tables DEF Here, TypeOK, Behind
<1>2. CASE WorkRegim /\ pth_lk
  <2>1. ToModule(i + 1) /\ r' = r /\ errs' = errs + failed
    BY <1>2 DEF Polled
  <2> QED BY <1>1, <2>1, Goes, Tables
<1>3. CASE ~(WorkRegim /\ pth_lk)
  BY <1>1, <1>3, Tables DEF Polled
<1> QED BY <1>2, <1>3

(* How many polls have failed in this pass of a concentrator: fewer than   *)
(* there are modules before the one in hand, and fewer again when one of   *)
(* them is another's.                                                      *)
Counted ==
  /\ pc = "module" =>
       /\ errs + 1 <= i
       /\ (\E m \in Modules : m < i /\ m \notin Behind(r)) => errs + 1 < i
  /\ pc = "book" /\ (\E m \in Modules : m \notin Behind(r))
       => errs < Len(DevBit)

IInv == Here /\ Counted /\ ConcentratorStaysUp

LEMMA CountedOn ==
  ASSUME Here, Counted, pc = "module", NEW failed \in 0 .. 1, Polled(failed)
  PROVE Counted' /\ errs' \in 0 .. Len(DevBit)
<1>1. /\ i \in Modules /\ i \in 1 .. Len(DevBit) /\ Len(DevBit) \in Nat
      /\ errs \in Nat /\ errs' = errs + failed /\ i \in Behind(r)
      /\ errs' \in Nat /\ errs' <= errs + 1
  <2>1. i \in Behind(r) /\ i \in Modules
    BY DEF Here, Behind
  <2>2. errs \in Nat
    BY Tables DEF Here, TypeOK
  <2>3. errs' = errs + failed /\ failed \in {0, 1}
    BY PolledOn
  <2> QED BY <2>1, <2>2, <2>3, Tables
<1>2. errs + 1 <= i
  BY DEF Counted
<1>3. CASE pc' = "module"
  <2>1. i' \in Nat /\ i' >= i + 1 /\ i' <= Len(DevBit) + 1 /\ r' = r
    BY <1>1, <1>3, PolledOn
  <2>2. ASSUME NEW m \in Modules, m < i', m \notin Behind(r)
        PROVE errs' + 1 < i'
    <3>1. m \in 1 .. Len(DevBit) /\ m # i
      BY <1>1, <2>2, Tables
    <3>2. CASE m < i
      BY <1>1, <2>1, <2>2, <3>2 DEF Counted
    <3>3. CASE m > i
      BY <1>1, <1>2, <2>1, <2>2, <3>1, <3>3
    <3> QED BY <1>1, <3>1, <3>2, <3>3
  <2>3. errs' + 1 <= i'
    BY <1>1, <1>2, <2>1
  <2>4. Modules' = Modules /\ Behind(r)' = Behind(r)
    BY <2>1 DEF Modules, Behind
  <2> QED BY <1>1, <1>2, <1>3, <2>1, <2>2, <2>3, <2>4 DEF Counted
<1>4. CASE pc' = "book"
  <2>1. r' = r
    BY <1>4, PolledOn
  <2>2. ASSUME NEW m \in Modules, m \notin Behind(r)
        PROVE errs' < Len(DevBit)
    <3>1. m \in 1 .. Len(DevBit) /\ m # i
      BY <1>1, <2>2, Tables
    <3>2. CASE m < i
      BY <1>1, <2>2, <3>1, <3>2 DEF Counted
    <3>3. CASE m > i
      BY <1>1, <1>2, <3>1, <3>3
    <3> QED BY <1>1, <3>1, <3>2, <3>3
  <2>3. Modules' = Modules /\ Behind(r)' = Behind(r)
    BY <2>1 DEF Modules, Behind
  <2> QED BY <1>1, <1>2, <1>4, <2>2, <2>3 DEF Counted
<1>5. CASE pc' \notin {"module", "book"}
  BY <1>1, <1>2, <1>5 DEF Counted
<1> QED BY <1>3, <1>4, <1>5

(* The book-keeping of a module keeps its range.                           *)
LEMMA Booked ==
  ASSUME Here, NEW m \in Modules, NEW akt \in BOOLEAN, Fails(m, akt)
  PROVE /\ mem' \in [Modules -> [qerrors : 0 .. Alarm + 1, akt : 0 .. 1]]
        /\ missed' \in [Modules -> 0 .. Alarm + 1]
        /\ day' = day
        /\ mem'[m].akt \in {0, 1}
<1>1. /\ mem \in [Modules -> [qerrors : 0 .. Alarm + 1, akt : 0 .. 1]]
      /\ missed \in [Modules -> 0 .. Alarm + 1]
      /\ Alarm \in Nat \ {0}
  BY LkAssumption DEF Here, TypeOK
<1>2. \A n \in 0 .. Alarm + 1 : Few(n + 1) \in 0 .. Alarm + 1
  BY <1>1, LkAssumption DEF Few
<1>3. Few(mem[m].qerrors + 1) \in 0 .. Alarm + 1 /\ Few(missed[m] + 1) \in 0 .. Alarm + 1
  BY <1>1, <1>2
<1>4. mem' \in [Modules -> [qerrors : 0 .. Alarm + 1, akt : 0 .. 1]]
  BY <1>1, <1>3 DEF Fails
<1>5. missed' \in [Modules -> 0 .. Alarm + 1]
  BY <1>1, <1>3 DEF Fails
<1>6. mem'[m].akt \in {0, 1}
  BY <1>4
<1> QED BY <1>4, <1>5, <1>6 DEF Fails

(* An UPDATE keeps the range of the rows and changes one row.              *)
LEMMA Updated ==
  ASSUME Here, NEW d, NEW c \in {0, 1} \cup Concentrators, row' = Update(d, c)
  PROVE /\ row' \in [Idds -> {0, 1} \cup Concentrators]
        /\ \A x \in Idds : row'[x] = IF x = d THEN c ELSE row[x]
BY DEF Here, TypeOK, Update

(* A poll of the module in hand changes no row of a concentrator.          *)
LEMMA Attempted ==
  ASSUME Here, Attempt
  PROVE /\ mem' \in [Modules -> [qerrors : 0 .. Alarm + 1, akt : 0 .. 1]]
        /\ missed' \in [Modules -> 0 .. Alarm + 1]
        /\ day' \in [Modules -> {None} \cup Outcomes]
        /\ row' \in [Idds -> {0, 1} \cup Concentrators]
        /\ \A x \in Idds \ {0, 1} : row'[x] # row[x] => x = Bits[i]
        /\ \/ /\ attempt' = 2
              /\ UNCHANGED <<pc, r, i, errs, book>>
           \/ \E failed \in 0 .. 1 : Polled(failed)
        /\ flying' \in Seq(Frames) /\ Len(flying') <= 1
        /\ upsets' \in 0 .. MaxUpsets
        /\ UNCHANGED <<switches, dead>>
        /\ i \in Modules
<1>1. /\ i \in Modules
      /\ mem \in [Modules -> [qerrors : 0 .. Alarm + 1, akt : 0 .. 1]]
      /\ missed \in [Modules -> 0 .. Alarm + 1] /\ Alarm \in Nat
      /\ day \in [Modules -> {None} \cup Outcomes]
      /\ row \in [Idds -> {0, 1} \cup Concentrators]
  BY LkAssumption DEF Here, TypeOK, Attempt, Behind, Outcomes
<1>2. PICK e \in Replies(Frame(i), i \in dead) :
        /\ flying' = e.flying
        /\ upsets' = e.upsets
        /\ \/ /\ e.got = <<>> /\ attempt = 1
              /\ attempt' = 2
              /\ UNCHANGED <<pc, r, i, errs, book>>
           \/ ReceiveProblem(i)
           \/ SendProblem(i)
           \/ \E sane, late \in BOOLEAN : Answered(i, e.got, sane, late)
  <2>1. 1 \in Nat /\ Request(i).module = i
    BY LkAssumption DEF Request, BusRequest, FramedRequest, CanRequest
  <2> QED BY <2>1 DEF Attempt
<1>3. /\ flying' \in Seq(Frames) /\ Len(flying') <= 1
      /\ upsets' \in 0 .. MaxUpsets
  <2>1. Frame(i) \in Frames /\ (i \in dead) \in BOOLEAN
    BY <1>1 DEF Frames
  <2> QED BY <1>2, <2>1, Exchanged
<1>4. UNCHANGED <<switches, dead>>
  BY DEF Attempt
<1>5. CASE attempt' = 2 /\ UNCHANGED <<pc, r, i, errs, book>>
  BY <1>1, <1>3, <1>4, <1>5 DEF book
<1>6. CASE ReceiveProblem(i)
  <2>1. Fails(i, FALSE) /\ Polled(1) /\ (row' = row \/ row' = Update(Bits[i], 0))
    BY <1>6 DEF ReceiveProblem
  <2>2. /\ row' \in [Idds -> {0, 1} \cup Concentrators]
        /\ \A x \in Idds \ {0, 1} : row'[x] # row[x] => x = Bits[i]
    BY <1>1, <2>1, Updated
  <2>3. /\ mem' \in [Modules -> [qerrors : 0 .. Alarm + 1, akt : 0 .. 1]]
        /\ missed' \in [Modules -> 0 .. Alarm + 1] /\ day' = day
    BY <1>1, <2>1, Booked
  <2>4. \E failed \in 0 .. 1 : Polled(failed)
    BY <2>1
  <2> QED BY <1>1, <1>3, <1>4, <2>2, <2>3, <2>4
<1>7. CASE SendProblem(i)
  <2>1. Fails(i, TRUE) /\ Polled(1) /\ row' = Update(mem'[i].akt, 0)
    BY <1>7 DEF SendProblem
  <2>2. mem'[i].akt \in {0, 1}
    BY <1>1, <2>1, Booked
  <2>3. /\ row' \in [Idds -> {0, 1} \cup Concentrators]
        /\ \A x \in Idds \ {0, 1} : row'[x] # row[x] => x = Bits[i]
    BY <2>1, <2>2, Updated
  <2>4. /\ mem' \in [Modules -> [qerrors : 0 .. Alarm + 1, akt : 0 .. 1]]
        /\ missed' \in [Modules -> 0 .. Alarm + 1] /\ day' = day
    BY <1>1, <2>1, Booked
  <2>5. \E failed \in 0 .. 1 : Polled(failed)
    BY <2>1
  <2> QED BY <1>1, <1>3, <1>4, <2>3, <2>4, <2>5
<1>8. ASSUME NEW sane \in BOOLEAN, NEW late \in BOOLEAN, Answered(i, e.got, sane, late)
      PROVE /\ mem' \in [Modules -> [qerrors : 0 .. Alarm + 1, akt : 0 .. 1]]
            /\ missed' \in [Modules -> 0 .. Alarm + 1]
            /\ day' \in [Modules -> {None} \cup Outcomes]
            /\ row' \in [Idds -> {0, 1} \cup Concentrators]
            /\ \A x \in Idds \ {0, 1} : row'[x] # row[x] => x = Bits[i]
            /\ \E failed \in 0 .. 1 : Polled(failed)
  <2>1. mem' \in [Modules -> [qerrors : 0 .. Alarm + 1, akt : 0 .. 1]]
    BY <1>1, <1>8 DEF Answered
  <2>2. Few(missed[i] + 1) \in 0 .. Alarm + 1
    BY <1>1 DEF Few
  <2>3. missed' \in [Modules -> 0 .. Alarm + 1]
    BY <1>1, <1>8, <2>2 DEF Answered
  <2>4. day' \in [Modules -> {None} \cup Outcomes]
    BY <1>1, <1>8 DEF Answered, Origin, Outcomes
  <2>5. row' = row \/ row' = Update(Bits[i], 1)
    BY <1>8 DEF Answered
  <2>6. /\ row' \in [Idds -> {0, 1} \cup Concentrators]
        /\ \A x \in Idds \ {0, 1} : row'[x] # row[x] => x = Bits[i]
    BY <1>1, <2>5, Updated
  <2>7. Polled(0) \/ Polled(1)
    BY <1>8 DEF Answered
  <2> QED BY <2>1, <2>3, <2>4, <2>6, <2>7
<1> QED BY <1>1, <1>2, <1>3, <1>4, <1>5, <1>6, <1>7, <1>8

LEMMA Starts == Init => IInv
<1> SUFFICES ASSUME Init PROVE IInv
  OBVIOUS
<1>1. Here
  <2>1. flying \in Seq(Frames) /\ Len(flying) <= 1
    BY DEF Init, Opened
  <2> QED BY <2>1, LkAssumption, Tables DEF Init, Here, TypeOK, Frames
<1>2. Counted
  BY DEF Init, Counted
<1>3. ConcentratorStaysUp
  BY Tables DEF Init, ConcentratorStaysUp
<1> QED BY <1>1, <1>2, <1>3 DEF IInv

(* Nothing but the counts and the row of a concentrator hangs on Book.     *)
LEMMA BookSteps ==
  ASSUME IInv, Book
  PROVE IInv'
<1>1. /\ r \in 1 .. Len(DevLk) /\ Lks[r] \in Idds
      /\ row' = Update(Lks[r], IF errs # Len(DevBit) THEN 1 ELSE 0)
  BY Tables DEF IInv, Here, TypeOK, Book
<1>2. /\ row' \in [Idds -> {0, 1} \cup Concentrators]
      /\ \A x \in Idds : row'[x] = IF x = Lks[r] THEN IF errs # Len(DevBit) THEN 1 ELSE 0
                                    ELSE row[x]
  BY <1>1, Updated DEF IInv
<1>3. Here'
  BY <1>1, <1>2, Tables DEF IInv, Here, TypeOK, Book, line, switches
<1>4. Counted'
  BY DEF Book, Counted
<1>5. ConcentratorStaysUp'
  <2> SUFFICES ASSUME NEW l \in 1 .. Len(DevLk), row'[Lks[l]] = 0
               PROVE Modules \subseteq Behind(l)
    BY DEF ConcentratorStaysUp, Modules, Behind
  <2>1. CASE l = r
    <3>1. errs = Len(DevBit)
      BY <1>1, <1>2, <2>1
    <3>2. ~(\E m \in Modules : m \notin Behind(r))
      BY <3>1, Tables DEF IInv, Counted, Book
    <3> QED BY <2>1, <3>2
  <2>2. CASE l # r
    <3>1. Lks[l] # Lks[r] /\ Lks[l] \in Idds
      BY <1>1, <2>2, Tables
    <3> QED BY <1>2, <3>1 DEF IInv, ConcentratorStaysUp
  <2> QED BY <2>1, <2>2
<1> QED BY <1>3, <1>4, <1>5 DEF IInv

(* Rows of concentrators that stay as they are keep their property.        *)
LEMMA StaysUp ==
  ASSUME IInv, \A l \in 1 .. Len(DevLk) : row'[Lks[l]] = row[Lks[l]]
  PROVE ConcentratorStaysUp'
BY DEF IInv, ConcentratorStaysUp, Modules, Behind

LEMMA GreetSteps ==
  ASSUME IInv, Greet
  PROVE IInv'
<1>1. /\ Here /\ pc = "greet" /\ r \in 1 .. Len(DevLk) /\ Lks[r] \in Concentrators
      /\ errs' = 0 /\ ToModule(1) /\ r' = r
      /\ UNCHANGED <<mem, day, missed, switches, dead>>
  BY Tables DEF IInv, Here, TypeOK, Greet, Concentrators
<1>2. /\ flying' \in Seq(Frames) /\ Len(flying') <= 1
      /\ upsets' \in 0 .. MaxUpsets
      /\ row' = Update(0, Lks[r]) \/ row' = Update(1, Lks[r])
  <2> USE DEF GreetingRead
  <2>1. Test \in Frames
    BY DEF Frames
  <2>2. PICK e \in {[got |-> <<Test>>, flying |-> flying, upsets |-> upsets]}
                   \cup Replies(Test, TRUE) \cup Replies(Test, FALSE) :
          /\ flying' = e.flying /\ upsets' = e.upsets
          /\ row' = Update(GreetingRead(e.got), Lks[r])
    <3>1. CASE Protocol = 1
      BY <3>1 DEF Greet, Greeting
    <3>2. CASE Protocol = 2
      BY <3>2 DEF Greet, Greeting
    <3>3. CASE Protocol = 3
      BY <3>3 DEF Greet, Greeting
    <3>4. Protocol = 1 \/ Protocol = 2 \/ Protocol = 3
      BY LkAssumption
    <3> QED BY <3>1, <3>2, <3>3, <3>4, Zenon
  <2>3. CASE e = [got |-> <<Test>>, flying |-> flying, upsets |-> upsets]
    BY <1>1, <2>2, <2>3 DEF Here, TypeOK, Frames
  <2>4. CASE e \in Replies(Test, TRUE)
    BY <1>1, <2>1, <2>2, <2>4, Exchanged
  <2>5. CASE e \in Replies(Test, FALSE)
    BY <1>1, <2>1, <2>2, <2>5, Exchanged
  <2> QED BY <2>2, <2>3, <2>4, <2>5
<1>3. /\ i' \in 1 .. Len(DevBit) + 1 /\ attempt' = 1 /\ r <= Len(DevLk)
      /\ pc' \in {"module", "book"}
      /\ pc' = "module" => i' \in Behind(r)
      /\ pc' = "book" => i' = Len(DevBit) + 1
  <2>1. 1 \in 1 .. Len(DevBit) + 1
    BY Tables
  <2> QED BY <1>1, <2>1, Goes
<1>4. /\ row' \in [Idds -> {0, 1} \cup Concentrators]
      /\ \A x \in Idds \ {0, 1} : row'[x] = row[x]
  BY <1>1, <1>2, Updated
<1>5. Here'
  BY <1>1, <1>2, <1>3, <1>4, Tables DEF Here, TypeOK, switches, Behind, Modules, Frames
<1>6. Counted'
  <2>1. ASSUME NEW m \in Modules, m < i' PROVE errs' + 1 < i'
    BY <1>1, <1>3, <2>1, Tables
  <2>2. ASSUME NEW m \in Modules PROVE 0 < Len(DevBit)
    BY <2>2, Tables
  <2>3. errs' + 1 <= i'
    BY <1>1, <1>3, Tables
  <2> QED BY <1>1, <2>1, <2>2, <2>3 DEF Counted, Modules, Behind
<1>7. ConcentratorStaysUp'
  BY <1>4, StaysUp, Tables
<1> QED BY <1>5, <1>6, <1>7 DEF IInv

LEMMA AttemptSteps ==
  ASSUME IInv, Attempt
  PROVE IInv'
<1>1. Here /\ Counted /\ pc = "module"
  BY DEF IInv, Attempt
<1>2. CASE attempt' = 2 /\ UNCHANGED <<pc, r, i, errs, book>>
  <2>1. Here'
    BY <1>1, <1>2, Attempted DEF Here, TypeOK, book, Behind, Modules, switches, Frames, Outcomes
  <2>2. Counted' /\ ConcentratorStaysUp'
    BY <1>1, <1>2 DEF Counted, book, Behind, Modules, IInv, ConcentratorStaysUp
  <2> QED BY <2>1, <2>2 DEF IInv
<1>3. CASE \E failed \in 0 .. 1 : Polled(failed)
  <2>1. PICK failed \in 0 .. 1 : Polled(failed)
    BY <1>3
  <2>2. Counted' /\ errs' \in 0 .. Len(DevBit)
    BY <1>1, <2>1, CountedOn
  <2>3. /\ pc' \in {"greet", "module", "book", "sleep"}
        /\ i' \in 1 .. Len(DevBit) + 1 /\ attempt' \in 1 .. 2
        /\ r' \in 1 .. Len(DevLk) + 1
        /\ pc' = "module" => i' \in Behind(r')
        /\ pc' # "sleep" => r' <= Len(DevLk)
    BY <1>1, <2>1, PolledOn
  <2>4. /\ mem' \in [Modules -> [qerrors : 0 .. Alarm + 1, akt : 0 .. 1]]
        /\ missed' \in [Modules -> 0 .. Alarm + 1]
        /\ day' \in [Modules -> {None} \cup Outcomes]
        /\ row' \in [Idds -> {0, 1} \cup Concentrators]
        /\ \A x \in Idds \ {0, 1} : row'[x] # row[x] => x = Bits[i]
        /\ flying' \in Seq(Frames) /\ Len(flying') <= 1
        /\ upsets' \in 0 .. MaxUpsets
        /\ UNCHANGED <<switches, dead>>
        /\ i \in Modules
    BY <1>1, Attempted
  <2>5. Here'
    BY <1>1, <2>2, <2>3, <2>4 DEF Here, TypeOK, Behind, Modules, switches, Frames, Outcomes
  <2>6. ConcentratorStaysUp'
    BY <2>4, StaysUp, Tables
  <2> QED BY <2>2, <2>5, <2>6 DEF IInv
<1> QED BY <1>1, <1>2, <1>3, Attempted

LEMMA Steps == IInv /\ [Next]_vars => IInv'
<1> SUFFICES ASSUME IInv, [Next]_vars PROVE IInv'
  OBVIOUS
<1> USE DEF IInv, Here, TypeOK, Counted, ConcentratorStaysUp, Behind, Modules,
            book, line, switches
<1>1. CASE Greet
  BY <1>1, GreetSteps
<1>2. CASE Attempt
  BY <1>2, AttemptSteps
<1>3. CASE Book
  BY <1>3, BookSteps
<1>4. CASE Sleep
  <2>1. flying' \in Seq(Frames) /\ Len(flying') <= 1
    <3>1. CASE flying' = <<>>
      BY <3>1
    <3>2. CASE flying' = flying
      BY <3>2 DEF Frames
    <3> QED BY <1>4, <3>1, <3>2 DEF Sleep, CanSpeed
  <2>2. /\ pc' \in {"greet", "end"} /\ r' = 1
        /\ UNCHANGED <<i, attempt, errs, book, upsets, switches, dead>>
    BY <1>4 DEF Sleep
  <2> QED BY <2>1, <2>2, Tables DEF Frames
<1>5. CASE Switch
  BY <1>5 DEF Switch
<1>6. CASE Finish
  BY <1>6 DEF Finish
<1>7. CASE Die
  BY <1>7 DEF Die
<1>8. CASE Midnight
  BY <1>8 DEF Midnight
<1>9. CASE UNCHANGED vars
  BY <1>9 DEF vars
<1> QED
  BY <1>1, <1>2, <1>3, <1>4, <1>5, <1>6, <1>7, <1>8, <1>9 DEF Next, Thread, Ended

-----------------------------------------------------------------------------
(* Every variable keeps its range.                                         *)
THEOREM LkType == Spec => []TypeOK
<1>1. IInv => TypeOK
  BY DEF IInv, Here
<1> QED BY <1>1, Starts, Steps, PTL DEF Spec

(* A concentrator's row is never down while a module of the table is       *)
(* behind another one (lk.cpp:646 compares with the whole table).          *)
THEOREM LkConcentrator == Spec => []ConcentratorStaysUp
<1>1. IInv => ConcentratorStaysUp
  BY DEF IInv
<1> QED BY <1>1, Starts, Steps, PTL DEF Spec

(* A poll changes the row of no other device: the UPDATEs with exchanged   *)
(* arguments (lk.cpp:154, lk.cpp:601) reach rows 0 and 1 only.             *)
THEOREM LkOwnRows == Spec => OnlyOwnRows
<1> DEFINE Own == \A d \in Idds \ {0, 1} : row'[d] # row[d] =>
                    \/ pc = "module" /\ d = Bits[i]
                    \/ pc = "book" /\ d = Lks[r]
<1>1. IInv /\ [Next]_vars => [Own]_vars
  <2> SUFFICES ASSUME IInv, Next PROVE Own
    OBVIOUS
  <2>1. CASE Greet
    <3>1. Here /\ Lks[r] \in Concentrators
      BY <2>1, Tables DEF IInv, Here, TypeOK, Greet, Concentrators
    <3>2. row' = Update(0, Lks[r]) \/ row' = Update(1, Lks[r])
      BY <2>1 DEF Greet, GreetingRead
    <3> QED BY <3>1, <3>2, Updated
  <2>2. CASE Attempt
    BY <2>2, Attempted DEF IInv, Attempt
  <2>3. CASE Book
    <3>1. row' = Update(Lks[r], IF errs # Len(DevBit) THEN 1 ELSE 0) /\ pc = "book"
      BY <2>3 DEF Book
    <3> QED BY <3>1, Updated DEF IInv
  <2>4. CASE row' = row
    BY <2>4
  <2> QED
    BY <2>1, <2>2, <2>3, <2>4 DEF Next, Thread, Sleep, Switch, Finish, Die, Midnight,
       Ended, vars, book
<1> QED BY <1>1, Starts, Steps, PTL DEF Spec, OnlyOwnRows

-----------------------------------------------------------------------------
(* A failure counted by the driver is a poll missed; with the row it makes *)
(* DownIsEarned inductive.                                                 *)
Missed ==
  /\ \A m \in Modules : mem[m].qerrors <= missed[m]
  /\ DownIsEarned

(* Before the first upset nothing is under way, and all values are own.    *)
Quiet ==
  /\ upsets = 0 => flying = <<>>
  /\ OwnValues

(* A failure is counted on both sides.                                     *)
LEMMA FailsCount ==
  ASSUME Here, Missed, NEW m \in Modules, NEW akt \in BOOLEAN, Fails(m, akt)
  PROVE  /\ \A k \in Modules : mem'[k].qerrors <= missed'[k]
         /\ \A k \in Modules : missed[k] > Alarm => missed'[k] > Alarm
         /\ mem'[m].akt \in {0, 1}
<1>1. /\ mem \in [Modules -> [qerrors : 0 .. Alarm + 1, akt : 0 .. 1]]
      /\ missed \in [Modules -> 0 .. Alarm + 1]
      /\ Alarm \in Nat \ {0}
  BY LkAssumption DEF Here, TypeOK
<1>2. \A k \in Modules : missed'[k] = IF k = m THEN Few(missed[m] + 1) ELSE missed[k]
  BY <1>1 DEF Fails
<1>3. \A k \in Modules : mem'[k].qerrors = IF k = m THEN Few(mem[m].qerrors + 1)
                                                      ELSE mem[k].qerrors
  BY <1>1 DEF Fails
<1>4. mem[m].qerrors \in 0 .. Alarm + 1 /\ missed[m] \in 0 .. Alarm + 1
  BY <1>1
<1>5. Few(mem[m].qerrors + 1) <= Few(missed[m] + 1) /\ Few(missed[m] + 1) >= missed[m]
  BY <1>1, <1>4 DEF Few, Missed
<1>6. \A k \in Modules : mem[k].qerrors <= missed[k]
  BY DEF Missed
<1>7. \A k \in Modules : mem'[k].qerrors <= missed'[k]
  BY <1>2, <1>3, <1>5, <1>6
<1>8. ASSUME NEW k \in Modules, missed[k] > Alarm PROVE missed'[k] > Alarm
  <2>1. CASE k # m
    BY <1>2, <1>8, <2>1
  <2>2. CASE k = m
    <3>1. Few(missed[m] + 1) \in Int /\ missed[m] \in Int /\ Alarm \in Int
      BY <1>1, <1>4 DEF Few
    <3> QED BY <1>2, <1>5, <1>8, <2>2, <3>1
  <2> QED BY <2>1, <2>2
<1>9. mem'[m].akt \in {0, 1}
  BY Booked
<1> QED BY <1>7, <1>8, <1>9

LEMMA AttemptMissed ==
  ASSUME Here, Missed, Attempt
  PROVE  Missed'
<1>1. /\ i \in Modules /\ Alarm \in Nat
      /\ mem \in [Modules -> [qerrors : 0 .. Alarm + 1, akt : 0 .. 1]]
      /\ missed \in [Modules -> 0 .. Alarm + 1]
      /\ \A k \in Modules : Bits[k] \in Idds \ {0, 1}
      /\ Modules' = Modules
  BY LkAssumption, Tables DEF Here, TypeOK, Attempt, Behind, Modules
<1>2. PICK e \in Replies(Frame(Request(i).module), i \in dead) :
        \/ UNCHANGED book
        \/ ReceiveProblem(i)
        \/ SendProblem(i)
        \/ \E sane, late \in BOOLEAN : Answered(i, e.got, sane, late)
  BY DEF Attempt
<1> DEFINE Down == \A k \in Modules : row'[Bits[k]] = 0 => missed'[k] > Alarm
<1>3. CASE UNCHANGED book
  BY <1>1, <1>3 DEF book, Missed, DownIsEarned
<1>4. CASE ReceiveProblem(i)
  <2>1. /\ \A k \in Modules : mem'[k].qerrors <= missed'[k]
        /\ \A k \in Modules : missed[k] > Alarm => missed'[k] > Alarm
    BY <1>1, <1>4, FailsCount DEF ReceiveProblem
  <2>2. /\ mem' \in [Modules -> [qerrors : 0 .. Alarm + 1, akt : 0 .. 1]]
        /\ missed' \in [Modules -> 0 .. Alarm + 1]
    BY <1>1, <1>4, Booked DEF ReceiveProblem
  <2>3. CASE row' = row
    BY <1>1, <2>1, <2>3 DEF Missed, DownIsEarned
  <2>4. CASE row' = Update(Bits[i], 0) /\ mem'[i].qerrors > Alarm
    <3>1. \A x \in Idds : row'[x] = IF x = Bits[i] THEN 0 ELSE row[x]
      BY <2>4, Updated
    <3>2. mem'[i].qerrors \in Int /\ missed'[i] \in Int /\ mem'[i].qerrors <= missed'[i]
      BY <1>1, <2>1, <2>2
    <3>3. missed'[i] > Alarm
      BY <1>1, <2>4, <3>2
    <3>4. \A k \in Modules : Bits[k] = Bits[i] => k = i
      BY <1>1, LkAssumption DEF Bits, Modules
    <3>5. Down
      BY <1>1, <2>1, <3>1, <3>3, <3>4 DEF Missed, DownIsEarned
    <3> QED BY <1>1, <2>1, <3>5 DEF Missed, DownIsEarned
  <2> QED BY <1>4, <2>3, <2>4 DEF ReceiveProblem
<1>5. CASE SendProblem(i)
  <2>1. /\ \A k \in Modules : mem'[k].qerrors <= missed'[k]
        /\ \A k \in Modules : missed[k] > Alarm => missed'[k] > Alarm
        /\ mem'[i].akt \in {0, 1}
    BY <1>1, <1>5, FailsCount DEF SendProblem
  <2>2. \A x \in Idds \ {0, 1} : row'[x] = row[x]
    BY <1>5, <2>1, Updated DEF SendProblem
  <2>3. Down
    BY <1>1, <2>1, <2>2 DEF Missed, DownIsEarned
  <2> QED BY <1>1, <2>1, <2>3 DEF Missed, DownIsEarned
<1>6. ASSUME NEW sane \in BOOLEAN, NEW late \in BOOLEAN, Answered(i, e.got, sane, late)
      PROVE  Missed'
  <2>1. \A k \in Modules : mem'[k].qerrors = IF k = i THEN 0 ELSE mem[k].qerrors
    BY <1>1, <1>6 DEF Answered
  <2>2. CASE sane
    <3>1. \A k \in Modules : missed'[k] = IF k = i THEN 0 ELSE missed[k]
      BY <1>1, <1>6, <2>2 DEF Answered
    <3>2. \A x \in Idds : row'[x] = IF x = Bits[i] THEN 1 ELSE row[x]
      BY <1>6, <2>2, Updated DEF Answered
    <3>3. Down
      BY <1>1, <3>1, <3>2 DEF Missed, DownIsEarned
    <3> QED BY <1>1, <2>1, <3>1, <3>3 DEF Missed, DownIsEarned
  <2>3. CASE ~sane
    <3>1. /\ row' = row
          /\ \A k \in Modules : missed'[k] = IF k = i THEN Few(missed[i] + 1) ELSE missed[k]
      BY <1>1, <1>6, <2>3 DEF Answered
    <3>2. Few(missed[i] + 1) >= missed[i] /\ Few(missed[i] + 1) \in 0 .. Alarm + 1
      BY <1>1 DEF Few
    <3>3. Down
      BY <1>1, <3>1, <3>2 DEF Missed, DownIsEarned
    <3> QED BY <1>1, <2>1, <3>1, <3>2, <3>3 DEF Missed, DownIsEarned
  <2> QED BY <2>2, <2>3
<1> QED BY <1>2, <1>3, <1>4, <1>5, <1>6

LEMMA MissedSteps == Here /\ Missed /\ [Next]_vars => Missed'
<1> SUFFICES ASSUME Here, Missed, [Next]_vars PROVE Missed'
  OBVIOUS
<1>1. Modules' = Modules /\ \A k \in Modules : Bits[k] \in Idds \ {0, 1}
  BY Tables DEF Modules
<1>2. CASE UNCHANGED <<mem, missed>> /\ \A k \in Modules : row'[Bits[k]] = row[Bits[k]]
  BY <1>1, <1>2 DEF Missed, DownIsEarned
<1>3. CASE Attempt
  BY <1>3, AttemptMissed
<1>4. CASE Greet
  <2>1. /\ UNCHANGED <<mem, missed>>
        /\ row' = Update(0, Lks[r]) \/ row' = Update(1, Lks[r])
        /\ Lks[r] \in Concentrators
    BY <1>4, Tables DEF Greet, GreetingRead, Here, TypeOK, Concentrators
  <2>2. \A x \in Idds \ {0, 1} : row'[x] = row[x]
    BY <2>1, Updated
  <2> QED BY <1>1, <1>2, <2>1, <2>2
<1>5. CASE Book
  <2>1. /\ UNCHANGED <<mem, missed>>
        /\ row' = Update(Lks[r], IF errs # Len(DevBit) THEN 1 ELSE 0)
        /\ r \in 1 .. Len(DevLk)
    BY <1>5, Tables DEF Book, Here, TypeOK
  <2>2. \A k \in Modules : row'[Bits[k]] = row[Bits[k]]
    BY <1>1, <2>1, Updated, Tables
  <2> QED BY <1>2, <2>1, <2>2
<1>6. CASE UNCHANGED <<mem, missed, row>>
  BY <1>1, <1>6 DEF Missed, DownIsEarned
<1> QED
  BY <1>3, <1>4, <1>5, <1>6 DEF Next, Thread, Sleep, Switch, Finish, Die, Midnight, Ended,
     vars, book

(* Without an upset, what is read is the answer, or a short one, or none.  *)
LEMMA Undisturbed ==
  ASSUME Here, Quiet, NEW answer \in Frames, NEW gone \in BOOLEAN,
         NEW e \in Replies(answer, gone), e.upsets = 0
  PROVE  upsets = 0 /\ e.flying = <<>> /\ e.got \in {<<>>, <<answer>>, <<Short>>}
<1>1. upsets \in Nat /\ e.upsets \in {upsets, upsets + 1}
  BY LkAssumption DEF Here, TypeOK, Replies
<1>2. upsets = 0 /\ flying = <<>>
  BY <1>1 DEF Quiet
<1> DEFINE spent(c) == IF c.flying # <<>> \/ Noise \in {c.got[n] : n \in 1 .. Len(c.got)}
                         THEN upsets + 1 ELSE upsets
           can == IF gone THEN {[got |-> c, flying |-> <<>>] : c \in {<<>>, flying}}
                  ELSE Exchange(flying, answer, Faults)
                         \cup (IF "short" \in Faults
                                 THEN {[got |-> <<Short>>, flying |-> AfterStatus]} ELSE {})
<1>3. PICK c \in can : e = [got |-> c.got, flying |-> c.flying, upsets |-> spent(c)]
  BY DEF Replies
<1>4. c.flying = <<>> /\ Noise \notin {c.got[n] : n \in 1 .. Len(c.got)}
  BY <1>2, <1>3
<1>5. c.got \in {<<>>, <<answer>>, <<Short>>, <<Noise>>}
  <2>1. \A fate \in Fate(answer, Faults) : fate.got \in {<<answer>>, <<>>, <<Noise>>}
    BY DEF Fate
  <2>2. \A got \in {<<answer>>, <<>>, <<Noise>>} : <<>> \o got = got
    OBVIOUS
  <2>3. \A x \in Exchange(flying, answer, Faults) : x.got \in {<<answer>>, <<>>, <<Noise>>}
    BY <1>2, <2>1, <2>2 DEF Exchange
  <2> QED BY <1>2, <2>3
<1>6. c.got # <<Noise>>
  BY <1>4
<1> QED BY <1>2, <1>3, <1>4, <1>5, <1>6

LEMMA QuietSteps == Here /\ Quiet /\ [Next]_vars => Quiet'
<1> SUFFICES ASSUME Here, Quiet, [Next]_vars PROVE Quiet'
  OBVIOUS
<1>1. Modules' = Modules /\ day \in [Modules -> {None, "own", "alien"}]
  BY DEF Modules, Here, TypeOK
<1>2. CASE Greet
  <2>1. Test \in Frames /\ day' = day
    BY <1>2 DEF Frames, Greet
  <2>2. PICK e \in {[got |-> <<Test>>, flying |-> flying, upsets |-> upsets]}
                   \cup Replies(Test, TRUE) \cup Replies(Test, FALSE) :
          flying' = e.flying /\ upsets' = e.upsets
    <3>1. CASE Protocol = 1
      BY <1>2, <3>1 DEF Greet, Greeting
    <3>2. CASE Protocol = 2
      BY <1>2, <3>2 DEF Greet, Greeting
    <3>3. CASE Protocol = 3
      BY <1>2, <3>3 DEF Greet, Greeting
    <3>4. Protocol = 1 \/ Protocol = 2 \/ Protocol = 3
      BY LkAssumption
    <3> QED BY <3>1, <3>2, <3>3, <3>4, Zenon
  <2>3. CASE e = [got |-> <<Test>>, flying |-> flying, upsets |-> upsets]
    BY <1>1, <2>1, <2>2, <2>3 DEF Quiet, OwnValues
  <2>4. CASE \E gone \in BOOLEAN : e \in Replies(Test, gone)
    <3>1. upsets' = 0 => upsets = 0 /\ flying' = <<>>
      BY <2>1, <2>2, <2>4, Undisturbed
    <3> QED BY <1>1, <2>1, <3>1 DEF Quiet, OwnValues
  <2> QED BY <2>2, <2>3, <2>4
<1>3. CASE Attempt
  <2>1. i \in Modules /\ Frame(i) \in Frames /\ Request(i).module = i /\ (i \in dead) \in BOOLEAN
    BY <1>3, LkAssumption
    DEF Here, Attempt, Behind, Frames, Request, BusRequest, FramedRequest, CanRequest
  <2>2. PICK e \in Replies(Frame(i), i \in dead) :
          /\ flying' = e.flying
          /\ upsets' = e.upsets
          /\ \/ day' = day
             \/ /\ e.got \notin {<<>>, <<Short>>}
                /\ \E sane, late \in BOOLEAN : Answered(i, e.got, sane, late)
    BY <1>3, <2>1 DEF Attempt, book, ReceiveProblem, SendProblem, Fails
  <2>3. CASE upsets' # 0
    BY <2>3 DEF Quiet, OwnValues
  <2>4. CASE upsets' = 0
    <3>1. upsets = 0 /\ flying' = <<>> /\ e.got \in {<<>>, <<Frame(i)>>, <<Short>>}
      BY <2>1, <2>2, <2>4, Undisturbed
    <3>2. \A m \in Modules : day[m] # "alien"
      BY <3>1 DEF Quiet, OwnValues
    <3>3. CASE day' = day
      BY <1>1, <3>1, <3>2, <3>3 DEF Quiet, OwnValues
    <3>4. ASSUME NEW sane \in BOOLEAN, NEW late \in BOOLEAN,
                 Answered(i, <<Frame(i)>>, sane, late)
          PROVE  Quiet'
      <4>1. Origin(i, <<Frame(i)>>) = "own"
        BY DEF Origin, FromCan, FromBus
      <4>2. day' = day \/ day' = [day EXCEPT ![i] = "own"]
        BY <3>4, <4>1 DEF Answered
      <4>3. \A m \in Modules : day'[m] # "alien"
        BY <1>1, <2>1, <3>2, <4>2
      <4> QED BY <1>1, <3>1, <4>3 DEF Quiet, OwnValues
    <3>5. CASE e.got \notin {<<>>, <<Short>>}
      BY <2>2, <3>1, <3>3, <3>4, <3>5
    <3> QED BY <2>2, <3>3, <3>5
  <2> QED BY <2>3, <2>4
<1>4. CASE Sleep
  BY <1>1, <1>4 DEF Sleep, CanSpeed, Quiet, OwnValues, book
<1>5. CASE Midnight
  <2>1. \A m \in Modules : day'[m] # "alien"
    BY <1>5, LkAssumption DEF Midnight
  <2> QED BY <1>1, <1>5, <2>1 DEF Midnight, Quiet, OwnValues, line
<1>6. CASE UNCHANGED <<flying, upsets, day>>
  BY <1>1, <1>6 DEF Quiet, OwnValues
<1> QED
  BY <1>2, <1>3, <1>4, <1>5, <1>6 DEF Next, Thread, Book, Switch, Finish, Die, Ended, vars,
     book, line

(* A row down is earned by as many missed polls (lk.cpp:277), and without  *)
(* an upset every value is the module's own (lk.cpp:826), for any tables,  *)
(* any protocol and any mixture of lost and short answers.                 *)
THEOREM LkRows == Spec => []RowsAreEarned
<1>1. Init => Missed /\ Quiet
  BY LkAssumption, Tables DEF Init, Opened, Missed, DownIsEarned, Quiet, OwnValues
<1>2. IInv => Here
  BY DEF IInv
<1>3. Missed /\ Quiet => RowsAreEarned
  BY DEF Missed, Quiet, RowsAreEarned
<1> QED BY <1>1, <1>2, <1>3, Starts, Steps, MissedSteps, QuietSteps, PTL DEF Spec
=============================================================================
