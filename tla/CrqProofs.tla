------------------------------ MODULE CrqProofs ------------------------------
(***************************************************************************)
(* Proofs about Crq, for any set of connections and any requests: every    *)
(* variable keeps its range, and while clients come one at a time each is  *)
(* answered with the rows of its own request and results are freed once,   *)
(* but for the reconnect.                                                  *)
(***************************************************************************)
EXTENDS Crq, TLAPS

USE DEF Kinds, Ranged, Pages, Result, shared, database, Goto, SocketRead,
        ParseHTTPHeader, AfterRows

-----------------------------------------------------------------------------
(* Every variable keeps its range.                                         *)
THEOREM CrqType == Spec => []TypeOK
<1>1. Init => TypeOK
  BY DEF Init, TypeOK
<1>2. TypeOK /\ [Next]_vars => TypeOK'
  <2> SUFFICES ASSUME TypeOK, [Next]_vars PROVE TypeOK'
    OBVIOUS
  <2> USE CrqAssumption
  <2>1. CASE Listen
    BY <2>1 DEF Listen, TypeOK
  <2>2. CASE Accept
    <3>1. PICK c \in Conn \ Open, k \in Requests :
            /\ want' = [want EXCEPT ![c] = k]
            /\ pc' \in {[pc EXCEPT ![c] = "read"], [pc EXCEPT ![c] = "lost"]}
      BY <2>2 DEF Accept
    <3>2. want' \in [Conn -> Kinds]
      BY <3>1 DEF TypeOK
    <3> QED BY <2>2, <3>1, <3>2 DEF Accept, TypeOK
  <2>3. CASE AcceptFails
    BY <2>3 DEF AcceptFails, TypeOK
  <2>4. CASE Restart
    BY <2>4 DEF Restart, TypeOK
  <2>5. ASSUME NEW c \in Conn, Read(c) PROVE TypeOK'
    BY <2>5 DEF Read, TypeOK
  <2>6. ASSUME NEW c \in Conn, ParseNChan(c) PROVE TypeOK'
    BY <2>6 DEF ParseNChan, TypeOK
  <2>7. ASSUME NEW c \in Conn, Format(c) PROVE TypeOK'
    BY <2>7 DEF Format, TypeOK
  <2>8. ASSUME NEW c \in Conn, RealQuery(c) PROVE TypeOK'
    BY <2>8 DEF RealQuery, TypeOK
  <2>9. ASSUME NEW c \in Conn, StoreResult(c) PROVE TypeOK'
    BY <2>9 DEF StoreResult, TypeOK
  <2>10. ASSUME NEW c \in Conn, SendRows(c) PROVE TypeOK'
    <3>1. reply' \in [Conn -> SUBSET Result]
      BY <2>10 DEF SendRows, TypeOK
    <3>2. intact' \in BOOLEAN
      BY <2>10 DEF SendRows, TypeOK
    <3> QED BY <2>10, <3>1, <3>2 DEF SendRows, TypeOK
  <2>11. ASSUME NEW c \in Conn, NoRows(c) PROVE TypeOK'
    BY <2>11 DEF NoRows, TypeOK
  <2>12. ASSUME NEW c \in Conn, Release(c) PROVE TypeOK'
    BY <2>12 DEF Release, TypeOK
  <2>13. ASSUME NEW c \in Conn, Close(c) PROVE TypeOK'
    BY <2>13 DEF Close, TypeOK
  <2>14. CASE UNCHANGED vars
    BY <2>14 DEF vars, TypeOK
  <2> QED
    BY <2>1, <2>2, <2>3, <2>4, <2>5, <2>6, <2>7, <2>8, <2>9, <2>10, <2>11,
       <2>12, <2>13, <2>14 DEF Next, Handle, Exit, Crash
<1> QED BY <1>1, <1>2, PTL DEF Spec

-----------------------------------------------------------------------------
(* At most one handler is at work.                                         *)
Alone == \A c, d \in Active : c = d

(* What the handler has left for its next step is its own.                 *)
Mine(c) ==
  /\ pc[c] = "format" /\ want[c] \in Ranged => ans = c
  /\ pc[c] = "query" => query = [by |-> c, params |-> c]
  /\ pc[c] = "store" => wire \in {None, [by |-> c, params |-> c]}
  /\ pc[c] = "rows" => res = None \/ res \in live \cap {[by |-> c, params |-> c]}
  /\ pc[c] = "release" => res \in live

SerialInv ==
  /\ Alone
  /\ \A c \in Conn : Mine(c)
  /\ AnswersOwnRequest

(* No handler is at work when a client is accepted, and a handler's step   *)
(* touches no other handler: so the invariant is kept.                     *)
LEMMA StepSerial ==
  ASSUME OneAtATime, TypeOK, SerialInv, [Next]_vars PROVE SerialInv'
<1> USE CrqAssumption
<1>1. CASE Listen
  <2>1. Active = {}
    BY <1>1 DEF Listen, Active, Open
  <2>2. \A c \in Conn : pc[c] \in {"free", "lost"}
    BY <2>1 DEF Active
  <2> QED
    BY <1>1, <2>2 DEF Listen, SerialInv, Alone, Mine, Active, AnswersOwnRequest
<1>2. CASE Accept
  <2>1. Active = {}
    BY <1>2 DEF Accept
  <2>2. \A c \in Conn : pc[c] \in {"free", "lost"}
    BY <2>1 DEF Active
  <2>3. PICK c \in Conn :
          pc' \in {[pc EXCEPT ![c] = "read"], [pc EXCEPT ![c] = "lost"]}
    BY <1>2 DEF Accept
  <2>4. \A d \in Conn : pc'[d] \in {"free", "lost", "read"}
    BY <2>2, <2>3 DEF TypeOK
  <2>5. Alone'
    BY <2>2, <2>3 DEF Alone, Active, TypeOK
  <2> QED
    BY <1>2, <2>4, <2>5 DEF Accept, SerialInv, Mine, AnswersOwnRequest
<1>3. CASE AcceptFails
  BY <1>3 DEF AcceptFails, SerialInv, Alone, Mine, Active, AnswersOwnRequest
<1>4. CASE Restart
  BY <1>4 DEF Restart, SerialInv, Alone, Mine, Active, AnswersOwnRequest
<1>5. ASSUME NEW c \in Conn, Handle(c), ~Exit(c) PROVE SerialInv'
  <2>1. /\ pc[c] \notin {"free", "lost"}
        /\ \E label : pc' = [pc EXCEPT ![c] = label]
    BY <1>5 DEF Handle, Read, ParseNChan, Format, RealQuery, StoreResult,
                SendRows, NoRows, Release, Close
  <2>2. \A d \in Conn \ {c} : pc[d] \in {"free", "lost"} /\ pc'[d] = pc[d]
    BY <2>1 DEF SerialInv, Alone, Active, TypeOK
  <2>3. Alone'
    BY <2>2 DEF Alone, Active
  <2>4. \A d \in Conn \ {c} : Mine(d)'
    BY <2>2 DEF Mine
  <2>5. Mine(c)' /\ AnswersOwnRequest'
    <3>1. CASE Read(c)
      BY <3>1 DEF Read, Mine, SerialInv, AnswersOwnRequest, TypeOK
    <3>2. CASE ParseNChan(c)
      BY <3>2 DEF ParseNChan, Mine, SerialInv, AnswersOwnRequest, TypeOK
    <3>3. CASE Format(c)
      BY <3>3 DEF Format, Mine, SerialInv, AnswersOwnRequest, TypeOK
    <3>4. CASE RealQuery(c)
      BY <3>4 DEF RealQuery, Mine, SerialInv, AnswersOwnRequest, TypeOK
    <3>5. CASE StoreResult(c)
      BY <3>5 DEF StoreResult, Mine, SerialInv, AnswersOwnRequest, TypeOK
    <3>6. CASE SendRows(c)
      BY <3>6 DEF SendRows, Mine, SerialInv, AnswersOwnRequest, TypeOK
    <3>7. CASE NoRows(c)
      BY <3>7 DEF NoRows, Mine, SerialInv, AnswersOwnRequest, TypeOK
    <3>8. CASE Release(c)
      BY <3>8 DEF Release, Mine, SerialInv, AnswersOwnRequest, TypeOK
    <3>9. CASE Close(c)
      BY <3>9 DEF Close, Mine, SerialInv, AnswersOwnRequest, TypeOK
    <3> QED
      BY <1>5, <3>1, <3>2, <3>3, <3>4, <3>5, <3>6, <3>7, <3>8, <3>9
      DEF Handle
  <2> QED BY <2>3, <2>4, <2>5 DEF SerialInv
<1>6. CASE UNCHANGED vars
  BY <1>6 DEF vars, SerialInv, Alone, Mine, Active, AnswersOwnRequest
<1> QED BY <1>1, <1>2, <1>3, <1>4, <1>5, <1>6 DEF Next, Exit, Crash, Handle

LEMMA Serial == OneAtATime => (Spec => []SerialInv)
<1> SUFFICES ASSUME OneAtATime PROVE Spec => []SerialInv
  OBVIOUS
<1>1. Init => SerialInv
  BY DEF Init, SerialInv, Alone, Mine, Active, AnswersOwnRequest
<1>2. TypeOK /\ SerialInv /\ [Next]_vars => SerialInv'
  BY StepSerial
<1> QED BY <1>1, <1>2, CrqType, PTL DEF Spec

(* While clients come one at a time, each is answered with rows of its own *)
(* request.                                                                *)
THEOREM SerialAnswers == OneAtATime => (Spec => []AnswersOwnRequest)
<1> SUFFICES ASSUME OneAtATime PROVE Spec => []AnswersOwnRequest
  OBVIOUS
<1>1. SerialInv => AnswersOwnRequest
  BY DEF SerialInv
<1> QED BY <1>1, Serial, PTL

(* Of the steps that touch a result, SendRows and Release find it live.    *)
LEMMA TouchedLive ==
  ASSUME SerialInv, [Next]_vars, intact, ~intact'
  PROVE  \E c \in Conn : NoRows(c)
<1>1. CASE Listen \/ Accept \/ AcceptFails \/ Restart \/ UNCHANGED vars
  BY <1>1 DEF Listen, Accept, AcceptFails, Restart, vars
<1>2. ASSUME NEW c \in Conn, Handle(c), ~Exit(c) PROVE NoRows(c)
  <2>1. CASE Read(c) \/ ParseNChan(c) \/ Format(c) \/ RealQuery(c)
               \/ StoreResult(c) \/ Close(c)
    BY <2>1 DEF Read, ParseNChan, Format, RealQuery, StoreResult, Close
  <2>2. CASE SendRows(c)
    BY <2>2 DEF SendRows, SerialInv, Mine
  <2>3. CASE Release(c)
    BY <2>3 DEF Release, SerialInv, Mine
  <2> QED BY <1>2, <2>1, <2>2, <2>3 DEF Handle
<1> QED BY <1>1, <1>2 DEF Next, Exit, Crash, Handle

(* While clients come one at a time, no handler reads or frees a result    *)
(* that has been freed, but for the free inside the reconnect.             *)
THEOREM SerialFrees == OneAtATime => (Spec => StaleOnlyAtReconnect)
<1> SUFFICES ASSUME OneAtATime PROVE Spec => StaleOnlyAtReconnect
  OBVIOUS
<1>1. SerialInv /\ [Next]_vars
        => [intact /\ ~intact' => \E c \in Conn : NoRows(c)]_vars
  BY TouchedLive
<1> QED BY <1>1, Serial, PTL DEF Spec, StaleOnlyAtReconnect
=============================================================================
