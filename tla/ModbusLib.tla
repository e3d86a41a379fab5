------------------------------- MODULE ModbusLib -------------------------------
(***************************************************************************)
(* libmodbus as the drivers and the Modbus server use it: how long an      *)
(* answer is expected to be, what is read from the port for a query, what  *)
(* is made of it, and what a server answers.  Frames are records; of their *)
(* bytes only the number counts.                                           *)
(*                                                                         *)
(*   fn     the function in its header; exc: is it an exception            *)
(*   nb     the quantity in its header                                     *)
(*   len    its bytes; good: its check sum is right                        *)
(*   of     what its registers say                                         *)
(***************************************************************************)
EXTENDS Integers, Sequences

TimeOut == -12                   \* COMM_TIME_OUT
Illegal == -3                    \* ILLEGAL_DATA_VALUE
Exception == -2                  \* the code of an exception answer
Failure == -13                   \* PORT_SOCKET_FAILURE

(* What registers say that were filled from something else.                *)
Junk == [dev |-> 0, kind |-> "junk", date |-> 0, sound |-> FALSE]

(* A query: what an answer can be held against is its function and its     *)
(* quantity.  (Over TCP it has a number of its own, which no answer is     *)
(* compared with.)                                                         *)
Query(fn, nb) == [fn |-> fn, nb |-> nb]

(* The queries of the drivers.                                             *)
ReadRegisters(nb) == Query("registers", nb)
PresetRegisters(nb) == Query("multiple", nb)

(* compute_response_length, RTU: the functions used here.                  *)
Expected(query) == IF query.fn = "registers" THEN 5 + 2 * query.nb ELSE 8

(* How a device that keeps to the protocol answers.                        *)
Answer(query, of) ==
  [fn |-> query.fn, exc |-> FALSE, nb |-> query.nb, len |-> Expected(query),
   good |-> TRUE, of |-> of]

Refusal(query) ==
  [fn |-> query.fn, exc |-> TRUE, nb |-> 0, len |-> 5, good |-> TRUE, of |-> Junk]

(* All the bytes of a sequence of frames.                                  *)
Total(frames) ==
  LET sum[n \in 0 .. Len(frames)] == IF n = 0 THEN 0 ELSE sum[n - 1] + frames[n].len
  IN  sum[Len(frames)]

(* modbus_receive, an answer of the expected length: the number of values, *)
(* if its header says as many as the query; every function that it does    *)
(* not know, an exception for one, counts as one value.  That it is the    *)
(* function of the query, or the slave's address, is not compared.         *)
Result(query, head) ==
  IF head.exc THEN 1 ELSE IF head.nb = query.nb THEN query.nb ELSE Illegal

(* The end of a frame whose beginning has been taken for another one.      *)
Fragment(bytes) ==
  [fn |-> "fragment", exc |-> TRUE, nb |-> 0, len |-> bytes, good |-> FALSE, of |-> Junk]

(* crc16 of what has been taken, against the sum at its end: right for one *)
(* frame that came as it was sent.                                         *)
SumRight(taken) == Len(taken) = 1 /\ taken[1].good

(* Mutant: a wrong check sum does not have the port flushed.               *)
ReceiveUnflushed(query, stream) ==
  LET need == Expected(query)
      head == Head(stream)
      whole == head.len = need
  IN  IF Total(stream) < need
        THEN [ret |-> TimeOut, of |-> Junk, port |-> <<>>, cut |-> <<>>]
        ELSE [ret |-> Result(query, head),
              of |-> IF whole /\ ~head.exc /\ head.fn = query.fn THEN head.of ELSE Junk,
              port |-> IF whole THEN Tail(stream)
                       ELSE IF Total(stream) = need THEN <<>>
                       ELSE <<Fragment(Total(stream) - need)>>,
              cut |-> <<>>]

(* receive_msg, and what modbus_receive makes of a time-out: when what is  *)
(* there is too little the port is flushed, whether it is an exception to  *)
(* this query or not.  When it is enough, the query's number of bytes is   *)
(* taken; a wrong check sum has the port flushed at once (what is cut off  *)
(* there may come after that), but its return value is dropped and the     *)
(* bytes are used.                                                         *)
Receive(query, stream) ==
  LET need == Expected(query)
      head == Head(stream)
      whole == head.len = need
  IN  IF Total(stream) < need
        THEN [ret |-> IF Len(stream) = 1 /\ head.exc /\ head.fn = query.fn
                        THEN Exception ELSE TimeOut,
              of |-> Junk, port |-> <<>>, cut |-> <<>>]
        ELSE [ret |-> Result(query, head),
              of |-> IF whole /\ ~head.exc /\ head.fn = query.fn THEN head.of ELSE Junk,
              port |-> IF whole /\ SumRight(<<head>>) THEN Tail(stream) ELSE <<>>,
              cut |-> IF whole \/ Total(stream) = need THEN <<>>
                      ELSE <<Fragment(Total(stream) - need)>>]

-----------------------------------------------------------------------------
(* modbus_manage_query: what a server with "size" registers answers to a   *)
(* query.  There are no coils; a function without a case gets no answer.   *)
Managed(query, size) ==
  LET end == IF query.fn = "single" THEN query.adr + 1 ELSE query.adr + query.nb
  IN  IF query.fn \in {"registers", "multiple", "single"} /\ end <= size THEN "done"
      ELSE IF query.fn \in {"registers", "multiple", "single", "coils"} THEN "refused"
      ELSE "silence"
=============================================================================
