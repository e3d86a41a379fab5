--------------------------------- MODULE Slave ---------------------------------
(***************************************************************************)
(* The Modbus/TCP server of modbus_slave.cpp: a thread that copies the     *)
(* current values from the database into the holding registers and then    *)
(* waits up to a minute for a query of the one client it has accepted.     *)
(* The clients and their network are external.                             *)
(***************************************************************************)
EXTENDS ModbusLib

CONSTANTS Size,       \* holding registers: 0x30
          Special,    \* the quantity that is replaced by Size: 2
          Used,       \* registers that hold values
          Asks,       \* the queries that clients make
          Clients,    \* bound: clients that ever connect, 1 .. Clients
          MaxVersion  \* bound: changes of the values in the database

ASSUME SlaveAssumption ==
  /\ Size \in Nat \ {0} /\ Special \in 1 .. Size - 1
  /\ Used \subseteq 0 .. Size - 1
  /\ Asks \subseteq [fn : {"registers", "multiple", "single", "coils", "other"},
                    adr : 0 .. Size - 1, nb : 1 .. Size]
  /\ Clients \in Nat /\ MaxVersion \in Nat

VARIABLES thread,     \* where the thread is
          link,       \* its connection: to a client, to itself, or none
          regs,       \* the registers: of which version, or a client's
          version,    \* of the values in the database; 0: no row yet
          came,       \* clients that have connected so far
          client,     \* what each client does
          query,      \* what each asked for last
          extra,      \* bytes of an answer that the client has not read
          reply       \* the last answer as its client understands it

slaveVars == <<thread, link, regs, version, came, client, query, extra, reply>>

Self == -1
NoLink == 0
Written == -1         \* a register filled by a client
NoQuery == [fn |-> "none", adr |-> 0, nb |-> 0]

SlaveTypeOK ==
  /\ thread \in {"accept", "refresh", "listen", "end"}
  /\ link \in {Self, NoLink} \cup 1 .. Clients
  /\ regs \in [0 .. Size - 1 -> (0 .. MaxVersion) \cup {Written}]
  /\ version \in 0 .. MaxVersion /\ came \in 0 .. Clients
  /\ client \in [1 .. Clients -> {"absent", "idle", "waiting", "closed", "reset"}]
  /\ query \in [1 .. Clients -> Asks \cup {NoQuery}]
  /\ extra \in [1 .. Clients -> BOOLEAN]
  /\ reply.to \in 0 .. Clients

(* modbus_mapping_new, and the thread at its accept.                       *)
SlaveInit ==
  /\ thread = "accept" /\ link = NoLink
  /\ regs = [n \in 0 .. Size - 1 |-> 0]
  /\ version = 0 /\ came = 0
  /\ client = [c \in 1 .. Clients |-> "absent"]
  /\ query = [c \in 1 .. Clients |-> NoQuery]
  /\ extra = [c \in 1 .. Clients |-> FALSE]
  /\ reply = [to |-> 0, asked |-> NoQuery, what |-> "nothing", values |-> {}]

-----------------------------------------------------------------------------
(* modbus_init_listen_tcp: the only accept there is.                       *)
Accept ==
  /\ thread = "accept" /\ came > 0
  /\ link' = 1 /\ thread' = "refresh"
  /\ UNCHANGED <<regs, version, came, client, query, extra, reply>>

(* The value there is, -1 as long as there is no row (version 0).          *)
LoadData == version

(* Mutant: the registers are only filled where they are empty.             *)
RefreshOnce ==
  /\ thread = "refresh"
  /\ regs' = [n \in DOMAIN regs |-> IF n \in Used /\ regs[n] = 0 THEN LoadData ELSE regs[n]]
  /\ thread' = "listen"
  /\ UNCHANGED <<link, version, came, client, query, extra, reply>>

(* All the values are loaded, and both registers of each get its upper     *)
(* half.                                                                   *)
Refresh ==
  /\ thread = "refresh"
  /\ regs' = [n \in DOMAIN regs |-> IF n \in Used THEN LoadData ELSE regs[n]]
  /\ thread' = "listen"
  /\ UNCHANGED <<link, version, came, client, query, extra, reply>>

(* The quantity Special (or a single value written, if it equals it) is    *)
(* replaced, whatever the function is.                                     *)
Rewritten(q) == IF q.nb = Special THEN [q EXCEPT !.nb = Size] ELSE q

(* How the client takes the answer to its query: as asked for, when the    *)
(* quantity is.  What it does not read stays before the next answer.       *)
Understood(c, q, done, values) ==
  [to |-> c, asked |-> query[c], values |-> values,
   what |-> IF extra[c] THEN "junk"
            ELSE IF done = "refused" THEN "exception"
            ELSE IF q.nb = query[c].nb \/ q.fn = "single" THEN "as asked"
            ELSE "quantity"]

(* Mutant: a refused query is not answered.                                *)
ServeGrudging ==
  /\ thread = "listen" /\ link \in 1 .. Clients /\ client[link] = "waiting"
  /\ LET q == Rewritten(query[link])
     IN  IF Managed(q, Size) # "done"
           THEN query' = [query EXCEPT ![link] = NoQuery] /\ UNCHANGED <<regs, client, reply, extra>>
           ELSE /\ client' = [client EXCEPT ![link] = "idle"]
                /\ UNCHANGED <<regs, query, reply, extra>>
  /\ thread' = "refresh"
  /\ UNCHANGED <<link, version, came>>

(* A query of the client, and modbus_manage_query for it.                  *)
Serve ==
  /\ thread = "listen" /\ link \in 1 .. Clients /\ client[link] = "waiting"
  /\ LET q == Rewritten(query[link])
         done == Managed(q, Size)
         range == IF q.fn = "single" THEN {q.adr}
                  ELSE {n \in 0 .. Size - 1 : q.adr <= n /\ n < q.adr + q.nb}
     IN  /\ regs' = IF q.fn \in {"multiple", "single"} /\ done = "done"
                      THEN [n \in DOMAIN regs |-> IF n \in range THEN Written ELSE regs[n]]
                      ELSE regs
         /\ IF done = "silence"
              THEN UNCHANGED <<client, reply, extra>>
              ELSE /\ client' = [client EXCEPT ![link] = "idle"]
                   /\ reply' = Understood(link, q, done,
                        IF q.fn = "registers" /\ done = "done"
                          THEN {regs[n] : n \in range \cap Used} ELSE {})
                   /\ extra' = [extra EXCEPT ![link] =
                        @ \/ (done = "done" /\ q.fn = "registers" /\ q.nb # query[link].nb)]
         /\ query' = IF done = "silence" THEN [query EXCEPT ![link] = NoQuery] ELSE query
  /\ thread' = "refresh"
  /\ UNCHANGED <<link, version, came>>

(* A minute without a query; for ever so, when the thread has connected to *)
(* itself.                                                                 *)
Quiet ==
  /\ thread = "listen"
  /\ \/ link = Self
     \/ /\ link \in 1 .. Clients
        /\ \/ client[link] = "idle"
           \/ client[link] = "waiting" /\ query[link] = NoQuery
  /\ thread' = "refresh"
  /\ UNCHANGED <<link, regs, version, came, client, query, extra, reply>>

(* Mutant: the next client is accepted.                                    *)
HungUpNext ==
  /\ thread = "listen" /\ link \in 1 .. Clients /\ client[link] = "closed"
  /\ thread' = IF came > link THEN "refresh" ELSE "end"
  /\ link' = IF came > link THEN link + 1 ELSE NoLink
  /\ UNCHANGED <<regs, version, came, client, query, extra, reply>>

(* The client has closed the connection: that is the end of the thread.    *)
HungUp ==
  /\ thread = "listen" /\ link \in 1 .. Clients /\ client[link] = "closed"
  /\ thread' = "end" /\ link' = NoLink
  /\ UNCHANGED <<regs, version, came, client, query, extra, reply>>

(* It has broken off: error_treat closes and connects again, as a client,  *)
(* to the address of this very server.                                     *)
BrokenOff ==
  /\ thread = "listen" /\ link \in 1 .. Clients /\ client[link] = "reset"
  /\ link' = Self /\ thread' = "refresh"
  /\ UNCHANGED <<regs, version, came, client, query, extra, reply>>

Server == Accept \/ Refresh \/ Serve \/ Quiet \/ HungUp \/ BrokenOff

-----------------------------------------------------------------------------
(* Clients connect in turn (the second one is let in by the backlog),      *)
(* query, wait, close or break off; drivers store new values.              *)
Connect ==
  /\ came < Clients
  /\ came' = came + 1
  /\ client' = [client EXCEPT ![came + 1] = "idle"]
  /\ UNCHANGED <<thread, link, regs, version, query, extra, reply>>

Ask ==
  /\ \E c \in 1 .. Clients, q \in Asks :
       /\ client[c] = "idle"
       /\ client' = [client EXCEPT ![c] = "waiting"]
       /\ query' = [query EXCEPT ![c] = q]
  /\ UNCHANGED <<thread, link, regs, version, came, extra, reply>>

Leave ==
  /\ \E c \in 1 .. Clients, how \in {"closed", "reset"} :
       /\ client[c] \in {"idle", "waiting"}
       /\ client' = [client EXCEPT ![c] = how]
  /\ UNCHANGED <<thread, link, regs, version, came, query, extra, reply>>

Measure ==
  /\ version < MaxVersion /\ version' = version + 1
  /\ UNCHANGED <<thread, link, regs, came, client, query, extra, reply>>

-----------------------------------------------------------------------------
(* What clients write into the registers of values is never read back: a   *)
(* read brings values from the database only (modbus_slave.cpp:66).        *)
ReadsAreMeasured == Written \notin reply.values

(* A query for exactly two registers, that is for one value, never brings  *)
(* it (modbus_slave.cpp:131), nor do the queries of that client after it.  *)
OneValueIsRefused ==
  /\ reply.asked.fn = "registers" /\ reply.asked.nb = Special => reply.what # "as asked"
  /\ \A c \in 1 .. Clients : extra[c] /\ reply.to = c => reply.what # "as asked"

(* An answer holds what was measured or it is not one to what was asked    *)
(* (modbus_slave.cpp:66, :131).                                            *)
RepliesAreTrue == ReadsAreMeasured /\ OneValueIsRefused

(* Nobody but the first client is ever answered, though others are         *)
(* connected (modbus_slave.cpp:139).                                       *)
OnlyFirstClient == [][reply'.to # reply.to => reply'.to = 1]_slaveVars

(* As long as the first client stays and has asked something there is an   *)
(* answer for, it gets one, however late its query came in the minute the  *)
(* thread waits (modbus_slave.cpp:129).                                    *)
Answered ==
  (client[1] = "waiting" /\ query[1].fn \notin {"other", "none"}) ~> client[1] # "waiting"
=============================================================================
