--------------------------------- MODULE Crq ---------------------------------
(***************************************************************************)
(* The HTTP server of crq.cpp: the accept loop, a thread per connection    *)
(* that reads one request and answers it, and the state those threads      *)
(* share: the parsed parameters ans, the text query, the result res and    *)
(* the database connection dbase, none of them under a lock.               *)
(*                                                                         *)
(* A result is told apart by the connection whose request it answers and   *)
(* by the one whose parameters it was selected with.  Calls of the client  *)
(* library are steps; that two of them overlap is not modelled.            *)
(***************************************************************************)
EXTENDS FiniteSets

CONSTANTS Conn,        \* the sockets the process can have open for clients
          Requests,    \* the kinds of request the clients make
          Faults,      \* what may go wrong: "accept", "create", "db"
          OneAtATime,  \* TRUE: a client waits until the one before is done
          None

(* ParseNChan is called for these.                                         *)
Ranged == {"range", "current_dev"}

(* Pages of the whole of a table; dev_info counts in the tables first.     *)
Pages == {"info", "dev_info"}

Kinds == {"nothing", "malformed", "local", "exit"} \cup Pages \cup Ranged

ASSUME CrqAssumption ==
  /\ Requests \subseteq Kinds
  /\ Faults \subseteq {"accept", "create", "db"}
  /\ OneAtATime \in BOOLEAN
  /\ None \notin Conn

VARIABLES server,  \* "off", or "listening" in the accept loop
          pc,      \* connection -> where its thread is
          want,    \* connection -> the kind of its request
          ans,     \* the connection whose parameters ParseNChan left
          query,   \* the query text
          wire,    \* the result the database connection has yet to deliver
          res,     \* the static res of crq.cpp
          dres,    \* dbase.res, the last result sqlexec got
          live,    \* the results allocated and not freed
          intact,  \* FALSE once a freed result has been used or freed
          reply    \* connection -> the results its rows were read from

vars == <<server, pc, want, ans, query, wire, res, dres, live, intact, reply>>

shared == <<ans, query>>
database == <<wire, res, dres, live, intact>>

-----------------------------------------------------------------------------
Result == [by : Conn, params : Conn \cup {None}]

(* "lost" is a socket nobody will close.                                   *)
Open == {c \in Conn : pc[c] # "free"}

Active == {c \in Conn : pc[c] \notin {"free", "lost"}}

TypeOK ==
  /\ server \in {"off", "listening"}
  /\ pc \in [Conn -> {"free", "lost", "read", "parse", "format", "query",
                      "store", "rows", "release", "close"}]
  /\ want \in [Conn -> Kinds]
  /\ ans \in Conn \cup {None}
  /\ query \in Result \cup {None}
  /\ wire \in Result \cup {None}
  /\ res \in Result \cup {None}
  /\ dres \in Result \cup {None}
  /\ live \in SUBSET Result
  /\ intact \in BOOLEAN
  /\ reply \in [Conn -> SUBSET Result]

Init ==
  /\ server = "off"
  /\ pc = [c \in Conn |-> "free"]
  /\ want = [c \in Conn |-> "nothing"]
  /\ ans = None
  /\ query = None
  /\ wire = None
  /\ res = None
  /\ dres = None
  /\ live = {}
  /\ intact = TRUE
  /\ reply = [c \in Conn |-> {}]

Goto(c, label) == pc' = [pc EXCEPT ![c] = label]

-----------------------------------------------------------------------------
(* The accept loop.                                                        *)

(* StartThreads starts the server thread, again when it has ended; bind    *)
(* fails while a connection of an earlier server is open (SO_REUSEADDR is  *)
(* not set), and the thread ends.  The new connection to the database has  *)
(* no result to deliver.                                                   *)
Listen ==
  /\ server = "off"
  /\ Open = {}
  /\ server' = "listening"
  /\ wire' = None
  /\ UNCHANGED <<pc, want, shared, res, dres, live, intact, reply>>

Accept ==
  /\ server = "listening"
  /\ OneAtATime => Active = {}
  /\ \E c \in Conn \ Open, k \in Requests :
       /\ want' = [want EXCEPT ![c] = k]
       /\ \/ Goto(c, "read")
          \/ "create" \in Faults /\ Goto(c, "lost")
  /\ UNCHANGED <<server, shared, database, reply>>

(* Whatever makes accept fail, too many open sockets among others, ends    *)
(* the loop.                                                               *)
AcceptFails ==
  /\ server = "listening"
  /\ "accept" \in Faults \/ Open = Conn
  /\ server' = "off"
  /\ UNCHANGED <<pc, want, shared, database, reply>>

-----------------------------------------------------------------------------
(* HandleHTTPRequest.                                                      *)

(* Whether there is a request: a client that closes, or that sends more    *)
(* than there is room for before the empty line, counts as gone.  Until    *)
(* either comes the thread waits.                                          *)
SocketRead(c) == want[c] # "nothing"

(* Whether the request has a method, an address and a version.             *)
ParseHTTPHeader(c) == want[c] # "malformed"

(* A client that is gone is closed; a header that cannot be parsed is      *)
(* answered with error 400 and the thread ends without closing the socket. *)
Read(c) ==
  /\ pc[c] = "read"
  /\ want[c] # "exit"
  /\ Goto(c, IF ~SocketRead(c) THEN "close"
             ELSE IF ~ParseHTTPHeader(c) THEN "lost"
             ELSE IF want[c] \in Ranged THEN "parse"
             ELSE IF want[c] \in Pages THEN "format"
             ELSE "close")
  /\ UNCHANGED <<server, want, shared, database, reply>>

(* The process ends and watcher.sh starts it again.                        *)
Restart ==
  /\ server' = "off"
  /\ pc' = [c \in Conn |-> "free"]
  /\ want' = [c \in Conn |-> "nothing"]
  /\ ans' = None
  /\ query' = None
  /\ wire' = None
  /\ res' = None
  /\ dres' = None
  /\ live' = {}
  /\ intact' = TRUE
  /\ reply' = [c \in Conn |-> {}]

(* The request "exit" ends it whatever the other threads are doing.        *)
Exit(c) ==
  /\ pc[c] = "read"
  /\ want[c] = "exit"
  /\ Restart

(* Heap damage that surfaces, a fault of another thread, a kill.           *)
Crash == Restart

(* Mutant: only parameters that are given are set.                         *)
ParseNChanKeeps(c) ==
  /\ pc[c] = "parse"
  /\ ans' \in {c, IF ans = None THEN c ELSE ans}
  /\ Goto(c, "format")
  /\ UNCHANGED <<server, want, query, database, reply>>

ParseNChan(c) ==
  /\ pc[c] = "parse"
  /\ ans' = c
  /\ Goto(c, "format")
  /\ UNCHANGED <<server, want, query, database, reply>>

Format(c) ==
  /\ pc[c] = "format"
  /\ query' = [by |-> c, params |-> IF want[c] \in Ranged THEN ans ELSE c]
  /\ Goto(c, "query")
  /\ UNCHANGED <<server, want, ans, database, reply>>

(* sqlexec, first half: the server runs the query.  It fails when the      *)
(* result before is still to be fetched; res is NULL then.                 *)
RealQuery(c) ==
  /\ pc[c] = "query"
  /\ \/ /\ wire = None
        /\ wire' = query
        /\ Goto(c, "store")
        /\ UNCHANGED res
     \/ /\ wire # None \/ "db" \in Faults
        /\ res' = None
        /\ Goto(c, "rows")
        /\ UNCHANGED wire
  /\ UNCHANGED <<server, want, shared, dres, live, intact, reply>>

(* sqlexec, second half: fetch the result, if nobody else has.             *)
StoreResult(c) ==
  /\ pc[c] = "store"
  /\ IF wire = None
       THEN res' = None /\ UNCHANGED <<dres, live>>
       ELSE res' = wire /\ dres' = wire /\ live' = live \cup {wire}
  /\ wire' = None
  /\ Goto(c, "rows")
  /\ UNCHANGED <<server, want, shared, intact, reply>>

(* The next query of dev_info.  Its counts of the flats, the values and    *)
(* the devices, which stand here as one, come before the row of its own    *)
(* device, and their results are not freed.                                *)
AfterRows(c, label) ==
  IF want[c] = "dev_info"
    THEN Goto(c, "format") /\ want' = [want EXCEPT ![c] = "info"]
    ELSE Goto(c, label) /\ UNCHANGED want

(* Mutant: the result is freed with its last row.                          *)
SendRowsFrees(c) ==
  /\ pc[c] = "rows"
  /\ res # None
  /\ reply' = [reply EXCEPT ![c] = @ \cup {res}]
  /\ intact' = (intact /\ res \in live)
  /\ live' = live \ {res}
  /\ AfterRows(c, "release")
  /\ UNCHANGED <<server, shared, wire, res, dres>>

SendRows(c) ==
  /\ pc[c] = "rows"
  /\ res # None
  /\ reply' = [reply EXCEPT ![c] = @ \cup {res}]
  /\ intact' = (intact /\ res \in live)
  /\ AfterRows(c, "release")
  /\ UNCHANGED <<server, shared, wire, res, dres, live>>

(* Mutant: the query is tried again until it succeeds.                     *)
NoRowsRetries(c) ==
  /\ pc[c] = "rows"
  /\ res = None
  /\ wire' = None
  /\ Goto(c, "query")
  /\ UNCHANGED <<server, want, shared, res, dres, live, intact, reply>>

(* No result: only current_dev connects to the database again.  sqldisconn *)
(* frees the last result, which a handler has freed before; the pointer    *)
(* stays.                                                                  *)
NoRows(c) ==
  /\ pc[c] = "rows"
  /\ res = None
  /\ IF want[c] = "current_dev"
       THEN /\ intact' = (intact /\ dres \in live \cup {None})
            /\ live' = live \ {dres}
            /\ wire' = None
       ELSE UNCHANGED <<intact, live, wire>>
  /\ AfterRows(c, "close")
  /\ UNCHANGED <<server, shared, res, dres, reply>>

(* mysql_free_result(res): the pointer stays, too.                         *)
Release(c) ==
  /\ pc[c] = "release"
  /\ intact' = (intact /\ res \in live \cup {None})
  /\ live' = live \ {res}
  /\ Goto(c, "close")
  /\ UNCHANGED <<server, want, shared, wire, res, dres, reply>>

Close(c) ==
  /\ pc[c] = "close"
  /\ Goto(c, "free")
  /\ want' = [want EXCEPT ![c] = "nothing"]
  /\ reply' = [reply EXCEPT ![c] = {}]
  /\ UNCHANGED <<server, shared, database>>

Handle(c) ==
  \/ Exit(c)
  \/ Read(c) \/ ParseNChan(c) \/ Format(c) \/ RealQuery(c) \/ StoreResult(c)
  \/ SendRows(c) \/ NoRows(c) \/ Release(c) \/ Close(c)

Next ==
  \/ Listen
  \/ Accept
  \/ AcceptFails
  \/ Crash
  \/ \E c \in Conn : Handle(c)

Spec == Init /\ [][Next]_vars

-----------------------------------------------------------------------------
(* The threads run, and StartThreads looks every minute whether the server *)
(* thread has ended.  Nothing is assumed of faults or crashes, nor of      *)
(* clients: recv has no timeout, and a handler may wait for its request    *)
(* for ever.                                                               *)
Fairness ==
  /\ WF_vars(Listen)
  /\ \A c \in Conn : WF_vars(pc[c] # "read" /\ Handle(c))

FairSpec == Spec /\ Fairness

-----------------------------------------------------------------------------
(* Each request is processed in its own thread for its own client: the     *)
(* rows sent to a client are those of its request, selected with its       *)
(* parameters.  It holds while clients come one at a time, whatever        *)
(* queries fail and however often the server and the process restart.      *)
AnswersOwnRequest ==
  \A c \in Conn : reply[c] \subseteq {[by |-> c, params |-> c]}

(* A result is freed once ("Free the statement handle, disconnect"), and   *)
(* nobody reads rows from it afterwards.  While clients come one at a time *)
(* the only step that touches a freed result is the reconnect of           *)
(* current_dev, whose sqldisconn frees what a handler has freed before.    *)
StaleOnlyAtReconnect ==
  [][intact /\ ~intact' => \E c \in Conn : NoRows(c)]_vars

(* The server accepts for ever ("loop forever accepting client             *)
(* connections"): when the loop ends, it is entered again.  But bind waits *)
(* for every open socket, so two things hold it up: a socket leaked for    *)
(* good, and a client that connects and stays silent.                      *)
ListensUnlessHeld ==
  <>[](Open = Active) /\ (\A c \in Conn : []<>(pc[c] # "read"))
    => []<>(server = "listening")
=============================================================================
