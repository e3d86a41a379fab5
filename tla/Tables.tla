-------------------------------- MODULE Tables --------------------------------
(***************************************************************************)
(* The tables of readings, as the drivers use them through func.cpp and    *)
(* db.cpp: a set of rows, each with a key (device, parameter, type, pipe,  *)
(* date and so on, as far as a module tells them apart) and a value.  What *)
(* fails in between is the subject of Tekon and Crq.                       *)
(***************************************************************************)
EXTENDS Integers, FiniteSets

RowOf(rows, key) == {w \in rows : w.key = key}

(* StoreData for a current value: one row per key, overwritten.            *)
StoreCurrent(rows, key, value) ==
  (rows \ RowOf(rows, key)) \cup {[key |-> key, value |-> value]}

(* The same with a channel.  GetChannelNum finds it by parameter, pipe and *)
(* device, so it is the same for all rows of a key and tells none apart;   *)
(* no module has the time stamp written beside it (channels.lastcurrents). *)
StoreCurrentOf(rows, key, value) == StoreCurrent(rows, key, value)

(* Mutant: a row is inserted without a look for an earlier one.            *)
StoreArchiveBlind(rows, key, value) == rows \cup {[key |-> key, value |-> value]}

(* StoreData for an archive value: the first one stays.  Its UPDATE asks   *)
(* whether column 3 of the row is 0; the value is in column 5 of prdata    *)
(* (modbus_slave.cpp:163), and column 3 is not 0 in a row of an archive.   *)
StoreArchive(rows, key, value) ==
  IF RowOf(rows, key) # {} THEN rows ELSE rows \cup {[key |-> key, value |-> value]}

(* The same for several rows with different keys, one after the other.     *)
StoreArchives(rows, new) == rows \cup {w \in new : RowOf(rows, w.key) = {}}

(* With a channel the UPDATE is switched off: the first one stays.         *)
StoreArchiveOf(rows, key, value) == StoreArchive(rows, key, value)

(* The configuration of a driver: a row of its own table dev_... takes its *)
(* port and address from the device with its number, the last one if there *)
(* are several; if there is none they stay 0.                              *)
Loaded(table, device) ==
  [n \in DOMAIN table |->
     LET found == {d \in DOMAIN device : device[d].idd = table[n]}
     IN  [device |-> table[n],
          adr |-> IF found = {} THEN 0
                  ELSE device[CHOOSE d \in found : \A e \in found : e <= d].adr]]
=============================================================================
