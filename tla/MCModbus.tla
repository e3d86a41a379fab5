------------------------------- MODULE MCModbus -------------------------------
EXTENDS Modbus
MCDevice == <<[idd |-> 101, adr |-> 1], [idd |-> 102, adr |-> 2]>>
MCElf == <<101, 102>>
MCKarat == <<101, 103>>            \* 103 has no row in the table device
MCDepth == [kind \in {"current", "hour", "day", "month"} |-> 1]
MCAsks ==
  {[fn |-> f, adr |-> 0, nb |-> n] : f \in {"registers", "multiple"}, n \in 2 .. 3}
    \cup {[fn |-> f, adr |-> 1, nb |-> 1] : f \in {"registers", "single", "coils", "other"}}
=============================================================================
