------------------------------- MODULE MCPower --------------------------------
EXTENDS Power
MCSpan == [mercury |-> 14 .. 16, ce303 |-> 0 .. 2, ce102 |-> 4 .. 6]
MCFaults == [mercury |-> 1, ce303 |-> 2, ce102 |-> 1]
MCMer == <<[dev |-> 1, type |-> "m230", protocol |-> 13, early |-> TRUE],
           [dev |-> 2, type |-> "set", protocol |-> 14, early |-> TRUE]>>
MCMerParams == <<"power", "sum", "voltage">>
MCCe == <<1, 2>>
MCCeParams == <<"power", "voltage", "energy">>
=============================================================================
