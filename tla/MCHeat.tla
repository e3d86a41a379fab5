-------------------------------- MODULE MCHeat --------------------------------
EXTENDS Heat
MCSpan == [km5 |-> 6 .. 8, vkt |-> 4 .. 6, irp |-> 3 .. 10]
MCFaults == [km5 |-> 1, vkt |-> 2, irp |-> 1]
MCDevKm == <<[dev |-> 1, pipe |-> 1, kinds |-> <<"hour", "day", "month">>, heat |-> TRUE],
             [dev |-> 1, pipe |-> 2, kinds |-> <<"hour">>, heat |-> TRUE],
             [dev |-> 3, pipe |-> 1, kinds |-> <<"hour">>, heat |-> FALSE]>>
MCDevIrp == <<1, 2>>
=============================================================================
