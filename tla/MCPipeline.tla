------------------------------ MODULE MCPipeline ------------------------------
(* What the detectors emit for one meter, and the events it has, for TLC.   *)
(* Hours count from 1; an event at 13 is near the second drop only.         *)
EXTENDS Pipeline

Signal(kind, start, end, magnitude) == [kind |-> kind, start |-> start, end |-> end, magnitude |-> magnitude]

SomeSurges == {<<>>, <<Signal("surge", 1, 0, 25)>>, <<Signal("surge", 1, 0, 117)>>}
SomeDrops ==
    {<<>>,
     <<Signal("drop", 1, 5, 50)>>,
     <<Signal("drop", 1, 0, 100)>>,
     <<Signal("drop", 1, 5, 100), Signal("drop", 13, 17, 60)>>,
     <<Signal("drop", 1, 9, 100), Signal("drop", 13, 0, 60)>>}
SomeVoltages ==
    {<<>>,
     <<Signal("voltage_instability", 3, 0, 20)>>,
     <<Signal("voltage_out_of_range", 2, 9, 6), Signal("voltage_instability", 3, 9, 20)>>}
SomePowerFactors == {<<>>, <<Signal("low_power_factor", 2, 0, 20)>>, <<Signal("low_power_factor", 9, 12, 20)>>}
SomeOvercurrents == {<<>>, <<Signal("overcurrent", 4, 0, 60)>>}

Event(type, at, announced) == [type |-> type, at |-> at, announced |-> announced]
SomeEvents ==
    {Event("operational_change", 1, 0), Event("scheduled_outage", 1, 4), Event("scheduled_outage", 7, 12),
     Event("maintenance", 13, 0), Event("unknown", 2, 0), Event("data_quality", 3, 0)}
SomeEventLists == UNION {[1..n -> SomeEvents] : n \in 0..2}
=============================================================================
