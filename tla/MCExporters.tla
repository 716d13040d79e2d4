----------------------------- MODULE MCExporters -----------------------------
(* Two event batches and three metric batches against two Shutdowns.  The    *)
(* samples of the gauges come in opposite orders in two metric batches, one   *)
(* ends in a negative delta, a third in an unknown family.                   *)
EXTENDS Exporters

Event(id)            == [id |-> id, family |-> "event", series |-> "", at |-> 0, value |-> 0]
Count(id, value)     == [id |-> id, family |-> "counter", series |-> "", at |-> 0, value |-> value]
Sample(id, s, at)    == [id |-> id, family |-> "gauge", series |-> s, at |-> at, value |-> 0]
Malformed(id)        == [id |-> id, family |-> "unknown", series |-> "", at |-> 0, value |-> 0]

MCBatch == [c \in ExportCalls |->
    CASE c = "e1" -> <<Event(1), Event(2)>>
      [] c = "e2" -> <<Event(3)>>
      [] c = "m1" -> <<Count(4, 1), Sample(5, "a", 2), Sample(6, "b", 1)>>
      [] c = "m2" -> <<Sample(7, "b", 2), Sample(8, "a", 1), Count(9, -1)>>
      [] c = "m3" -> <<Count(10, 1), Malformed(11)>>]
=============================================================================
