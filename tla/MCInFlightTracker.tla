------------------------- MODULE MCInFlightTracker -------------------------
(***************************************************************************)
(* Instances of the tracker for TLC: two (flow, stage) pairs, shards given *)
(* by the message id, money in one currency.                               *)
(***************************************************************************)
EXTENDS InFlightTracker, TLC

CONSTANTS m1, m2, m3   \* messages

\* m1 and m2 share a stage, m3 is in another; m1 and m3 share a shard.
MCShardOf == [k \in Keys |-> IF k = m2 THEN 2 ELSE 1]
MCStageOf == [k \in Keys |-> IF k = m3 THEN "capture" ELSE "authorize"]

Usd(amount) == [amount |-> amount, currency |-> "USD", exponent |-> 2]
OneMoney    == {Usd(1)}
\* The same currency with another exponent.
TwoExponents == {Usd(1), [Usd(1) EXCEPT !.exponent = 0]}

BothStages == {"authorize", "capture"}

Symmetry == Permutations(Workers) \cup Permutations(PublishCallers)
============================================================================
