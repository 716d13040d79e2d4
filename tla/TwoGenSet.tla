----------------------------- MODULE TwoGenSet -----------------------------
(***************************************************************************)
(* The bounded approximate-LRU set the emitter de-duplicates retries with  *)
(* (src/emit/emitter.go, type twoGenSet): two generations of keys, the     *)
(* older one discarded when the newer one fills.  A value of the type is a *)
(* record [cur, prev]; the nil prev of a fresh set is the empty set.       *)
(***************************************************************************)
EXTENDS Naturals, FiniteSets

CONSTANT DedupCap   \* keys per generation: 65536 in New

ASSUME DedupCapAssumption == DedupCap \in Nat \ {0}

NewTwoGenSet == [cur |-> {}, prev |-> {}]

\* The key is in one of the two generations, so seen returns true.
Remembered(gens, key) == key \in gens.cur \cup gens.prev

\* What seen leaves behind when the key is in neither generation: a full
\* current generation becomes the previous one, which is thrown away.
Remember(gens, key) ==
    IF Cardinality(gens.cur) >= DedupCap
    THEN [cur |-> {key}, prev |-> gens.cur]
    ELSE [cur |-> gens.cur \cup {key}, prev |-> gens.prev]
=============================================================================
