------------------------------ MODULE MCEmitter ------------------------------
(* Small instances of Emitter for TLC: the .cfg files give the constants.    *)
EXTENDS Emitter, TLC

\* Request goroutines, keys and pairs are interchangeable, and, as long as
\* nobody calls Close, the background flusher and the callers of Flush.
Symmetry == Permutations(Callers) \cup Permutations(Keys) \cup Permutations(Pairs)
                \cup Permutations(FlushCallers \cup {Loop})
=============================================================================
