------------------------- MODULE ObservationLedger -------------------------
(***************************************************************************)
(* What the emitter promises about observations, buffers and threads left  *)
(* out: an observation is refused and counted on the spot, or taken; a     *)
(* taken one is delivered or counted as lost; a count is reported once.    *)
(* Emitter implements this when a failing export delivers nothing.         *)
(***************************************************************************)
EXTENDS Naturals, FiniteSets

CONSTANTS Observations,  \* everything a program may record
          Reasons,       \* why one may be dropped
          Lost           \* the reason of a taken one: "export"

VARIABLES pending,     \* taken, neither delivered nor lost yet
          delivered,   \* with the backend
          unreported,  \* reason -> dropped, the backend not told yet
          reported     \* reason -> dropped, and the backend told

ledger == <<pending, delivered, unreported, reported>>

Known == pending \cup delivered \cup UNION {unreported[r] \cup reported[r] : r \in Reasons}

Init == /\ pending = {} /\ delivered = {}
        /\ unreported = [r \in Reasons |-> {}]
        /\ reported = [r \in Reasons |-> {}]

\* A new observation is taken.
Take(o) ==
    /\ o \notin Known
    /\ pending' = pending \cup {o}
    /\ UNCHANGED <<delivered, unreported, reported>>

\* A new observation is refused, and counted.
Refuse(o, reason) ==
    /\ o \notin Known /\ reason # Lost
    /\ unreported' = [unreported EXCEPT ![reason] = @ \cup {o}]
    /\ UNCHANGED <<pending, delivered, reported>>

\* Taken observations reach the backend.
Deliver(batch) ==
    /\ delivered' = delivered \cup batch
    /\ pending' = pending \ batch
    /\ UNCHANGED <<unreported, reported>>

\* Taken observations are given up, and counted.
Lose(batch) ==
    /\ unreported' = [unreported EXCEPT ![Lost] = @ \cup batch]
    /\ pending' = pending \ batch
    /\ UNCHANGED <<delivered, reported>>

\* The backend learns of drops it was not told of before.
Report(units) ==
    /\ \A r \in Reasons : units[r] \subseteq unreported[r]
    /\ unreported' = [r \in Reasons |-> unreported[r] \ units[r]]
    /\ reported' = [r \in Reasons |-> reported[r] \cup units[r]]
    /\ UNCHANGED <<pending, delivered>>

Next == \/ \E o \in Observations : Take(o) \/ \E r \in Reasons : Refuse(o, r)
        \/ \E batch \in SUBSET pending : Deliver(batch) \/ Lose(batch)
        \/ \E units \in [Reasons -> SUBSET Observations] : Report(units)

Spec == Init /\ [][Next]_ledger
=============================================================================
