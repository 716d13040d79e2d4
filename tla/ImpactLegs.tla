----------------------------- MODULE ImpactLegs -----------------------------
(***************************************************************************)
(* The legs of an impact report that are computed from outcome events      *)
(* (src/engine): realized loss, deferred value, customers hit and the      *)
(* suggested severity, as operators on a log of recorded outcomes and a    *)
(* request.  The queries of query.Querier appear as sets of outcomes, as   *)
(* src/query/memq answers them.                                            *)
(*                                                                         *)
(* One flow and one currency: the legs are computed per flow and currency  *)
(* and never combined across either.                                       *)
(***************************************************************************)
EXTENDS Integers, FiniteSets, Sequences, FiniteSetsExt

CONSTANTS
    Payments,        \* entity ids
    CustomerOf,      \* entity -> customer
    StageIndex,      \* stage -> place in the registry's order of the flow, or -1
    Deadline,        \* stages with an SLA -> deadline
    LostOnBreach,    \* those of them whose breach means lost
    Floors,          \* lowest age of each age bucket, youngest bucket first
    MinLookback,     \* minEventsLookback
    Thresholds       \* severity ladder, most severe first: money per time unit

Stages  == DOMAIN StageIndex
Results == {"success", "failed", "deferred", "abandoned", "unknown"}

ASSUME LegsAssumption ==
    /\ StageIndex \in [Stages -> Nat \cup {-1}] /\ Deadline \in [DOMAIN Deadline -> Nat \ {0}]
    /\ LostOnBreach \subseteq DOMAIN Deadline /\ DOMAIN Deadline \subseteq Stages
    /\ Floors \in Seq(Nat) /\ Floors # <<>> /\ Floors[1] = 0
    /\ \A i, j \in DOMAIN Floors : i < j => Floors[i] < Floors[j]
    /\ MinLookback \in Nat /\ Thresholds \in Seq(Nat \ {0})

\* A request: a half-open window and the stages its scope admits.
Request(from, to, stages) == [from |-> from, to |-> to, stages |-> stages]

\* QueryEvents: the outcomes of a result in the scope and a range of time.
Matching(log, req, result, from, to) ==
    {o \in log : /\ o.result = result /\ o.stage \in req.stages
                 /\ from <= o.at /\ o.at < to}

InWindow(log, req, result) == Matching(log, req, result, req.from, req.to)

Of(entity, outcomes) == {o \in outcomes : o.entity = entity}
Entities(outcomes)   == {o.entity : o \in outcomes}

\* Mutant of Largest: the amounts of all the copies are added up.
LargestSummed(outcomes) == MapThenSumSet(LAMBDA o : o.amount, outcomes)

\* MaxMinor of a group: the largest single amount, so that redelivered events
\* collapse.
Largest(outcomes) == Max({o.amount : o \in outcomes})
-----------------------------------------------------------------------------
(* Realized loss *)

\* Mutant of Recovered: only a success at a stage of the failure counts.
RecoveredAtStage(log, req) ==
    {e \in Entities(InWindow(log, req, "success")) :
        \A f \in Of(e, InWindow(log, req, "failed")) :
            \E s \in Of(e, InWindow(log, req, "success")) : s.stage = f.stage}

\* The entities with a success, at whatever stage and time of the window.
Recovered(log, req) == Entities(InWindow(log, req, "success"))

Lost(log, req) == Entities(InWindow(log, req, "failed")) \ Recovered(log, req)

\* What a lost entity counts for.
LossOf(log, req, entity) == Largest(Of(entity, InWindow(log, req, "failed")))

RealizedMinor(log, req) ==
    SumFunction([e \in Lost(log, req) |-> LossOf(log, req, e)])
-----------------------------------------------------------------------------
(* Deferred value, from events *)

\* eventsLookback: at least minEventsLookback and the longest deadline.
Lookback == Max({MinLookback} \cup {Deadline[s] : s \in DOMAIN Deadline})

DeferredSince(req) == req.from - Lookback

Buckets == 1 .. Len(Floors)

\* Mutant of CutEnd: an event exactly as old as the floor is left out.
CutEndExclusive(to, b) == to - Floors[b]

\* The half-open end of the range of bucket b: an outcome exactly as old as
\* the floor of the bucket belongs to it.
CutEnd(to, b) == IF Floors[b] = 0 THEN to ELSE to - Floors[b] + 1

Deferrals(log, req, b) ==
    Matching(log, req, "deferred", DeferredSince(req), CutEnd(req.to, b))

\* An item: one entity deferred at one stage.
Item(o) == <<o.stage, o.entity>>

Items(log, req) == {Item(o) : o \in UNION {Deferrals(log, req, b) : b \in Buckets}}

DeferralsOf(log, req, item) ==
    {o \in UNION {Deferrals(log, req, b) : b \in Buckets} : Item(o) = item}

\* The oldest range the item appears in.
BucketOf(log, req, item) ==
    Max({b \in Buckets : \E o \in Deferrals(log, req, b) : Item(o) = item})

Terminals(log, req) ==
    UNION {Matching(log, req, r, DeferredSince(req), req.to)
           : r \in {"success", "failed", "abandoned"}}

\* Mutant of Resolves: only an outcome of the same stage resolves.
ResolvesSameStage(stage, terminal) == terminal = stage

\* The registry orders a stage and has another after it; a stage it does not
\* order has none after it and comes after none.
Before(stage, other) == 0 <= StageIndex[stage] /\ StageIndex[stage] < StageIndex[other]

\* A terminal outcome at the stage itself or at a later one.
Resolves(stage, terminal) == terminal = stage \/ Before(stage, terminal)

\* The items nothing has resolved: no terminal outcome at their stage or a
\* later one, and no deferral at a later one.
InFlight(log, req) ==
    {i \in Items(log, req) :
        /\ ~ \E t \in Of(i[2], Terminals(log, req)) : Resolves(i[1], t.stage)
        /\ ~ \E j \in Items(log, req) : j[2] = i[2] /\ Before(i[1], j[1])}

DeferredOf(log, req, item) == Largest(DeferralsOf(log, req, item))

DeferredMinor(log, req) ==
    SumFunction([i \in InFlight(log, req) |-> DeferredOf(log, req, i)])

\* The whole bucket is past the stage's deadline.
Breached(stage, b) == stage \in DOMAIN Deadline /\ Deadline[stage] <= Floors[b]

Breaches(log, req) ==
    {i \in InFlight(log, req) : Breached(i[1], BucketOf(log, req, i))}

ProjectedLostMinor(log, req) ==
    SumFunction([i \in {j \in Breaches(log, req) : j[1] \in LostOnBreach} |-> DeferredOf(log, req, i)])
-----------------------------------------------------------------------------
(* Customers and severity *)

Hit(log, req) == {CustomerOf[e] : e \in Entities(InWindow(log, req, "failed"))}

AtRisk(log, req) == RealizedMinor(log, req) + DeferredMinor(log, req)

\* SuggestSeverity: the most severe threshold the rate reaches, or none.
Severity(log, req) ==
    LET reached == {i \in DOMAIN Thresholds :
                       AtRisk(log, req) >= Thresholds[i] * (req.to - req.from)}
    IN  IF reached = {} THEN 0 ELSE Min(reached)
=============================================================================
