----------------------------- MODULE MemQuerier -----------------------------
(***************************************************************************)
(* The read boundary of the engine (package query) as memq answers it from *)
(* the points and outcome events a store holds.                            *)
(*                                                                         *)
(* A point is [n, name, labels, at, value], n its place in the store; an   *)
(* event has its labels, its instant, its amount and a place as well.      *)
(* Labels are functions; a key a function leaves out reads as the empty    *)
(* text.  An answer is a set of rows in a set: a query the store does not  *)
(* serve, or that fails, has no answer.                                    *)
(***************************************************************************)
EXTENDS Integers, FiniteSets, FiniteSetsExt

GaugeFamilies == {"biz_inflight_value", "biz_inflight_count"}

Label(labels, k) == IF k \in DOMAIN labels THEN labels[k] ELSE ""

InRange(t, r) == r.from <= t /\ t < r.to

MatchFilters(labels, filters) == \A k \in DOMAIN filters : Label(labels, k) = filters[k]

GroupKey(labels, by) == [k \in by |-> Label(labels, k)]

-----------------------------------------------------------------------------
(* Metrics *)

\* A counter is filtered to the range, a level is kept from before it.
MatchingPoints(store, qy) ==
    {p \in store.points :
        /\ p.name = qy.metric /\ MatchFilters(p.labels, qy.filters)
        /\ IF qy.metric \in GaugeFamilies THEN p.at < qy.range.to ELSE InRange(p.at, qy.range)}

\* The last sample of each series before the boundary, the first of a tie.
Levels(points, to) ==
    LET before == {p \in points : p.at < to} IN
    {p \in before : \A q \in before :
        q.labels = p.labels => q.at < p.at \/ (q.at = p.at /\ p.n <= q.n)}

\* The points a bucket is made of; their values are added up.
Reduced(points, from, to, gauge) ==
    IF gauge THEN Levels(points, to) ELSE {p \in points : InRange(p.at, [from |-> from, to |-> to])}

Aggregate(points, from, to, agg, gauge) ==
    LET kept == Reduced(points, from, to, gauge) IN
    IF kept = {} THEN {}
    ELSE {IF agg = "count" THEN Cardinality(kept) ELSE SumFunction([p \in kept |-> p.value])}

\* One bucket for the whole range, or one for each step of it.
BucketPoints(points, qy, gauge) ==
    LET starts   == IF qy.step = 0 THEN {qy.range.from}
                    ELSE {t \in qy.range.from .. qy.range.to - 1 : (t - qy.range.from) % qy.step = 0}
        end(t)   == IF qy.step = 0 THEN qy.range.to ELSE Min({t + qy.step, qy.range.to})
    IN  UNION {{[at |-> t, value |-> v] : v \in Aggregate(points, t, end(t), qy.agg, gauge)} : t \in starts}

QueryMetric(store, qy) ==
    LET matching == MatchingPoints(store, qy)
        keys     == {GroupKey(p.labels, qy.groupBy) : p \in matching}
        of(k)    == {p \in matching : GroupKey(p.labels, qy.groupBy) = k}
    IN  IF store.caps.metrics /\ "metrics" \notin store.down
        THEN {{[labels |-> k, points |-> BucketPoints(of(k), qy, qy.metric \in GaugeFamilies)] : k \in keys}}
        ELSE {}

-----------------------------------------------------------------------------
(* Events *)

MatchingEvents(store, qy) ==
    {e \in store.events : InRange(e.at, qy.range) /\ MatchFilters(e.labels, qy.filters)}

\* Money is read per group only within a currency.
CurrencyInvariant(qy) == "currency" \in DOMAIN qy.filters \cup qy.groupBy

Group(k, members, agg) ==
    [key |-> k, count |-> Cardinality(members),
     sum |-> SumFunction([e \in members |-> e.amount]),
     max |-> IF agg = "max_per_group" THEN Max({e.amount : e \in members}) ELSE 0]

QueryEvents(store, qy) ==
    LET matched == MatchingEvents(store, qy)
        keys    == {GroupKey(e.labels, qy.groupBy) : e \in matched}
        of(k)   == {e \in matched : GroupKey(e.labels, qy.groupBy) = k}
    IN  IF store.caps.events /\ "events" \notin store.down /\ CurrencyInvariant(qy)
        THEN {{Group(k, of(k), qy.agg) : k \in keys}}
        ELSE {}

\* Each verb reaches the side that owns its signal.
Combine(m, e) ==
    [points |-> m.points, events |-> e.events,
     caps |-> [metrics |-> m.caps.metrics, events |-> e.caps.events, metricWeeks |-> m.caps.metricWeeks],
     down |-> (m.down \cap {"metrics"}) \cup (e.down \cap {"events"})]
=============================================================================
