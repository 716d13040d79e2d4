----------------------------- MODULE ReportLegs -----------------------------
(***************************************************************************)
(* The legs of an impact report (package engine) as functions of what a    *)
(* querier serves, a registry and a request: a window, a scope of label    *)
(* filters and a sequence of flow names.  A leg that has an error instead  *)
(* of a value is the empty set.  A money map is a function on the          *)
(* currencies it has an entry for.                                         *)
(***************************************************************************)
EXTENDS MemQuerier, Registry, TLC

CONSTANTS
    AgeBucketOrder,  \* names of the age buckets, youngest first
    AgeFloors,       \* lowest age of each
    MinLookback,     \* minEventsLookback
    DefaultTopN,     \* accounts the customers leg lists
    Hour, HoursPerWeek,
    Scale,           \* units of an entry count: halves of halves are whole
    BandFactor       \* intervalSigma times madToStdDev, rounded

ASSUME ReportAssumption ==
    /\ {Hour, HoursPerWeek, BandFactor, DefaultTopN} \subseteq Nat \ {0} /\ MinLookback \in Nat
    /\ Scale \in Nat \ {0} /\ Scale % 4 = 0
    /\ DOMAIN AgeFloors = DOMAIN AgeBucketOrder /\ AgeFloors \in Seq(Nat)

\* The rows' money, added up per currency.
Totals(rows, Currency(_), Minor(_)) ==
    [c \in {Currency(r) : r \in rows} |-> SumFunction([r \in {x \in rows : Currency(x) = c} |-> Minor(r)])]

Money(map, c) == IF c \in DOMAIN map THEN map[c] ELSE 0

\* Rounded to the nearest, half up.
Round(n, d) == (2 * n + d) \div (2 * d)

FlowById(reg, id) == {f \in reg.flows : f.name.id = id}

\* A reserved key overrides the scope's.
With(filters, key, value) ==
    [k \in DOMAIN filters \cup {key} |-> IF k = key THEN value ELSE filters[k]]

InflightFilters(req) ==
    IF req.flows = <<>> THEN <<req.scope>>
    ELSE [i \in DOMAIN req.flows |-> With(req.scope, "flow", req.flows[i])]

FlowFilters(req, outcome) ==
    [i \in DOMAIN InflightFilters(req) |-> With(InflightFilters(req)[i], "outcome", outcome)]

\* The rows of a sequence of answers, with the place of the query they
\* answer; no answer when one of the queries has none.
Gather(answers) ==
    IF \E i \in DOMAIN answers : answers[i] = None THEN None
    ELSE Some(UNION {{[query |-> i, row |-> r] : r \in UNION answers[i]} : i \in DOMAIN answers})

EventsPerFlow(store, req, outcome, by, agg) ==
    Gather([i \in DOMAIN FlowFilters(req, outcome) |->
        QueryEvents(store, [filters |-> FlowFilters(req, outcome)[i], groupBy |-> by, range |-> req.window, agg |-> agg])])

Counter(store, metric, filters, by, range, step) ==
    QueryMetric(store, [metric |-> metric, agg |-> "sum", filters |-> filters, groupBy |-> by,
                        range |-> range, step |-> step])

\* The sum of the points of a series.
LevelOf(series) == SumFunction([p \in series.points |-> p.value])

-----------------------------------------------------------------------------
(* Realized loss *)

\* Mutant of LossOf: every copy of a failure counts.
LossOfAll(g) == g.row.sum

\* A group of failures counts for its largest amount, never for their sum.
LossOf(g) == g.row.max

RealizedFromEvents(store, req) ==
    {LET recovered == {g.row.key["entity"] : g \in won}
         lost      == {g \in failed : g.row.key["entity"] \notin recovered}
     IN  [count |-> Cardinality(lost),
          byCurrency |-> Totals(lost, LAMBDA g : g.row.key["currency"], LossOf)]
       : won    \in EventsPerFlow(store, req, "success", {"currency", "entity"}, "groups"),
         failed \in EventsPerFlow(store, req, "failed", {"currency", "entity"}, "max_per_group")}

\* An upper bound, not de-duplicated by entity.
RealizedFromMetrics(store, req) ==
    LET filters == FlowFilters(req, "failed") IN
    {[count |-> SumFunction([s \in counts |-> LevelOf(s.row)]),
      byCurrency |-> Totals(values, LAMBDA s : s.row.labels["currency"], LAMBDA s : LevelOf(s.row))]
       : values \in Gather([i \in DOMAIN filters |-> Counter(store, "biz_value_total", filters[i], {"currency"}, req.window, 0)]),
         counts \in Gather([i \in DOMAIN filters |-> Counter(store, "biz_txn_total", filters[i], {}, req.window, 0)])}

RealizedLeg(store, req) ==
    CASE store.caps.events  -> RealizedFromEvents(store, req)
      [] ~ store.caps.events /\ store.caps.metrics -> RealizedFromMetrics(store, req)
      [] OTHER -> None

-----------------------------------------------------------------------------
(* Deferred value *)

BucketIndex(bucket) == CHOOSE i \in DOMAIN AgeBucketOrder : AgeBucketOrder[i] = bucket

\* The bucket is entirely past the deadline of the stage.
Breached(reg, flow, stage, bucket) ==
    \E f \in FlowById(reg, flow) : \E s \in f.sla :
        s.stage.id = stage /\ s.deadline <= AgeFloors[BucketIndex(bucket)]

BreachedAndLost(reg, flow, stage, bucket) ==
    /\ Breached(reg, flow, stage, bucket)
    /\ \E f \in FlowById(reg, flow) : \E s \in f.sla : s.stage.id = stage /\ s.onBreach = "lost"

BreachedRows(reg, rows) == {r \in rows : Breached(reg, r.flow, r.stage, r.bucket)}

\* A deferred leg, from rows [flow, stage, bucket, currency, minor].
DeferredLeg(reg, rows, count, breaches) ==
    [byCurrency |-> Totals(rows, LAMBDA r : r.currency, LAMBDA r : r.minor),
     byBucket   |-> [b \in {r.bucket : r \in rows} |->
                       Totals({r \in rows : r.bucket = b}, LAMBDA r : r.currency, LAMBDA r : r.minor)],
     oldest     |-> IF rows = {} THEN 0 ELSE Max({AgeFloors[BucketIndex(r.bucket)] : r \in rows}),
     projected  |-> Totals({r \in rows : BreachedAndLost(reg, r.flow, r.stage, r.bucket)},
                           LAMBDA r : r.currency, LAMBDA r : r.minor),
     count      |-> count, breaches |-> breaches]

InflightSeries(store, req, metric) ==
    Gather([i \in DOMAIN InflightFilters(req) |->
        Counter(store, metric, InflightFilters(req)[i], {"flow", "stage", "age_bucket", "currency"}, req.window, 0)])

\* A gauge row, tagged with the query it answers.
GaugeRow(s) == [query |-> s.query, flow |-> s.row.labels["flow"], stage |-> s.row.labels["stage"],
                bucket |-> s.row.labels["age_bucket"], currency |-> s.row.labels["currency"],
                minor |-> LevelOf(s.row)]

NonZero(series) == {r \in {GaugeRow(s) : s \in series} : r.minor # 0}

\* The number in flight and in breach is of the companion gauge.
GaugeLeg(reg, values, counts) ==
    DeferredLeg(reg, values, SumFunction([r \in counts |-> r.minor]),
                SumFunction([r \in BreachedRows(reg, counts) |-> r.minor]))

DeferredFromGauge(store, reg, req) ==
    {[saw |-> values # {}, leg |-> GaugeLeg(reg, NonZero(values), NonZero(counts))]
       : values \in InflightSeries(store, req, "biz_inflight_value"),
         counts \in InflightSeries(store, req, "biz_inflight_count")}

Unlisted == [stages |-> <<>>, sla |-> {}]

StageAt(f, id) ==
    LET at == {i \in DOMAIN f.stages : f.stages[i].id = id} IN IF at = {} THEN -1 ELSE Min(at) - 1

LongestDeadline(flows) == Max({0} \cup {s.deadline : s \in UNION {f.sla : f \in flows}})

\* The item arithmetic of ImpactLegs, for a flow and its lookback.
Flow(f, stages, lookback) == INSTANCE ImpactLegs WITH
    Payments     <- {}, CustomerOf <- <<>>, Thresholds <- <<>>,
    StageIndex   <- [s \in stages |-> StageAt(f, s)],
    Deadline     <- [s \in {x.stage.id : x \in f.sla} |-> (CHOOSE x \in f.sla : x.stage.id = s).deadline],
    LostOnBreach <- {x.stage.id : x \in {y \in f.sla : y.onBreach = "lost"}},
    Floors       <- AgeFloors, MinLookback <- lookback

\* The items of a flow in flight among its events.  A payment keeps its currency.
ItemRows(f, events, stages, lookback, window) ==
    LET log   == {[entity |-> e.labels["entity"], stage |-> e.labels["stage"], result |-> e.labels["outcome"],
                   at |-> e.at, amount |-> e.amount] : e \in events}
        asked == Flow(f, stages, lookback)!Request(window.from, window.to, stages)
        row(i) == [stage |-> i[1], entity |-> i[2],
                   currency |-> (CHOOSE e \in events : e.labels["entity"] = i[2]).labels["currency"],
                   bucket |-> AgeBucketOrder[Flow(f, stages, lookback)!BucketOf(log, asked, i)],
                   minor |-> Flow(f, stages, lookback)!DeferredOf(log, asked, i)]
    IN  {row(i) : i \in Flow(f, stages, lookback)!InFlight(log, asked)}

StagesOf(events) == {e.labels["stage"] : e \in events}

\* How far back deferrals are looked for: for the flow the filters name, else
\* for every flow.
EventsLookback(reg, filters) ==
    LET asked == IF "flow" \in DOMAIN filters THEN FlowById(reg, filters["flow"]) ELSE reg.flows
    IN  Max({MinLookback, LongestDeadline(asked)})

\* The rows of one flow, which need not be registered.
FlowRows(reg, id, events, lookback, window) ==
    LET listed == IF FlowById(reg, id) = {} THEN {Unlisted} ELSE FlowById(reg, id)
    IN  {[flow |-> id, stage |-> r.stage, entity |-> r.entity, currency |-> r.currency,
          bucket |-> r.bucket, minor |-> r.minor] :
          r \in UNION {ItemRows(f, events, StagesOf(events), lookback, window) : f \in listed}}

\* The rows of the answers to one entry of the request's flow filters, flow by
\* flow.
DeferredRows(store, reg, req, filters) ==
    LET scope  == [k \in DOMAIN filters \ {"outcome"} |-> filters[k]]
        events == {e \in store.events : MatchFilters(e.labels, scope)}
        of(id) == {e \in events : e.labels["flow"] = id}
    IN  UNION {FlowRows(reg, id, of(id), EventsLookback(reg, filters), req.window) :
               id \in {e.labels["flow"] : e \in events}}

EventLeg(reg, rows) == DeferredLeg(reg, rows, Cardinality(rows), Cardinality(BreachedRows(reg, rows)))

\* A flow named twice has its items once.
DeferredFromEvents(store, reg, req) ==
    IF "events" \in store.down THEN None
    ELSE {EventLeg(reg, UNION {DeferredRows(store, reg, req, InflightFilters(req)[i]) :
                               i \in DOMAIN InflightFilters(req)})}

\* Mutant of Authority: only a level above zero makes the gauge the source.
AuthorityNonZero(store, g) == DOMAIN g.leg.byCurrency # {} \/ ~ store.caps.events

\* The gauge is the source whenever it has any series, one of zero included.
Authority(store, g) == g.saw \/ ~ store.caps.events

Deferred(store, reg, req) ==
    IF store.caps.metrics
    THEN UNION {IF Authority(store, g) THEN {g.leg} ELSE DeferredFromEvents(store, reg, req)
                  : g \in DeferredFromGauge(store, reg, req)}
    ELSE IF store.caps.events THEN DeferredFromEvents(store, reg, req) ELSE None

-----------------------------------------------------------------------------
(* Customers hit, recoveries or not *)

\* The largest value of one currency ranks an account, never a sum of two.
MaxCurrency(byCurrency) ==
    IF DOMAIN byCurrency = {} THEN 0 ELSE Max({byCurrency[c] : c \in DOMAIN byCurrency})

\* The first n accounts; equal ones are in a fixed order.
TopN(gross, n) ==
    SubSeq(SetToSortSeq(DOMAIN gross, LAMBDA x, y : MaxCurrency(gross[x]) > MaxCurrency(gross[y])),
           1, Min({n, Cardinality(DOMAIN gross)}))

Customers(store, req) ==
    {LET of(id)    == {g \in rows : g.row.key["customer"] = id}
         gross     == [id \in {g.row.key["customer"] : g \in rows} |->
                         Totals(of(id), LAMBDA g : g.row.key["currency"], LAMBDA g : g.row.sum)]
     IN  [gross |-> gross, distinct |-> Cardinality(DOMAIN gross), top |-> TopN(gross, DefaultTopN)]
       : rows \in EventsPerFlow(store, req, "failed", {"currency", "customer", "segment"}, "groups")}

-----------------------------------------------------------------------------
(* Baseline and unrealized value *)

HourlyInstants(w) == {t \in w.from .. w.to - 1 : t % Hour = 0}

HourOfWeek(t) == (t \div Hour) % HoursPerWeek

\* The middle of a sequence in order, the mean of the two middles if even.
Median(s) ==
    LET sorted == SortSeq(s, LAMBDA x, y : x < y)
        n      == Len(s)
    IN  IF n % 2 = 1 THEN sorted[n \div 2 + 1] ELSE (sorted[n \div 2] + sorted[n \div 2 + 1]) \div 2

Abs(n) == IF n < 0 THEN -n ELSE n

Mad(s, med) == Median([i \in DOMAIN s |-> Abs(s[i] - med)])

\* Scaled counts of the samples of an hour of the week within the lookback.
Basis(history, t, target, weeks) ==
    LET first == Min(target)
        used  == {s \in history : /\ first - weeks * HoursPerWeek * Hour <= s.at /\ s.at < first
                                  /\ HourOfWeek(s.at) = HourOfWeek(t)}
    IN  [i \in 1 .. Cardinality(used) |-> Scale * SetToSortSeq(used, LAMBDA x, y : x.at < y.at)[i].value]

Band(b, med) == BandFactor * Mad(b, med)

Entry(b, med, band) == [n |-> Len(b), expected |-> med, lower |-> Max({0, med - band}), upper |-> med + band]

Expectation(b) == IF b = <<>> THEN [n |-> 0] ELSE Entry(b, Median(b), Band(b, Median(b)))

Expected(history, target, weeks) == [t \in target |-> Expectation(Basis(history, t, target, weeks))]

\* Entries per hour and currency at the first stage of the flow.
HourlyEntries(store, f, range) ==
    {[c \in {s.labels["currency"] : s \in series} |->
        UNION {s.points : s \in {x \in series : x.labels["currency"] = c}}]
       : series \in Counter(store, "biz_txn_total", [flow |-> f.name.id, stage |-> f.stages[1].id],
                            {"currency"}, range, Hour)}

\* A failed query sums to nothing.
SumMetric(store, metric, filters, window) ==
    MapThenSumSet(LevelOf, UNION Counter(store, metric, filters, {}, window, 0))

FlowAllowsCurrency(f, currency) == f.currencies = {} \/ \E c \in f.currencies : c.id = currency

\* The average captured value: of the events, else of the counters, else the
\* registry's estimate.
AovMinor(store, f, currency, window) ==
    LET filters == [flow |-> f.name.id, outcome |-> "success", currency |-> currency, stage |-> ValueStage(f).id]
        groups  == UNION QueryEvents(store, [filters |-> filters, groupBy |-> {}, range |-> window, agg |-> "groups"])
        count   == MapThenSumSet(LAMBDA g : g.count, groups)
        value   == SumMetric(store, "biz_value_total", filters, window)
        txns    == SumMetric(store, "biz_txn_total", filters, window)
    IN  CASE count > 0 -> {Round(MapThenSumSet(LAMBDA g : g.sum, groups), count)}
          [] count = 0 /\ txns > 0 /\ value > 0 -> {Round(value, txns)}
          [] OTHER -> IF FlowAllowsCurrency(f, currency) THEN EstimateMinor(f, NoText) ELSE None

ClampFraction(fraction) == Min({100, Max({0, fraction})})

Recovery(f) == IF f.recovery = None THEN 0 ELSE ClampFraction((CHOOSE r \in f.recovery : TRUE).fraction)

ShortfallValue(expected, observed, aov, recovery) == Max({0, expected - observed}) * aov * (100 - recovery)

\* Mutant of ObservedRange: the window as the request has it.
ObservedRangeRaw(window, target) == window

\* The hours the estimate is over: backends bucket from the start of a range.
ObservedRange(window, target) == [from |-> Min(target), to |-> Max(target) + Hour]

HourCount(samples, t) == MapThenSumSet(LAMBDA s : s.value, {s \in samples : s.at \div Hour = t \div Hour})

\* The range of a currency from what was expected and seen; none for one whose
\* every hour is without history.
RangeOf(f, c, exp, seen, aov) ==
    LET full  == {t \in DOMAIN exp : exp[t].n > 0}
        total(bound) == Round(MapThenSumSet(LAMBDA t : ShortfallValue(exp[t][bound], seen[t], aov, Recovery(f)), full),
                              100 * Scale)
    IN  IF full = {} THEN None
        ELSE {[currency |-> c, low |-> total("lower"), mid |-> total("expected"), high |-> total("upper")]}

Seen(observed, c, target) ==
    [t \in target |-> Scale * (IF c \in DOMAIN observed THEN HourCount(observed[c], t) ELSE 0)]

\* One flow's ranges.
UnrealizedOf(store, f, window, target) ==
    LET weeks    == CHOOSE w \in f.weeks : TRUE
        history  == HourlyEntries(store, f, [from |-> Min(target) - weeks * HoursPerWeek * Hour, to |-> Min(target)])
        observed == HourlyEntries(store, f, ObservedRange(window, target))
    IN  {UNION {UNION {RangeOf(f, c, Expected(h[c], target, weeks), Seen(o, c, target), aov)
                         : aov \in AovMinor(store, f, c, window)} : c \in DOMAIN h}
           : h \in history, o \in observed}

\* The flows of the request the estimate can be made for: registered, with a
\* baseline, and with the history it needs.
SizableFlows(store, reg, req) ==
    {x \in (DOMAIN req.flows) \X reg.flows :
        /\ x[2] \in FlowById(reg, req.flows[x[1]])
        /\ \E w \in x[2].weeks : store.caps.metricWeeks = 0 \/ store.caps.metricWeeks >= w}

NoEstimate == [unavailable |-> TRUE, low |-> <<>>, mid |-> <<>>, high |-> <<>>]

\* The rows' ranges, added up; answers are of the flows that can be sized.
RangeTotals(rows) ==
    IF rows = {} THEN NoEstimate
    ELSE [unavailable |-> FALSE,
          low  |-> Totals(rows, LAMBDA r : r.row.currency, LAMBDA r : r.row.low),
          mid  |-> Totals(rows, LAMBDA r : r.row.currency, LAMBDA r : r.row.mid),
          high |-> Totals(rows, LAMBDA r : r.row.currency, LAMBDA r : r.row.high)]

FromAnswers(answers) ==
    IF \E x \in DOMAIN answers : answers[x] = None THEN None
    ELSE {RangeTotals(UNION {{[query |-> x[1], row |-> r] : r \in UNION answers[x]} : x \in DOMAIN answers})}

Unrealized(store, reg, req) ==
    LET target == HourlyInstants(req.window) IN
    IF ~ store.caps.metrics \/ target = {} \/ req.flows = <<>> THEN {NoEstimate}
    ELSE FromAnswers([x \in SizableFlows(store, reg, req) |-> UnrealizedOf(store, x[2], req.window, target)])

-----------------------------------------------------------------------------
(* The report *)

\* The most severe level any currency's rate reaches, per unit of time; the
\* ladder is read from its top.
SuggestSeverity(reg, window, atRisk) ==
    LET reached(c) == {i \in DOMAIN reg.severity : atRisk[c] >= reg.severity[i].floor * (window.to - window.from)}
        best       == UNION {IF reached(c) = {} THEN {} ELSE {Min(reached(c))} : c \in DOMAIN atRisk}
    IN  IF window.to <= window.from \/ best = {} THEN None ELSE Some(Min(best))

NoMoney == [x \in {} |-> 0]

MoneyOf(leg) == IF leg = None THEN NoMoney ELSE (CHOOSE x \in leg : TRUE).byCurrency

AtRisk(realized, deferred) ==
    [c \in DOMAIN realized \cup DOMAIN deferred |-> Money(realized, c) + Money(deferred, c)]

\* A leg with an error is marked as unavailable.
Report(reg, req, realized, deferred, unrealized, customers) ==
    [realized   |-> [unavailable |-> realized = None, byCurrency |-> MoneyOf(realized)],
     deferred   |-> [unavailable |-> deferred = None, byCurrency |-> MoneyOf(deferred)],
     unrealized |-> IF unrealized = None THEN NoEstimate ELSE CHOOSE x \in unrealized : TRUE,
     customers  |-> customers,
     severity   |-> SuggestSeverity(reg, req.window, AtRisk(MoneyOf(realized), MoneyOf(deferred)))]

Compute(store, reg, req) ==
    Report(reg, req, RealizedLeg(store, req), Deferred(store, reg, req), Unrealized(store, reg, req),
           IF store.caps.events THEN Customers(store, req) ELSE None)

-----------------------------------------------------------------------------
(* Coverage of a provider's ledger *)

LedgerRowValid(r) ==
    /\ r.outcome \in {"success", "failed", "deferred"} /\ r.amount >= 0 /\ r.count >= 0
    /\ r.count = 0 => r.amount = 0

\* Mutant of SuccessFilters: success is read at every stage.
SuccessFiltersAnyStage(f) == [flow |-> f.name.id, outcome |-> "success"]

\* Success is read at the value stage, where a transaction counts once.
SuccessFilters(f) == [flow |-> f.name.id, outcome |-> "success", stage |-> ValueStage(f).id]

TelemetrySuccessValue(store, f, window) ==
    IF store.caps.metrics
    THEN {Totals(series, LAMBDA s : s.labels["currency"], LevelOf)
            : series \in Counter(store, "biz_value_total", SuccessFilters(f), {"currency"}, window, 0)}
    ELSE {Totals(groups, LAMBDA g : g.key["currency"], LAMBDA g : g.sum)
            : groups \in QueryEvents(store, [filters |-> SuccessFilters(f), groupBy |-> {"currency"},
                                             range |-> window, agg |-> "groups"])}

\* A slice: what telemetry and the ledger have of a flow and a currency.
Slices(store, f, window, success) ==
    LET rows(c) == {r \in success : r.currency = c}
        led(c)  == MapThenSumSet(LAMBDA r : r.amount, rows(c))
    IN  {{[flow |-> f.name.id, currency |-> c, tel |-> Money(tel, c), led |-> led(c)]
            : c \in {x \in {r.currency : r \in success} : led(x) > 0}}
           : tel \in TelemetrySuccessValue(store, f, window)}

\* The ratio of a slice is no more than one.
Ratio(s) == [num |-> Min({s.tel, s.led}), den |-> s.led]

Lower2(x, y) == x.num * y.den <= y.num * x.den

\* The worst ratio; no result when a flow of the ledger is not registered or a
\* query fails, and unavailable when no slice has value.
Coverage(store, reg, req, ledger) ==
    LET success == {r \in ledger : r.outcome = "success"}
        booked  == {r.flow : r \in success}
        flows   == IF req.flows = <<>> THEN booked ELSE ToSet(req.flows) \cap booked
        of(id)  == {r \in success : r.flow = id}
        answers == [id \in flows |->
                      UNION {Slices(store, f, req.window, of(id)) : f \in FlowById(reg, id)}]
        slices  == UNION {UNION answers[id] : id \in flows}
        ratios  == {Ratio(s) : s \in slices}
    IN  IF \E id \in flows : answers[id] = None THEN None
        ELSE IF slices = {} THEN {[unavailable |-> TRUE]}
        ELSE {[unavailable |-> FALSE, slices |-> slices,
               ratio |-> CHOOSE r \in ratios : \A o \in ratios : Lower2(r, o)]}

\* The command reads the rows from a file and refuses it for one bad row.
Reconciled(store, reg, req, ledger) ==
    IF \A r \in ledger : LedgerRowValid(r) THEN Coverage(store, reg, req, ledger) ELSE None
=============================================================================
