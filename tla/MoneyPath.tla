----------------------------- MODULE MoneyPath ------------------------------
(***************************************************************************)
(* From a payment to the numbers of its report: a service records what     *)
(* happens to payments, exports may lose the points or the event of a      *)
(* record, the tracker publishes what is in flight, the provider keeps its *)
(* books, Reconcile walks them page by page, and the legs of ReportLegs    *)
(* are read off what arrived.                                              *)
(*                                                                         *)
(* Every flow has an entry stage, "auth", and a value stage, "capture".    *)
(***************************************************************************)
EXTENDS ReportLegs

CONSTANTS
    Payments, FlowOf, CurrencyOf, AmountOf, CustomerOf,  \* payments and what stays of them
    Estimated,   \* payments whose amount is an estimate
    Documents,   \* registry documents
    Requests,
    PageSize,    \* intents per page of the provider's list
    Instants,    \* bound of the model: the instants something happens at
    LossyStages, \* bound of the model: stages whose records may be lost
    Quiet,       \* bound of the model: a walk begins later
    MaxRecords,  \* bound of the model: records before the walk's first page
    MaxLate,     \* bound of the model: records more between two of its pages
    MaxLost, MaxPublishes  \* bounds of the model

ASSUME MoneyPathAssumption ==
    /\ Instants \subseteq Nat /\ 0 \in Instants /\ IsFiniteSet(Instants)
    /\ PageSize \in Nat \ {0} /\ Payments \subseteq Nat \ {0} /\ IsFiniteSet(Payments)
    /\ AmountOf \in [Payments -> Nat \ {0}] /\ Estimated \subseteq Payments
    /\ \A d \in Documents : [i \in DOMAIN d.severity |-> d.severity[i].floor] \in Seq(Int)
    /\ \A req \in Requests : req.window \in [from : Nat, to : Nat] /\ req.flows \in Seq(STRING)

VARIABLES
    now,        \* the clock
    intents,    \* payment -> its intent at the provider: [status, error]
    created,    \* the payments of the provider's list, oldest first
    sent,       \* what processes recorded, and which signals of it arrived
    since,      \* payment -> when the tracker was told of it, or -1
    live,       \* the tracker's combos of the last Publish that had messages
    samples,    \* gauge points published
    published,  \* history: the Publishes, [at, payments]
    walk        \* Reconcile: [phase, cursor, began, read], and the intents listed at its start

provider == <<intents, created>>
tracker  == <<since, live, samples, published>>
vars     == <<now, provider, sent, tracker, walk>>

NoOne == 0

Init ==
    /\ now = 0
    /\ intents = [p \in Payments |-> [status |-> "none", error |-> FALSE]] /\ created = <<>>
    /\ sent = {}
    /\ since = [p \in Payments |-> -1] /\ live = {} /\ samples = {} /\ published = <<>>
    /\ walk = [phase |-> "idle", cursor |-> NoOne, began |-> 0, listed |-> {}, read |-> <<>>]

Tick ==
    /\ \E t \in Instants : t > now
    /\ now' = Min({t \in Instants : t > now})
    /\ UNCHANGED <<provider, sent, tracker, walk>>

-----------------------------------------------------------------------------
(* Recording *)

Lost(r) == (IF r.points THEN 0 ELSE 1) + (IF r.event THEN 0 ELSE 1)

\* A record of process q; its emitter suppresses a repeat.  An export that
\* fails loses its points or its event.
Record(q, p, stage, outcome) ==
    IF \E r \in sent : <<r.process, r.payment, r.stage, r.outcome>> = <<q, p, stage, outcome>>
    THEN sent' = sent
    ELSE /\ Cardinality(sent) < MaxRecords + (IF walk.phase = "paging" THEN MaxLate ELSE 0)
         /\ \E points, event \in BOOLEAN :
              LET r == [process |-> q, payment |-> p, stage |-> stage, outcome |-> outcome,
                        at |-> now, points |-> points, event |-> event]
              IN  /\ Lost(r) + MapThenSumSet(Lost, sent) <= MaxLost
                  /\ stage \notin LossyStages => Lost(r) = 0
                  /\ sent' = sent \cup {r}

\* Payments of a flow and currency come in their order.
Enter(p, outcome) ==
    /\ intents[p].status = "none"
    /\ \A o \in Payments : o < p /\ <<FlowOf[o], CurrencyOf[o]>> = <<FlowOf[p], CurrencyOf[p]>>
                          => intents[o].status # "none"
    /\ intents' = [intents EXCEPT ![p] = [status |-> "requires_payment_method", error |-> outcome = "failed"]]
    /\ created' = Append(created, p)
    /\ Record(1, p, "auth", outcome)
    /\ UNCHANGED <<now, tracker, walk>>

Open(p) == intents[p].status \in {"requires_payment_method", "processing"}

Settle(p) ==
    /\ Open(p)
    /\ intents' = [intents EXCEPT ![p] = [status |-> "succeeded", error |-> FALSE]]
    /\ since' = [since EXCEPT ![p] = -1]
    /\ Record(1, p, "capture", "success")
    /\ UNCHANGED <<now, created, live, samples, published, walk>>

\* A declined payment may be tried again.
Decline(p) ==
    /\ Open(p) /\ ~ intents[p].error
    /\ intents' = [intents EXCEPT ![p] = [status |-> "requires_payment_method", error |-> TRUE]]
    /\ since' = [since EXCEPT ![p] = -1]
    /\ Record(1, p, "capture", "failed")
    /\ UNCHANGED <<now, created, live, samples, published, walk>>

Postpone(p) ==
    /\ Open(p) /\ intents[p].status # "processing"
    /\ intents' = [intents EXCEPT ![p] = [status |-> "processing", error |-> FALSE]]
    /\ since' = [since EXCEPT ![p] = now]
    /\ Record(1, p, "capture", "deferred")
    /\ UNCHANGED <<now, created, live, samples, published, walk>>

\* The provider's event is delivered again, to another process.
Redeliver(r) ==
    /\ r.stage = "capture" /\ \A o \in sent : o.process = 1
    /\ Record(2, r.payment, r.stage, r.outcome)
    /\ UNCHANGED <<now, provider, tracker, walk>>

-----------------------------------------------------------------------------
(* The tracker *)

AgeBucket(p) ==
    AgeBucketOrder[Max({i \in DOMAIN AgeFloors : AgeFloors[i] <= now - since[p]})]

Combo(p) == [flow |-> FlowOf[p], stage |-> "capture", currency |-> CurrencyOf[p], age_bucket |-> AgeBucket(p)]

InFlight == {p \in Payments : since[p] >= 0}

\* A combo that emptied is published once more, as zero.
Retired == live \ {Combo(p) : p \in InFlight}

\* One with nothing to publish changes nothing.
Publish ==
    LET full   == {Combo(p) : p \in InFlight}
        in(c)  == {p \in InFlight : Combo(p) = c}
        sample(name, c, v) == [n |-> Len(published), name |-> name, labels |-> c, at |-> now, value |-> v]
    IN  /\ Len(published) < MaxPublishes
        /\ full \cup live # {}
        /\ \A i \in DOMAIN published : published[i].at < now
        /\ live' = full
        /\ samples' = samples
             \cup {sample("biz_inflight_value", c, SumFunction([p \in in(c) |-> AmountOf[p]])) : c \in full \cup Retired}
             \cup {sample("biz_inflight_count", c, Cardinality(in(c))) : c \in full \cup Retired}
        /\ published' = Append(published, [at |-> now, payments |-> InFlight])
        /\ UNCHANGED <<now, provider, sent, since, walk>>

-----------------------------------------------------------------------------
(* Reconcile *)

\* What an intent counts as; one still in flight counts as nothing.
Classify(intent) ==
    CASE intent.status = "succeeded"  -> {"success"}
      [] intent.status = "processing" -> {"deferred"}
      [] intent.status \in {"canceled", "requires_payment_method", "requires_confirmation", "requires_action"}
           /\ intent.error -> {"failed"}
      [] OTHER -> None

\* The list starts with the newest and continues after the cursor.
Older(cursor) ==
    LET newestFirst == Reverse(created)
        i == IF cursor = NoOne THEN 0 ELSE CHOOSE k \in DOMAIN newestFirst : newestFirst[k] = cursor
    IN  SubSeq(newestFirst, i + 1, Len(newestFirst))

\* Mutant of ListPage: it continues after as many intents as were read.
ListPageByOffset(cursor) ==
    LET rest == SubSeq(Reverse(created), Len(walk.read) + 1, Len(created))
    IN  [intents |-> SubSeq(rest, 1, Min({PageSize, Len(rest)})), hasMore |-> Len(rest) > PageSize]

ListPage(cursor) ==
    [intents |-> SubSeq(Older(cursor), 1, Min({PageSize, Len(Older(cursor))})),
     hasMore |-> Len(Older(cursor)) > PageSize]

NextCursor(page) == Last(page.intents)

\* The first page begins the walk.  An empty page, a page that ends the list
\* or one whose cursor does not move ends it.
Page ==
    LET page == ListPage(walk.cursor)
        read == [i \in DOMAIN page.intents |-> [payment |-> page.intents[i], as |-> Classify(intents[page.intents[i]])]]
        more == page.hasMore /\ page.intents # <<>> /\ NextCursor(page) # walk.cursor
    IN  /\ walk.phase \in {"idle", "paging"} /\ now > Quiet
        /\ walk' = [phase  |-> IF more THEN "paging" ELSE "done",
                    cursor |-> IF more THEN NextCursor(page) ELSE walk.cursor,
                    began  |-> IF walk.phase = "idle" THEN now ELSE walk.began,
                    listed |-> IF walk.phase = "idle" THEN ToSet(created) ELSE walk.listed,
                    read   |-> walk.read \o read]
        /\ UNCHANGED <<now, provider, sent, tracker>>

\* A page that fails, the first one or a later one, ends the walk without a
\* ledger.
PageFails ==
    /\ walk.phase \in {"idle", "paging"} /\ now > Quiet
    /\ walk' = [walk EXCEPT !.phase = "failed"]
    /\ UNCHANGED <<now, provider, sent, tracker>>

\* The rows of the walk, one per flow, currency and outcome.
Ledger ==
    LET kept == {i \in DOMAIN walk.read : walk.read[i].as # None}
        key(i) == [flow |-> FlowOf[walk.read[i].payment], currency |-> CurrencyOf[walk.read[i].payment],
                   outcome |-> CHOOSE o \in walk.read[i].as : TRUE]
        of(k) == {i \in kept : key(i) = k}
    IN  {[flow |-> k.flow, currency |-> k.currency, outcome |-> k.outcome, count |-> Cardinality(of(k)),
          amount |-> MapThenSumSet(LAMBDA i : AmountOf[walk.read[i].payment], of(k))] : k \in {key(i) : i \in kept}}

Next ==
    \/ Tick \/ Publish \/ Page \/ PageFails
    \/ \E p \in Payments : Settle(p) \/ Decline(p) \/ Postpone(p) \/ \E o \in {"success", "failed"} : Enter(p, o)
    \/ \E r \in sent : Redeliver(r)

Spec == Init /\ [][Next]_vars

-----------------------------------------------------------------------------
(* What a report reads *)

\* The labels of the counters.
Labels(r) == [flow |-> FlowOf[r.payment], stage |-> r.stage, outcome |-> r.outcome, currency |-> CurrencyOf[r.payment]]

\* An estimated amount rides the event, never the value counter.
Points ==
    {[n |-> r, name |-> "biz_txn_total", labels |-> Labels(r), at |-> r.at, value |-> 1] : r \in {x \in sent : x.points}}
    \cup {[n |-> r, name |-> "biz_value_total", labels |-> Labels(r), at |-> r.at, value |-> AmountOf[r.payment]]
            : r \in {x \in sent : x.points /\ x.payment \notin Estimated}}

Events ==
    {[n |-> r, at |-> r.at, amount |-> AmountOf[r.payment],
      labels |-> [flow |-> FlowOf[r.payment], stage |-> r.stage, outcome |-> r.outcome, currency |-> CurrencyOf[r.payment],
                  entity |-> r.payment, customer |-> CustomerOf[r.payment]]] : r \in {x \in sent : x.event}}

Backend(points, events, metrics, served, down) ==
    [points |-> points, events |-> events, down |-> down,
     caps |-> [metrics |-> metrics, events |-> served, metricWeeks |-> 0]]

\* A backend for the metrics and one for the events, as far as there are any.
Store(metrics, events, down) ==
    Combine(Backend(Points \cup samples, {}, metrics, FALSE, down), Backend({}, Events, FALSE, events, down))

Registries == UNION {Parse(d) : d \in Documents}

\* Every document has the flow of every payment, "capture" its value stage.
ASSUME FlowsAssumption ==
    \A reg \in Registries, p \in Payments :
        /\ FlowById(reg, FlowOf[p]) # {}
        /\ \A f \in FlowById(reg, FlowOf[p]) : ValueStage(f).id = "capture"

\* The requests whose window is over.  No leg but coverage depends on the walk:
\* they are looked at before it.
Over  == {req \in Requests : req.window.to <= now}
Asked == IF walk.phase = "idle" THEN Over ELSE {}

Inside(r, req) == InRange(r.at, req.window)

\* A request names a flow, or all of them.
Names(req, flow) == req.flows = <<>> \/ flow \in ToSet(req.flows)

\* The request names no flow twice, its scope is on labels of the counters.
Plain(req) == Distinct(req.flows) /\ DOMAIN req.scope \subseteq {"flow", "stage", "outcome", "currency"}

-----------------------------------------------------------------------------
\* The walk counts every intent that was there when it began, once, and none
\* that came later, whatever happens at the provider between two pages
\* (Reconcile: "follows the cursor until the provider reports no more pages").
WalkCountsOnce ==
    walk.phase = "done" =>
        /\ Distinct([i \in DOMAIN walk.read |-> walk.read[i].payment])
        /\ {walk.read[i].payment : i \in DOMAIN walk.read} = walk.listed

Captured(req) ==
    {r \in sent : /\ r.stage = "capture" /\ r.outcome = "success"
                  /\ Names(req, FlowOf[r.payment])}

\* When the books are walked after the window, and no capture is outside it or
\* recorded twice, the ratio is below one exactly when telemetry misses a
\* capture (Coverage: a cross-stage read "would mask exporter drops").
LossLowersCoverage ==
    walk.phase = "done" => \A req \in Over, reg \in Registries, metrics \in BOOLEAN :
        LET captured == Captured(req)
            missing(r) == IF metrics THEN ~ r.points \/ r.payment \in Estimated ELSE ~ r.event
            leg == Reconciled(Store(metrics, ~ metrics, {}), reg, req, Ledger)
        IN  /\ walk.began >= req.window.to
            /\ \A r \in captured : Inside(r, req) /\ r.process = 1
            => /\ leg # None
               /\ \A l \in leg :
                    IF l.unavailable THEN captured = {}
                    ELSE (l.ratio.num < l.ratio.den) <=> (\E r \in captured : missing(r))

Currencies == {CurrencyOf[p] : p \in Payments}

\* When telemetry has every failure, the loss counts no payment twice, is
\* within the metrics-only figure, and that is what the customers hit add up
\* to (realizedFromMetrics: "upper bound, not de-duped by entity").
RealizedBounds ==
    \A req \in Asked :
        LET store     == Store(TRUE, TRUE, {})
            failed    == {r \in sent : r.outcome = "failed" /\ Inside(r, req)}
            failing(c) == {p \in Payments : CurrencyOf[p] = c /\ \E r \in failed : r.payment = p}
        IN  Plain(req) /\ (\A r \in failed : r.points /\ r.event /\ r.payment \notin Estimated) =>
            \A net \in RealizedFromEvents(store, req), most \in RealizedFromMetrics(store, req), who \in Customers(store, req) :
             \A c \in Currencies :
                /\ Money(net.byCurrency, c) <= SumFunction([p \in failing(c) |-> AmountOf[p]])
                /\ Money(net.byCurrency, c) <= Money(most.byCurrency, c)
                /\ Money(most.byCurrency, c) = SumFunction([id \in DOMAIN who.gross |-> Money(who.gross[id], c)])

\* Once the tracker has published for a request, the deferred leg is what the
\* tracker held at its last Publish of the window: a payment it was told is
\* done is not in flight, whatever the events say (Deferred: "a level of zero
\* included").
GaugeSettles ==
    \A req \in Asked, reg \in Registries :
        LET before == {i \in DOMAIN published : published[i].at < req.window.to}
            seen   == {s \in samples : /\ s.at < req.window.to
                                       /\ \E i \in DOMAIN InflightFilters(req) : MatchFilters(s.labels, InflightFilters(req)[i])}
            held(c) == {p \in published[Max(before)].payments :
                          /\ CurrencyOf[p] = c
                          /\ \E i \in DOMAIN InflightFilters(req) :
                               MatchFilters([stage |-> "capture", flow |-> FlowOf[p], currency |-> c], InflightFilters(req)[i])}
        IN  Plain(req) /\ seen # {} =>
              \A leg \in Deferred(Store(TRUE, TRUE, {}), reg, req) :
                /\ \A c \in Currencies : Money(leg.byCurrency, c) = SumFunction([p \in held(c) |-> AmountOf[p]])
                /\ leg.count = Cardinality(UNION {held(c) : c \in Currencies})

\* Entries of a flow and currency in the hour of t.
Entries(id, c, t) ==
    Cardinality({r \in sent : /\ r.stage = "auth" /\ r.at \div Hour = t \div Hour
                              /\ FlowOf[r.payment] = id /\ CurrencyOf[r.payment] = c})

\* When nothing is lost, a flow's range is there for the currencies with
\* history for an hour of the window.  Over at most two weeks it holds what the
\* entries missing from either week's level are worth, its middle between the
\* two; where every week had the same level it is that value (Unrealized).
ShortfallMatchesDemand ==
    \A req \in {r \in Asked : Len(r.flows) = 1 /\ r.scope = NoMoney}, reg \in Registries :
        \A f \in FlowById(reg, req.flows[1]), leg \in Unrealized(Store(TRUE, TRUE, {}), reg, req) :
            (f.weeks # None /\ \A r \in sent : r.points /\ r.event) =>
            \A c \in Currencies :
                LET id        == req.flows[1]
                    weeks     == CHOOSE w \in f.weeks : TRUE
                    target    == HourlyInstants(req.window)
                    demand(t) == {Entries(id, c, t - k * HoursPerWeek * Hour) : k \in 1 .. weeks} \ {0}
                    full      == {t \in target : demand(t) # {}}
                    aov       == AovMinor(Store(TRUE, TRUE, {}), f, c, req.window)
                    value(level(_), a) ==
                        Round(MapThenSumSet(LAMBDA t : Max({0, level(t) - Entries(id, c, t)}) * a * (100 - Recovery(f)),
                                            full), 100)
                    least(a)  == value(LAMBDA t : Min(demand(t)), a)
                    most(a)   == value(LAMBDA t : Max(demand(t)), a)
                IN  /\ (c \in DOMAIN leg.mid) <=> (full # {} /\ aov # None)
                    /\ c \in DOMAIN leg.mid /\ weeks <= 2 =>
                         \A a \in aov :
                            /\ leg.low[c] <= least(a) /\ least(a) <= leg.mid[c]
                            /\ leg.mid[c] <= most(a) /\ most(a) <= leg.high[c]
                            /\ (\A t \in full : Cardinality(demand(t)) = 1) => leg.low[c] = leg.high[c]

\* The suggested level is the one with the greatest floor that any currency's
\* rate reaches, none when none is; a leg whose store is down is marked and
\* has no part in it (SuggestSeverity: "the most severe level any currency
\* triggers").
SeverityIsTightest ==
    \A req \in Asked, reg \in Registries, down \in {{}, {"events"}, {"metrics"}} :
        LET report  == Compute(Store(TRUE, TRUE, down), reg, req)
            minutes == req.window.to - req.window.from
            floors  == {reg.severity[i].floor : i \in DOMAIN reg.severity}
            risk(c) == Money(report.realized.byCurrency, c) + Money(report.deferred.byCurrency, c)
            reached == {x \in floors : minutes > 0 /\ \E c \in Currencies : risk(c) >= x * minutes}
        IN  /\ {reg.severity[i].floor : i \in report.severity} = (IF reached = {} THEN {} ELSE {Max(reached)})
            /\ "events" \in down => report.realized.unavailable
            /\ "metrics" \in down => report.deferred.unavailable /\ report.unrealized.unavailable

\* No estimated amount is part of realized loss (Estimator: "the emit layer
\* stamps Estimated=true so the engine never reports them as realized").
EstimatesNeverRealized ==
    \A req \in Asked : \A leg \in RealizedFromEvents(Store(TRUE, TRUE, {}), req) :
        (\A r \in sent : r.outcome = "failed" => r.payment \in Estimated) => leg.byCurrency = NoMoney
=============================================================================
