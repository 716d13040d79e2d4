--------------------------- MODULE PaymentImpact ---------------------------
(***************************************************************************)
(* What an impact report says of payments, against what became of them at  *)
(* Stripe.                                                                 *)
(***************************************************************************)
EXTENDS StripePayments

\* What every event of a payment tells has been recorded, as far back as a reader
\* looks: an emitter suppresses a second decline, also one long after the first.
Informed(p, from) ==
    \A ev \in {e \in events : e.payment = p /\ Mapped(e) /\ from <= e.created} :
        \E r \in log : /\ r.entity = p /\ r.stage = EventMap[ev.type][1]
                       /\ r.result = EventMap[ev.type][2] /\ from <= r.at

\* A request whose window ends now.
UntilNow(from) == Request(from, now + 1, Stages)

Froms == 0 .. now

Requests == {Request(w[1], w[2], scope) :
                w \in {v \in Froms \X (1 .. MaxTime + 1) : v[1] < v[2]},
                scope \in {Stages, {"capture"}}}

ItemsOf(p, req) == {i \in InFlight(log, req) : i[2] = p}

\* A payment Stripe has collected is no loss, although calls timed out and
\* attempts were declined on the way, whatever arrived twice or late; one
\* whose attempts all failed is, once, of an amount that was tried
\* (docs/architecture/money-path.md: "the realized leg then finds a success
\* for that entity and drops it").
LossIsFailure ==
    \A p \in Payments : Informed(p, 0) =>
        /\ status[p] = "succeeded" => \A from \in Froms : p \notin Lost(log, UntilNow(from))
        /\ status[p] \in Open /\ p \in troubled =>
             p \in Lost(log, UntilNow(0)) /\ LossOf(log, UntilNow(0), p) \in tried[p]

StageOf(state) == IF state = "action" THEN "auth" ELSE "capture"

\* A pending payment without an earlier failure, in reach of the lookback.
PlainlyPending(p, req) ==
    status[p] \in Pending /\ p \notin troubled /\ since[p] >= DeferredSince(req)

\* What is counted as in flight is pending at Stripe, or was canceled there,
\* which no mapped event tells; and a payment that is pending, and has not
\* failed before, is counted, at one stage and for its amount
\* (deferredFromEvents: a later deferral "carries the money").
PendingIsInFlight ==
    \A p \in Payments, from \in Froms :
        LET req == UntilNow(from)
        IN  Informed(p, DeferredSince(req)) =>
            /\ ItemsOf(p, req) # {} => status[p] \in Pending \cup {"canceled"}
            /\ PlainlyPending(p, req) =>
                  /\ ItemsOf(p, req) = {<<StageOf(status[p]), p>>}
                  /\ DeferredOf(log, req, <<StageOf(status[p]), p>>) = amount[p]

\* AgeBucketFor, the buckets of the in-flight gauge: left-closed intervals.
AgeBucketFor(age) == CHOOSE b \in Buckets :
    Floors[b] <= age /\ (b < Len(Floors) => age < Floors[b + 1])

\* The events path puts a pending payment into the bucket the gauge would,
\* and calls it a breach only when it waited for the deadline, always when
\* the deadline is the floor of a bucket (ageCutoffs: "the SLA breach test
\* sits on that floor").
BacklogAgesLikeTheGauge ==
    \A p \in Payments, from \in Froms :
        LET req == UntilNow(from)
            age == req.to - since[p]
            stage == StageOf(status[p])
        IN  PlainlyPending(p, req) /\ Informed(p, DeferredSince(req)) =>
            /\ BucketOf(log, req, <<stage, p>>) = AgeBucketFor(age)
            /\ stage \in DOMAIN Deadline =>
                  /\ <<stage, p>> \in Breaches(log, req) => age >= Deadline[stage]
                  /\ age >= Deadline[stage] /\ Deadline[stage] \in {Floors[b] : b \in Buckets}
                     => <<stage, p>> \in Breaches(log, req)

SameOutcome(r, s) == SameKey(r, s) /\ r.at = s.at /\ r.amount = s.amount

Figures(req) ==
    [realized |-> RealizedMinor(log, req), deferred |-> DeferredMinor(log, req),
     breaches |-> Breaches(log, req), projected |-> ProjectedLostMinor(log, req),
     hit |-> Hit(log, req), severity |-> Severity(log, req)]

\* An event that another process records a second time changes no figure
\* (RealizedLeg: "retries and cross-process duplicate events never
\* double-count").
RedeliveryChangesNothing ==
    [][\A r \in log' \ log : (\E s \in log : SameOutcome(r, s))
          => \A req \in Requests : Figures(req)' = Figures(req)]_log

\* A late event changes the loss of those windows only that hold the time it
\* was created (stripe.go: "a late webhook does not move realized loss into
\* the wrong window").
LateEventsStayPut ==
    [][log' # log =>
          \A ev \in events, q \in Processes : Deliver(ev, q) =>
             \A req \in Requests :
                (ev.created < req.from \/ ev.created >= req.to) =>
                   /\ RealizedMinor(log', req) = RealizedMinor(log, req)
                   /\ Hit(log', req) = Hit(log, req)]_log

\* A create or confirm without an answer, of which no webhook tells, is counted as
\* an auth failure (Backend: "when an auth-stage call (a PaymentIntent
\* create/confirm) fails at the infrastructure level [...] emits an auth/failed
\* outcome so that synchronous, webhook-invisible loss is still counted").
UnansweredIsRecorded ==
    \A p \in unanswered : status[p] \in {"none", "created"} =>
        \E r \in log : r.entity = p /\ r.stage = "auth" /\ r.result = "failed"

=============================================================================
