--------------------------- MODULE StripePayments ---------------------------
(***************************************************************************)
(* Payments through Stripe as shortfall observes them                      *)
(* (src/adapters/payment/stripe): Backend.Call sees the calls a service    *)
(* makes and records those that got no answer, the webhook Handler records *)
(* the events Stripe sends, and each process's emitter de-duplicates what  *)
(* it records.  The legs of ImpactLegs are read off the recorded outcomes. *)
(*                                                                         *)
(* Stripe is external: a payment intent moves between the states below;    *)
(* each change sends events, which are delivered late, in any order, more  *)
(* than once, to any process.  A call that gets no answer may have reached *)
(* Stripe or not.                                                          *)
(***************************************************************************)
EXTENDS ImpactLegs

CONSTANTS
    Processes,       \* processes with an emitter of their own
    Amounts,         \* amounts of an attempt, in minor units
    Invoiced,        \* payments of an invoice
    MaxTime,         \* bound of the model: the last instant
    MaxSteps,        \* bound of the model: calls, decisions and disputes together
    MaxRecords       \* bound of the model: outcomes recorded in all processes

ASSUME PaymentsAssumption ==
    /\ Stages = {"auth", "capture", "settle", "dispute"}
    /\ Before("auth", "capture") /\ Before("capture", "settle")
    /\ Amounts \subseteq Nat \ {0} /\ Invoiced \subseteq Payments
    /\ {MaxTime, MaxSteps, MaxRecords} \subseteq Nat

VARIABLES
    now,         \* the clock
    status,      \* payment -> state of its intent at Stripe
    since,       \* payment -> instant of its last change of state
    amount,      \* payment -> amount of its last attempt
    steps,       \* number of calls, decisions and disputes so far
    events,      \* the events Stripe has sent
    log,         \* outcomes the processes have recorded
    troubled,    \* history: payments with a decline or an unanswered create
    unanswered,  \* history: payments with an unanswered create or confirm
    tried        \* history: payment -> amounts of its attempts

stripe == <<status, since, amount, events>>
history == <<troubled, unanswered, tried>>
vars   == <<now, stripe, steps, log, history>>

Init ==
    /\ now = 0 /\ steps = 0
    /\ status = [p \in Payments |-> "none"] /\ since = [p \in Payments |-> 0]
    /\ amount = [p \in Payments |-> 0] /\ tried = [p \in Payments |-> {}]
    /\ events = {} /\ log = {} /\ troubled = {} /\ unanswered = {}

Tick ==
    /\ now < MaxTime
    /\ now' = now + 1
    /\ UNCHANGED <<stripe, steps, log, history>>
-----------------------------------------------------------------------------
(* Recording *)

\* The key of the emitter's de-duplication; a process remembers its keys for
\* longer than the model runs.
SameKey(o, r) == o.entity = r.entity /\ o.stage = r.stage /\ o.result = r.result

\* Record in process q: a retry is suppressed, a transition is not.  What
\* Emitter does to an outcome that overflows the buffer or fails to export is
\* left out: what is recorded is in the log.
Recorded(q, o) ==
    IF \E r \in log : r.process = q /\ SameKey(o, r) THEN log
    ELSE log \cup {[entity |-> o.entity, stage |-> o.stage, result |-> o.result,
                    at |-> o.at, amount |-> o.amount, process |-> q]}
-----------------------------------------------------------------------------
(* Stripe *)

\* The states of the intent that wait for a call.
Open == {"none", "created", "declined"}

Pending == {"action", "processing"}

\* The types of the events a change of state sends.
EventTypes(p, state) ==
    CASE state = "created"    -> {"payment_intent.created"}
      [] state = "action"     -> {"payment_intent.requires_action"}
      [] state = "processing" -> {"payment_intent.processing"}
      [] state = "succeeded"  -> {"payment_intent.succeeded"}
                                 \cup (IF p \in Invoiced THEN {"invoice.paid"} ELSE {})
      [] state = "declined"   -> {"payment_intent.payment_failed", "charge.failed"}
                                 \cup (IF p \in Invoiced THEN {"invoice.payment_failed"} ELSE {})
      [] state = "canceled"   -> {"payment_intent.canceled"}
      [] state = "disputed"   -> {"charge.dispute.created"}

\* A payment intent changes its state, about an amount.
Become(p, state, a) ==
    /\ status' = [status EXCEPT ![p] = state]
    /\ since' = [since EXCEPT ![p] = now]
    /\ amount' = [amount EXCEPT ![p] = a]
    /\ events' = events \cup {[type |-> t, payment |-> p, created |-> now, amount |-> a] :
                              t \in EventTypes(p, state)}

\* What may become of a pending payment.
Successors(state) ==
    CASE state = "action"     -> {"processing", "succeeded", "declined", "canceled"}
      [] state = "processing" -> {"succeeded", "declined"}

\* Stripe decides about a pending payment.
Progress(p) ==
    /\ status[p] \in Pending /\ steps < MaxSteps
    /\ steps' = steps + 1
    /\ \E state \in Successors(status[p]) :
          /\ Become(p, state, amount[p])
          /\ troubled' = IF state = "declined" THEN troubled \cup {p} ELSE troubled
    /\ UNCHANGED <<now, log, unanswered, tried>>

\* The customer disputes a charge.
Dispute(p) ==
    /\ status[p] = "succeeded" /\ steps < MaxSteps
    /\ steps' = steps + 1
    /\ Become(p, "disputed", amount[p])
    /\ UNCHANGED <<now, log, history>>
-----------------------------------------------------------------------------
(* The adapter *)

Ops == {"create", "confirm"}

\* Where a call of an operation may start, and how far Stripe takes it at once;
\* a create may leave the confirmation to a call of its own.
From(op) == IF op = "create" THEN Open \ {"created"} ELSE Open \ {"none"}
Reachable(op) == {"succeeded", "declined"} \cup Pending
                  \cup (IF op = "create" THEN {"created"} ELSE {})

\* authVC: only the parameters of a create hold a value context; the SDK gives
\* a confirm parameters of a type that is not looked at.
HasVC(op) == op = "create"

\* Backend.Call by process q: an answer, also a business decline, is the
\* caller's and the webhook's concern; a create without one becomes an auth
\* failure at the time the call began.
Call(p, q) ==
    \E op \in Ops, a \in Amounts, answered \in BOOLEAN :
        LET recorded == ~ answered /\ HasVC(op)
        IN  /\ status[p] \in From(op) /\ steps < MaxSteps
            /\ op = "confirm" => a = amount[p]
            /\ steps' = steps + 1
            /\ \/ \E state \in Reachable(op) :
                     /\ Become(p, state, a)
                     /\ troubled' = IF recorded \/ state = "declined" THEN troubled \cup {p}
                                    ELSE troubled
               \/ /\ ~ answered
                  /\ troubled' = IF recorded THEN troubled \cup {p} ELSE troubled
                  /\ UNCHANGED stripe
            /\ unanswered' = IF answered THEN unanswered ELSE unanswered \cup {p}
            /\ tried' = [tried EXCEPT ![p] = @ \cup {a}]
            /\ log' = IF recorded
                      THEN Recorded(q, [entity |-> p, stage |-> "auth", result |-> "failed",
                                        at |-> now, amount |-> a])
                      ELSE log
            /\ UNCHANGED now

\* eventMap: the stage and the result of the events the adapter knows.
EventMap ==
    [type \in {"payment_intent.succeeded", "payment_intent.payment_failed",
               "payment_intent.processing", "payment_intent.requires_action",
               "charge.failed", "invoice.paid", "invoice.payment_failed",
               "charge.dispute.created"} |->
        CASE type = "payment_intent.succeeded"                         -> <<"capture", "success">>
          [] type \in {"payment_intent.payment_failed", "charge.failed"} -> <<"capture", "failed">>
          [] type = "payment_intent.processing"                        -> <<"capture", "deferred">>
          [] type = "payment_intent.requires_action"                   -> <<"auth", "deferred">>
          [] type = "invoice.paid"                                     -> <<"settle", "success">>
          [] type = "invoice.payment_failed"                           -> <<"settle", "failed">>
          [] type = "charge.dispute.created"                           -> <<"dispute", "failed">>]

Mapped(ev) == ev.type \in DOMAIN EventMap

\* Mutant of OutcomeOf: the outcome is stamped with the time of receipt.
OutcomeOfReceipt(ev) ==
    [entity |-> ev.payment, stage |-> EventMap[ev.type][1], result |-> EventMap[ev.type][2],
     at |-> now, amount |-> ev.amount]

\* VerifyAndMap: the outcome of a mapped event, at the event's own time.
OutcomeOf(ev) ==
    [entity |-> ev.payment, stage |-> EventMap[ev.type][1], result |-> EventMap[ev.type][2],
     at |-> ev.created, amount |-> ev.amount]

\* The webhook Handler of process q gets an event, for the first time or again.
Deliver(ev, q) ==
    /\ ev \in events /\ Cardinality(log) < MaxRecords
    /\ log' = IF Mapped(ev) THEN Recorded(q, OutcomeOf(ev)) ELSE log
    /\ UNCHANGED <<now, stripe, steps, history>>

Next == \/ Tick
        \/ \E p \in Payments : Progress(p) \/ Dispute(p)
        \/ \E p \in Payments, q \in Processes : Call(p, q)
        \/ \E ev \in events, q \in Processes : Deliver(ev, q)

Spec == Init /\ [][Next]_vars
=============================================================================
