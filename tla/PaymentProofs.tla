---------------------------- MODULE PaymentProofs ---------------------------
(***************************************************************************)
(* Proofs about what a report says of payments, for every number of        *)
(* payments, processes, amounts and instants, every order of deliveries,   *)
(* repeats and unanswered calls, and every choice of stages, deadlines,    *)
(* age buckets and lookback.                                               *)
(***************************************************************************)
EXTENDS PaymentImpact, FiniteSetTheorems, WellFoundedInduction, TLAPS

States == {"none", "created", "action", "processing", "succeeded", "declined", "canceled", "disputed"}

\* The types of events that tell of a success, a failed attempt, a deferral.
Successes == {"payment_intent.succeeded", "invoice.paid"}
Failures  == {"payment_intent.payment_failed", "charge.failed", "invoice.payment_failed"}
Deferring == {"payment_intent.processing", "payment_intent.requires_action"}

PaymentTypes ==
    /\ now \in Nat
    /\ status \in [Payments -> States]
    /\ since \in [Payments -> Nat] /\ \A p \in Payments : since[p] <= now
    /\ amount \in [Payments -> Nat]
    /\ tried \in [Payments -> SUBSET Amounts]
    /\ \A p \in Payments : status[p] # "none" => amount[p] \in tried[p]

\* An event is about a payment, a time not after its last change, an amount
\* that was tried.
EventTypesOK ==
    \A ev \in events : /\ ev.payment \in Payments /\ ev.created \in Nat
                       /\ ev.created <= since[ev.payment] /\ ev.amount \in tried[ev.payment]

\* A success is the end but for a dispute, and a failed attempt makes trouble.
Ends ==
    \A ev \in events :
        /\ ev.type \in Successes =>
             /\ status[ev.payment] \in {"succeeded", "disputed"}
             /\ status[ev.payment] = "succeeded" => ev.created = since[ev.payment]
        /\ ev.type \in Failures => ev.payment \in troubled
        /\ ev.type = "charge.dispute.created" => status[ev.payment] = "disputed"

\* A payment that has succeeded or was declined sent an event then.
Told ==
    \A p \in Payments :
        /\ status[p] = "succeeded" =>
             \E ev \in events : ev.type = "payment_intent.succeeded" /\ ev.payment = p /\ ev.created = since[p]
        /\ status[p] = "declined" => p \in troubled

\* A payment that was pending and is so no more sent an event that ended it.
Concluded ==
    \A d \in events :
        d.type \in Deferring /\ status[d.payment] \notin Pending \cup {"canceled"} =>
            \E ev \in events : /\ ev.type \in {"payment_intent.succeeded", "payment_intent.payment_failed"}
                               /\ ev.payment = d.payment /\ d.created <= ev.created

PendingType(state) ==
    IF state = "action" THEN "payment_intent.requires_action" ELSE "payment_intent.processing"

\* Without a failed attempt, a payment is pending once for each reason.
Plain ==
    \A p \in Payments \ troubled :
        /\ status[p] \in {"none", "created"} => \A d \in events : d.payment = p => d.type \notin Deferring
        /\ status[p] = "action" => \A d \in events : d.payment = p => d.type # "payment_intent.processing"
        /\ status[p] \in Pending =>
             /\ [type |-> PendingType(status[p]), payment |-> p, created |-> since[p], amount |-> amount[p]] \in events
             /\ \A d \in events : d.payment = p /\ d.type = PendingType(status[p]) =>
                  d.created = since[p] /\ d.amount = amount[p]

\* An outcome is what an event told, or an unanswered create.
Tells(ev, r) ==
    /\ Mapped(ev) /\ r.entity = ev.payment /\ r.at = ev.created /\ r.amount = ev.amount
    /\ r.stage = EventMap[ev.type][1] /\ r.result = EventMap[ev.type][2]

Unanswered(r) ==
    /\ r.stage = "auth" /\ r.result = "failed" /\ r.entity \in troubled
    /\ r.at \in Nat /\ r.at <= now /\ r.amount \in tried[r.entity]
    /\ status[r.entity] \notin Open => r.at <= since[r.entity]

Origins ==
    /\ IsFiniteSet(log)
    /\ \A r \in log : (\E ev \in events : Tells(ev, r)) \/ (r.entity \in Payments /\ Unanswered(r))

\* Trouble has left a trace.
Traces ==
    /\ troubled \subseteq Payments
    /\ \A p \in troubled :
          \/ \E r \in log : r.entity = p /\ r.stage = "auth" /\ r.result = "failed" /\ r.at <= now
          \/ \E ev \in events : ev.payment = p /\ ev.type = "payment_intent.payment_failed"

StripeInv == PaymentTypes /\ EventTypesOK /\ Ends /\ Told /\ Concluded /\ Plain
PayInv == StripeInv /\ Origins /\ Traces

-----------------------------------------------------------------------------
(* What the events mean *)

LEMMA EventMeaning ==
    ASSUME NEW type \in DOMAIN EventMap
    PROVE  /\ EventMap[type][1] \in {"auth", "capture", "settle", "dispute"}
           /\ EventMap[type][2] \in {"success", "failed", "deferred"}
           /\ EventMap[type][2] = "success" <=> type \in Successes
           /\ EventMap[type][2] = "deferred" <=> type \in Deferring
           /\ EventMap[type][2] = "failed" <=> type \in Failures \cup {"charge.dispute.created"}
  BY DEF EventMap, Successes, Failures, Deferring

LEMMA EventStages ==
    /\ DOMAIN EventMap = Successes \cup Failures \cup Deferring \cup {"charge.dispute.created"}
    /\ EventMap["payment_intent.succeeded"] = <<"capture", "success">>
    /\ EventMap["payment_intent.payment_failed"] = <<"capture", "failed">>
    /\ EventMap["payment_intent.processing"] = <<"capture", "deferred">>
    /\ EventMap["payment_intent.requires_action"] = <<"auth", "deferred">>
  BY DEF EventMap, Successes, Failures, Deferring

\* What a change of state sends.
LEMMA TypesSent ==
    ASSUME NEW p, NEW state \in States \ {"none"}, NEW type \in EventTypes(p, state)
    PROVE  /\ type \in Successes <=> state = "succeeded"
           /\ type \in Failures <=> state = "declined"
           /\ type = "payment_intent.processing" <=> state = "processing"
           /\ type = "payment_intent.requires_action" <=> state = "action"
           /\ type = "charge.dispute.created" <=> state = "disputed"
  BY DEF EventTypes, States, Successes, Failures

LEMMA TypesNamed ==
    ASSUME NEW p
    PROVE  /\ "payment_intent.succeeded" \in EventTypes(p, "succeeded")
           /\ "payment_intent.payment_failed" \in EventTypes(p, "declined")
           /\ "payment_intent.processing" \in EventTypes(p, "processing")
           /\ "payment_intent.requires_action" \in EventTypes(p, "action")
  BY DEF EventTypes

-----------------------------------------------------------------------------
(* The kinds of steps, seen from Stripe *)

\* Attempts and troubles only grow, about one payment.
Grows(p) ==
    /\ tried' = [tried EXCEPT ![p] = tried'[p]] /\ tried[p] \subseteq tried'[p] /\ tried'[p] \subseteq Amounts
    /\ troubled \subseteq troubled' /\ troubled' \subseteq troubled \cup {p}

Move(p, state, a) ==
    /\ Become(p, state, a) /\ Grows(p) /\ UNCHANGED now
    /\ a \in tried'[p] /\ a \in Nat
    /\ state = "declined" => p \in troubled'
    /\ \/ status[p] \in Open /\ state \in {"created", "action", "processing", "succeeded", "declined"}
       \/ status[p] = "action" /\ state \in {"processing", "succeeded", "declined", "canceled"}
       \/ status[p] = "processing" /\ state \in {"succeeded", "declined"}
       \/ status[p] = "succeeded" /\ state = "disputed"

\* A call that had no effect.
NoEffect(p) == status[p] \in Open /\ Grows(p) /\ UNCHANGED <<now, stripe>>

LEMMA CallKinds ==
    ASSUME PaymentTypes, NEW p \in Payments, NEW q \in Processes, Call(p, q)
    PROVE  NoEffect(p) \/ \E state \in States \ {"none"}, a \in Nat : Move(p, state, a)
  <1>1. PICK op \in Ops, a \in Amounts, answered \in BOOLEAN : Call(p, q)!(op, a, answered)
    BY DEF Call
  <1> DEFINE recorded == ~ answered /\ HasVC(op)
  <1>2. status[p] \in Open /\ a \in Nat /\ tried'[p] = tried[p] \cup {a} /\ tried' = [tried EXCEPT ![p] = tried'[p]]
    BY <1>1, PaymentsAssumption DEF From, Open, Ops, PaymentTypes
  <1>3. Reachable(op) \subseteq {"created", "action", "processing", "succeeded", "declined"} /\ Reachable(op) \subseteq States \ {"none"}
    BY DEF Reachable, Pending, States
  <1>4. now' = now BY <1>1
  <1>5. tried[p] \subseteq Amounts BY DEF PaymentTypes
  <1>6. CASE \E state \in Reachable(op) :
               /\ Become(p, state, a)
               /\ troubled' = IF recorded \/ state = "declined" THEN troubled \cup {p} ELSE troubled
    <2>1. PICK state \in Reachable(op) :
               /\ Become(p, state, a)
               /\ troubled' = IF recorded \/ state = "declined" THEN troubled \cup {p} ELSE troubled
      BY <1>6
    <2>2. Grows(p) BY <1>2, <1>5, <2>1 DEF Grows
    <2>3. Move(p, state, a) BY <1>2, <1>3, <1>4, <2>1, <2>2 DEF Move
    <2> QED BY <1>2, <1>3, <2>3
  <1>7. CASE /\ ~ answered
             /\ troubled' = IF recorded THEN troubled \cup {p} ELSE troubled
             /\ UNCHANGED stripe
    BY <1>2, <1>4, <1>5, <1>7 DEF NoEffect, Grows
  <1> QED BY <1>1, <1>6, <1>7

LEMMA StripeKinds ==
    ASSUME PaymentTypes, [Next]_vars
    PROVE  \/ Tick
           \/ \E p \in Payments : NoEffect(p) \/ \E state \in States \ {"none"}, a \in Nat : Move(p, state, a)
           \/ UNCHANGED <<now, stripe, history>>
  <1>1. CASE Tick BY <1>1
  <1>2. ASSUME NEW p \in Payments, Progress(p)
        PROVE  \E state \in States \ {"none"}, a \in Nat : Move(p, state, a)
    <2>1. PICK state \in Successors(status[p]) :
              /\ Become(p, state, amount[p])
              /\ troubled' = IF state = "declined" THEN troubled \cup {p} ELSE troubled
      BY <1>2 DEF Progress
    <2>2. Grows(p) BY <1>2, <2>1 DEF Grows, Progress, PaymentTypes
    <2>3. status[p] \in Pending /\ status[p] # "none" BY <1>2 DEF Progress, Pending
    <2>4. /\ status[p] = "action" => state \in {"processing", "succeeded", "declined", "canceled"}
          /\ status[p] = "processing" => state \in {"succeeded", "declined"}
      BY <2>3 DEF Successors, Pending
    <2>5. Move(p, state, amount[p])
      BY <1>2, <2>1, <2>2, <2>3, <2>4 DEF Move, Progress, PaymentTypes, Pending
    <2> QED BY <2>3, <2>4, <2>5 DEF PaymentTypes, Pending, States
  <1>3. ASSUME NEW p \in Payments, Dispute(p)
        PROVE  \E state \in States \ {"none"}, a \in Nat : Move(p, state, a)
    <2>1. Grows(p) BY <1>3 DEF Grows, Dispute, PaymentTypes, history
    <2>2. Move(p, "disputed", amount[p])
      BY <1>3, <2>1 DEF Move, Dispute, PaymentTypes, history
    <2> QED BY <2>2 DEF PaymentTypes, States
  <1>4. ASSUME NEW p \in Payments, NEW q \in Processes, Call(p, q)
        PROVE  NoEffect(p) \/ \E state \in States \ {"none"}, a \in Nat : Move(p, state, a)
    BY <1>4, CallKinds
  <1>5. ASSUME NEW ev \in events, NEW q \in Processes, Deliver(ev, q)
        PROVE  UNCHANGED <<now, stripe, history>>
    BY <1>5 DEF Deliver
  <1>6. CASE UNCHANGED vars BY <1>6 DEF vars
  <1> QED BY <1>1, <1>2, <1>3, <1>4, <1>5, <1>6 DEF Next

-----------------------------------------------------------------------------
(* What Stripe keeps *)

LEMMA StripeInit == Init => StripeInv
  BY DEF Init, StripeInv, PaymentTypes, EventTypesOK, Ends, Told, Concluded, Plain, States, Pending

\* What a move changes.
LEMMA MoveFacts ==
    ASSUME PaymentTypes, NEW p \in Payments, NEW state \in States \ {"none"}, NEW a \in Nat, Move(p, state, a)
    PROVE  /\ now' = now /\ status'[p] = state /\ since'[p] = now /\ amount'[p] = a
           /\ \A o \in Payments \ {p} : /\ status'[o] = status[o] /\ since'[o] = since[o]
                                        /\ amount'[o] = amount[o] /\ tried'[o] = tried[o]
           /\ \A o \in Payments : tried[o] \subseteq tried'[o]
           /\ \A o \in Payments \ {p} : o \in troubled' <=> o \in troubled
           /\ events \subseteq events'
           /\ \A ev \in events' \ events :
                  ev.payment = p /\ ev.created = now /\ ev.amount = a /\ ev.type \in EventTypes(p, state)
           /\ \A type \in EventTypes(p, state) : [type |-> type, payment |-> p, created |-> now, amount |-> a] \in events'
  BY DEF PaymentTypes, Move, Become, Grows

LEMMA MoveTypes ==
    ASSUME PaymentTypes, NEW p \in Payments, NEW state \in States \ {"none"}, NEW a \in Nat, Move(p, state, a)
    PROVE  PaymentTypes'
  <1>1. /\ status' \in [Payments -> States] /\ since' \in [Payments -> Nat] /\ amount' \in [Payments -> Nat]
        /\ tried' \in [Payments -> SUBSET Amounts] /\ a \in tried'[p]
    BY DEF PaymentTypes, Move, Become, Grows
  <1>2. \A o \in Payments : since'[o] <= now' BY MoveFacts DEF PaymentTypes
  <1>3. \A o \in Payments : status'[o] # "none" => amount'[o] \in tried'[o]
    BY <1>1, MoveFacts DEF PaymentTypes
  <1> QED BY <1>1, <1>2, <1>3, MoveFacts DEF PaymentTypes

LEMMA MoveEvents ==
    ASSUME StripeInv, NEW p \in Payments, NEW state \in States \ {"none"}, NEW a \in Nat, Move(p, state, a)
    PROVE  EventTypesOK' /\ Ends' /\ Told'
  <1> USE DEF StripeInv
  <1>1. EventTypesOK'
    <2>1. ASSUME NEW ev \in events
          PROVE  ev.payment \in Payments /\ ev.created \in Nat /\ ev.created <= since'[ev.payment] /\ ev.amount \in tried'[ev.payment]
      <3>1. ev.created <= now BY DEF EventTypesOK, PaymentTypes
      <3> QED BY <3>1, MoveFacts DEF EventTypesOK
    <2>2. ASSUME NEW ev \in events' \ events
          PROVE  ev.payment \in Payments /\ ev.created \in Nat /\ ev.created <= since'[ev.payment] /\ ev.amount \in tried'[ev.payment]
      BY MoveFacts DEF PaymentTypes, Move
    <2> QED BY <2>1, <2>2 DEF EventTypesOK
  <1>2. Ends'
    <2>1. ASSUME NEW ev \in events, ev.type \in Successes
          PROVE  /\ status'[ev.payment] \in {"succeeded", "disputed"}
                 /\ status'[ev.payment] = "succeeded" => ev.created = since'[ev.payment]
      <3>1. ev.payment \in Payments /\ status[ev.payment] \in {"succeeded", "disputed"} BY <2>1 DEF Ends, EventTypesOK
      <3>2. CASE ev.payment # p BY <2>1, <3>1, <3>2, MoveFacts DEF Ends
      <3>3. CASE ev.payment = p BY <3>1, <3>3, MoveFacts DEF Move, Open
      <3> QED BY <3>2, <3>3
    <2>2. ASSUME NEW ev \in events, ev.type \in Failures PROVE ev.payment \in troubled'
      BY <2>2 DEF Ends, Move, Grows
    <2>3. ASSUME NEW ev \in events' \ events
          PROVE  /\ ev.type \in Successes => status'[ev.payment] = "succeeded" /\ ev.created = since'[ev.payment]
                 /\ ev.type \in Failures => ev.payment \in troubled'
                 /\ ev.type = "charge.dispute.created" => status'[ev.payment] = "disputed"
      BY <2>3, MoveFacts, TypesSent DEF Move
    <2>4. ASSUME NEW ev \in events, ev.type = "charge.dispute.created" PROVE status'[ev.payment] = "disputed"
      <3>1. ev.payment \in Payments /\ status[ev.payment] = "disputed" BY <2>4 DEF Ends, EventTypesOK
      <3> QED BY <3>1, MoveFacts DEF Move, Open
    <2> QED BY <2>1, <2>2, <2>3, <2>4 DEF Ends
  <1>3. Told'
    <2>1. ASSUME status'[p] = "succeeded"
          PROVE  \E ev \in events' : ev.type = "payment_intent.succeeded" /\ ev.payment = p /\ ev.created = since'[p]
      <3>1. [type |-> "payment_intent.succeeded", payment |-> p, created |-> now, amount |-> a] \in events'
        BY <2>1, MoveFacts, TypesNamed
      <3> QED BY <3>1, MoveFacts
    <2>2. status'[p] = "declined" => p \in troubled' BY MoveFacts DEF Move
    <2>3. ASSUME NEW o \in Payments \ {p}, status'[o] = "succeeded"
          PROVE  \E ev \in events' : ev.type = "payment_intent.succeeded" /\ ev.payment = o /\ ev.created = since'[o]
      BY <2>3, MoveFacts DEF Told
    <2>4. ASSUME NEW o \in Payments \ {p}, status'[o] = "declined" PROVE o \in troubled'
      BY <2>4, MoveFacts DEF Told
    <2> QED BY <2>1, <2>2, <2>3, <2>4 DEF Told
  <1> QED BY <1>1, <1>2, <1>3

LEMMA MoveConcluded ==
    ASSUME StripeInv, NEW p \in Payments, NEW state \in States \ {"none"}, NEW a \in Nat, Move(p, state, a)
    PROVE  Concluded'
  <1> USE DEF StripeInv
  <1> DEFINE Ended(d, S) == \E ev \in S : /\ ev.type \in {"payment_intent.succeeded", "payment_intent.payment_failed"}
                                         /\ ev.payment = d.payment /\ d.created <= ev.created
  <1>1. SUFFICES ASSUME NEW d \in events', d.type \in Deferring, status'[d.payment] \notin Pending \cup {"canceled"}
                 PROVE  Ended(d, events')
    BY DEF Concluded
  <1>2. d \in events
    BY <1>1, MoveFacts, TypesSent DEF Deferring, Pending
  <1>3. d.payment \in Payments /\ d.created \in Nat /\ d.created <= now BY <1>2 DEF EventTypesOK, PaymentTypes
  <1>4. ASSUME status[d.payment] \notin Pending \cup {"canceled"} PROVE Ended(d, events')
    <2>1. Ended(d, events) BY <1>1, <1>2, <1>4 DEF Concluded
    <2> QED BY <2>1, MoveFacts
  <1>5. CASE d.payment # p BY <1>1, <1>3, <1>4, <1>5, MoveFacts
  <1>6. CASE d.payment = p /\ status[p] \in Pending
    <2>1. state \in {"succeeded", "declined"} BY <1>1, <1>6, MoveFacts DEF Move, Pending, Open
    <2>2. PICK type \in {"payment_intent.succeeded", "payment_intent.payment_failed"} : type \in EventTypes(p, state)
      BY <2>1, TypesNamed
    <2>3. [type |-> type, payment |-> p, created |-> now, amount |-> a] \in events' BY <2>2, MoveFacts
    <2> QED BY <1>3, <1>6, <2>3
  <1>7. CASE d.payment = p /\ status[p] \notin Pending
    <2>1. status[p] # "canceled" BY <1>7 DEF Move, Open
    <2> QED BY <1>4, <1>7, <2>1
  <1> QED BY <1>5, <1>6, <1>7

LEMMA MovePlain ==
    ASSUME StripeInv, NEW p \in Payments, NEW state \in States \ {"none"}, NEW a \in Nat, Move(p, state, a)
    PROVE  Plain'
  <1> USE DEF StripeInv
  <1> SUFFICES ASSUME NEW o \in Payments, o \notin troubled' PROVE Plain!(o)'
    BY DEF Plain
  <1>1. o \notin troubled BY DEF Move, Grows
  <1>2. CASE o # p
    <2>1. status'[o] = status[o] /\ since'[o] = since[o] /\ amount'[o] = amount[o] BY <1>2, MoveFacts
    <2>2. \A d \in events' : d.payment = o => d \in events BY <1>2, MoveFacts
    <2>3. events \subseteq events' BY MoveFacts
    <2> QED BY <1>1, <2>1, <2>2, <2>3 DEF Plain
  <1>3. CASE o = p
    <2>0. status'[p] = state /\ since'[p] = now /\ amount'[p] = a BY MoveFacts
    <2>1. status[p] # "declined" /\ state # "declined" BY <1>1, <1>3 DEF Told, Move
    <2>2. ASSUME status[p] \in {"none", "created"}, NEW d \in events, d.payment = p PROVE d.type \notin Deferring
      BY <1>1, <1>3, <2>2 DEF Plain
    <2>3. state \in {"created", "action", "processing"} => status[p] \in {"none", "created", "action"}
      BY <2>1 DEF Move, Open
    <2>4. state \in {"created", "action"} => status[p] \in {"none", "created"} BY <2>1 DEF Move, Open
    <2>5. ASSUME status'[p] \in {"none", "created"}, NEW d \in events', d.payment = p PROVE d.type \notin Deferring
      BY <2>0, <2>2, <2>4, <2>5, MoveFacts, TypesSent DEF Deferring
    <2>6. ASSUME status'[p] = "action", NEW d \in events', d.payment = p PROVE d.type # "payment_intent.processing"
      BY <2>0, <2>2, <2>4, <2>6, MoveFacts, TypesSent DEF Deferring
    <2>7. ASSUME state \in Pending, NEW d \in events, d.payment = p PROVE d.type # PendingType(state)
      <3>1. CASE state = "action" BY <2>2, <2>4, <2>7, <3>1 DEF Deferring, PendingType
      <3>2. CASE state = "processing" /\ status[p] = "action" BY <1>1, <1>3, <2>7, <3>2 DEF Plain, PendingType
      <3>3. CASE state = "processing" /\ status[p] # "action" BY <2>2, <2>3, <2>7, <3>3 DEF Deferring, PendingType
      <3> QED BY <2>7, <3>1, <3>2, <3>3 DEF Pending
    <2>8. ASSUME state \in Pending PROVE PendingType(state) \in EventTypes(p, state)
      BY <2>8, TypesNamed DEF Pending, PendingType
    <2>9. ASSUME state \in Pending
          PROVE  /\ [type |-> PendingType(state), payment |-> p, created |-> now, amount |-> a] \in events'
                 /\ \A d \in events' : d.payment = p /\ d.type = PendingType(state) => d.created = now /\ d.amount = a
      BY <2>7, <2>8, <2>9, MoveFacts
    <2> QED BY <1>3, <2>0, <2>5, <2>6, <2>9
  <1> QED BY <1>2, <1>3

LEMMA StripeStep == StripeInv /\ [Next]_vars => StripeInv'
  <1> SUFFICES ASSUME StripeInv, [Next]_vars PROVE StripeInv' OBVIOUS
  <1>0. PaymentTypes BY DEF StripeInv
  <1>1. CASE Tick
    <2>1. PaymentTypes' BY <1>0, <1>1 DEF Tick, PaymentTypes, stripe, history
    <2> QED BY <1>1, <2>1 DEF Tick, StripeInv, EventTypesOK, Ends, Told, Concluded, Plain, stripe, history
  <1>2. ASSUME NEW p \in Payments, NoEffect(p) PROVE StripeInv'
    <2>1. PaymentTypes' BY <1>0, <1>2 DEF NoEffect, Grows, PaymentTypes, stripe
    <2>2. EventTypesOK' BY <1>0, <1>2 DEF StripeInv, NoEffect, Grows, EventTypesOK, PaymentTypes, stripe
    <2> QED BY <1>2, <2>1, <2>2 DEF NoEffect, Grows, StripeInv, Ends, Told, Concluded, Plain, stripe
  <1>3. ASSUME NEW p \in Payments, NEW state \in States \ {"none"}, NEW a \in Nat, Move(p, state, a)
        PROVE  StripeInv'
    BY <1>0, <1>3, MoveTypes, MoveEvents, MoveConcluded, MovePlain DEF StripeInv
  <1>4. CASE UNCHANGED <<now, stripe, history>>
    BY <1>4 DEF StripeInv, PaymentTypes, EventTypesOK, Ends, Told, Concluded, Plain, stripe, history
  <1> QED BY <1>0, <1>1, <1>2, <1>3, <1>4, StripeKinds

-----------------------------------------------------------------------------
(* What is recorded *)

\* Recording adds one outcome at most, and has it, of this process or before.
LEMMA RecordedFacts ==
    ASSUME NEW q, NEW o
    PROVE  LET rec == [entity |-> o.entity, stage |-> o.stage, result |-> o.result,
                       at |-> o.at, amount |-> o.amount, process |-> q]
           IN  /\ Recorded(q, o) \in {log, log \cup {rec}}
               /\ \E r \in Recorded(q, o) : SameKey(o, r) /\ (r \in log \/ r = rec)
  BY DEF Recorded, SameKey

LEMMA OneMore ==
    ASSUME NEW q, NEW o, IsFiniteSet(log)
    PROVE  IsFiniteSet(Recorded(q, o)) /\ log \subseteq Recorded(q, o)
  BY FS_AddElement DEF Recorded

\* An outcome keeps its origin.
LEMMA OriginKept ==
    ASSUME StripeInv, StripeInv', [Next]_vars, NEW r \in log,
           (\E ev \in events : Tells(ev, r)) \/ (r.entity \in Payments /\ Unanswered(r))
    PROVE  (\E ev \in events' : Tells(ev, r)) \/ (r.entity \in Payments /\ Unanswered(r)')
  <1>0. PaymentTypes /\ PaymentTypes' BY DEF StripeInv
  <1>1. CASE \E ev \in events : Tells(ev, r)
    <2>1. events \subseteq events' BY <1>0, StripeKinds, MoveFacts DEF Tick, NoEffect, stripe
    <2> QED BY <1>1, <2>1
  <1>2. CASE r.entity \in Payments /\ Unanswered(r)
    <2>0. r.at \in Nat /\ r.at <= now BY <1>2 DEF Unanswered
    <2>1. CASE Tick BY <1>0, <1>2, <2>1 DEF Tick, Unanswered, PaymentTypes, stripe, history
    <2>2. ASSUME NEW p \in Payments, NoEffect(p) PROVE Unanswered(r)'
      BY <1>0, <1>2, <2>2 DEF NoEffect, Grows, Unanswered, PaymentTypes, stripe
    <2>3. ASSUME NEW p \in Payments, NEW state \in States \ {"none"}, NEW a \in Nat, Move(p, state, a)
          PROVE  Unanswered(r)'
      <3>1. r.stage = "auth" /\ r.result = "failed" /\ r.entity \in troubled' /\ r.at <= now' /\ r.amount \in tried'[r.entity]
        BY <1>0, <1>2, <2>3, MoveFacts DEF Unanswered, Move, Grows
      <3>2. status'[r.entity] \notin Open => r.at <= since'[r.entity]
        <4>1. CASE r.entity = p BY <1>0, <2>0, <2>3, <4>1, MoveFacts
        <4>2. CASE r.entity # p BY <1>0, <1>2, <2>3, <4>2, MoveFacts DEF Unanswered
        <4> QED BY <4>1, <4>2
      <3> QED BY <2>0, <3>1, <3>2 DEF Unanswered
    <2>4. CASE UNCHANGED <<now, stripe, history>>
      BY <1>2, <2>4 DEF Unanswered, stripe, history
    <2> QED BY <1>0, <1>2, <2>1, <2>2, <2>3, <2>4, StripeKinds
  <1> QED BY <1>1, <1>2

\* Nothing is recorded, and a new trouble is a decline.
Unrecorded(p) ==
    /\ log' = log /\ troubled' \in {troubled, troubled \cup {p}}
    /\ troubled' # troubled => \E ev \in events' : ev.payment = p /\ ev.type = "payment_intent.payment_failed"

\* A create without an answer is.
RecordsLost(p, q, o) ==
    /\ log' = Recorded(q, o) /\ o.entity = p /\ o.at = now /\ troubled' = troubled \cup {p}
    /\ \A r : SameKey(o, r) /\ r.at = o.at /\ r.amount = o.amount => Unanswered(r)'
    /\ \A r : SameKey(o, r) => r.entity = p /\ r.stage = "auth" /\ r.result = "failed"

LEMMA CallOrigin ==
    ASSUME PaymentTypes, Traces, NEW p \in Payments, NEW q \in Processes, Call(p, q)
    PROVE  Unrecorded(p) \/ \E o : RecordsLost(p, q, o)
  <1>1. PICK op \in Ops, a \in Amounts, answered \in BOOLEAN : Call(p, q)!(op, a, answered)
    BY DEF Call
  <1> DEFINE recorded == ~ answered /\ HasVC(op)
             o == [entity |-> p, stage |-> "auth", result |-> "failed", at |-> now, amount |-> a]
  <1>2. CASE recorded
    <2>1. log' = Recorded(q, o) BY <1>1, <1>2
    <2>2. troubled' = troubled \cup {p} BY <1>1, <1>2
    <2>3. now' = now /\ now \in Nat /\ a \in tried'[p] BY <1>1 DEF PaymentTypes
    <2>4. status'[p] \notin Open => since'[p] = now
      BY <1>1 DEF Become, stripe, PaymentTypes, Open, From, Ops
    <2>5. \A r : SameKey(o, r) /\ r.at = o.at /\ r.amount = o.amount => Unanswered(r)'
      BY <2>2, <2>3, <2>4 DEF SameKey, Unanswered
    <2>6. \A r : SameKey(o, r) => r.entity = p /\ r.stage = "auth" /\ r.result = "failed" BY DEF SameKey
    <2>7. o.entity = p /\ o.at = now OBVIOUS
    <2> HIDE DEF o
    <2>8. RecordsLost(p, q, o) BY <2>1, <2>2, <2>5, <2>6, <2>7 DEF RecordsLost
    <2> QED BY <2>8
  <1>3. CASE ~ recorded
    <2>1. log' = log BY <1>1, <1>3
    <2>2. troubled' \in {troubled, troubled \cup {p}} BY <1>1
    <2>3. ASSUME troubled' # troubled
          PROVE  \E ev \in events' : ev.payment = p /\ ev.type = "payment_intent.payment_failed"
      <3>1. Become(p, "declined", a) BY <1>1, <1>3, <2>3
      <3>2. [type |-> "payment_intent.payment_failed", payment |-> p, created |-> now, amount |-> a] \in events'
        BY <3>1, TypesNamed DEF Become
      <3> QED BY <3>2
    <2>4. Unrecorded(p) BY <2>1, <2>2, <2>3 DEF Unrecorded
    <2> QED BY <2>4
  <1> QED BY <1>2, <1>3

LEMMA LogStep ==
    ASSUME PayInv, StripeInv', [Next]_vars
    PROVE  Origins' /\ Traces'
  <1> USE DEF PayInv
  <1>0. PaymentTypes /\ now \in Nat BY DEF StripeInv, PaymentTypes
  <1>1. \A r \in log : (\E ev \in events' : Tells(ev, r)) \/ (r.entity \in Payments /\ Unanswered(r)')
    BY OriginKept DEF Origins
  <1>2. events \subseteq events' BY <1>0, StripeKinds, MoveFacts DEF Tick, NoEffect, stripe
  <1>3. now <= now' /\ now' \in Nat BY <1>0, StripeKinds, MoveFacts DEF Tick, NoEffect, StripeInv, PaymentTypes
  <1>4. ASSUME log \subseteq log', NEW o \in troubled
        PROVE  \/ \E r \in log' : r.entity = o /\ r.stage = "auth" /\ r.result = "failed" /\ r.at <= now'
               \/ \E ev \in events' : ev.payment = o /\ ev.type = "payment_intent.payment_failed"
    <2>1. CASE \E ev \in events : ev.payment = o /\ ev.type = "payment_intent.payment_failed" BY <1>2, <2>1
    <2>2. CASE \E r \in log : r.entity = o /\ r.stage = "auth" /\ r.result = "failed" /\ r.at <= now
      <3>1. PICK r \in log : r.entity = o /\ r.stage = "auth" /\ r.result = "failed" /\ r.at <= now BY <2>2
      <3>2. r.at \in Nat BY DEF Origins, Tells, Unanswered, StripeInv, EventTypesOK
      <3> QED BY <1>0, <1>3, <1>4, <3>1, <3>2
    <2> QED BY <2>1, <2>2 DEF Traces
  <1>5. ASSUME log' = log, troubled' = troubled PROVE Origins' /\ Traces'
    BY <1>1, <1>4, <1>5 DEF Origins, Traces
  <1>6. ASSUME NEW p \in Payments, Progress(p) PROVE Origins' /\ Traces'
    <2>1. log' = log BY <1>6 DEF Progress
    <2>2. CASE troubled' = troubled BY <1>5, <2>1, <2>2
    <2>3. CASE troubled' # troubled
      <3>1. Become(p, "declined", amount[p]) /\ troubled' = troubled \cup {p} BY <1>6, <2>3 DEF Progress
      <3>2. [type |-> "payment_intent.payment_failed", payment |-> p, created |-> now, amount |-> amount[p]] \in events'
        BY <3>1, TypesNamed DEF Become
      <3> QED BY <1>1, <1>4, <2>1, <3>1, <3>2 DEF Origins, Traces
    <2> QED BY <2>2, <2>3
  <1>7. ASSUME NEW p \in Payments, NEW q \in Processes, Call(p, q) PROVE Origins' /\ Traces'
    <2>1. CASE Unrecorded(p)
      <3>1. log' = log /\ troubled' \in {troubled, troubled \cup {p}} BY <2>1 DEF Unrecorded
      <3>2. CASE troubled' = troubled BY <1>5, <3>1, <3>2
      <3>3. CASE troubled' = troubled \cup {p} /\ troubled' # troubled
        <4>1. \E ev \in events' : ev.payment = p /\ ev.type = "payment_intent.payment_failed"
          BY <2>1, <3>3 DEF Unrecorded
        <4>2. Origins' BY <1>1, <3>1 DEF Origins
        <4>3. Traces' BY <1>4, <3>1, <3>3, <4>1 DEF Traces
        <4> QED BY <4>2, <4>3
      <3> QED BY <3>1, <3>2, <3>3
    <2>2. ASSUME NEW o, RecordsLost(p, q, o) PROVE Origins' /\ Traces'
      <3> DEFINE rec == [entity |-> o.entity, stage |-> o.stage, result |-> o.result,
                         at |-> o.at, amount |-> o.amount, process |-> q]
      <3>0. log' = Recorded(q, o) /\ troubled' = troubled \cup {p} BY <2>2 DEF RecordsLost
      <3>1. IsFiniteSet(log') /\ log \subseteq log' BY <3>0, OneMore DEF Origins
      <3>2. log' \subseteq log \cup {rec} BY <3>0, RecordedFacts
      <3>3. rec.entity = p /\ rec.at = now /\ Unanswered(rec)' BY <2>2 DEF SameKey, RecordsLost
      <3>4. PICK r \in log' : SameKey(o, r) /\ (r \in log \/ r = rec) BY <3>0, RecordedFacts
      <3>5. r.at <= now'
        <4>1. CASE r = rec BY <1>0, <1>3, <3>3, <4>1
        <4>2. CASE r \in log
          <5>1. r.at \in Nat /\ r.at <= now
            BY <1>0, <4>2 DEF Origins, Tells, Unanswered, StripeInv, EventTypesOK, PaymentTypes
          <5> QED BY <1>0, <1>3, <5>1
        <4> QED BY <3>4, <4>1, <4>2
      <3>6. r.entity = p /\ r.stage = "auth" /\ r.result = "failed" BY <2>2, <3>4 DEF RecordsLost
      <3> HIDE DEF rec
      <3> QED BY <1>1, <1>4, <3>0, <3>1, <3>2, <3>3, <3>4, <3>5, <3>6 DEF Origins, Traces
    <2> QED BY <1>0, <1>7, <2>1, <2>2, CallOrigin
  <1>8. ASSUME NEW ev \in events, NEW q \in Processes, Deliver(ev, q) PROVE Origins' /\ Traces'
    <2>1. CASE ~ Mapped(ev) BY <1>5, <1>8, <2>1 DEF Deliver, history
    <2>2. CASE Mapped(ev)
      <3> DEFINE o == OutcomeOf(ev)
                 rec == [entity |-> o.entity, stage |-> o.stage, result |-> o.result,
                         at |-> o.at, amount |-> o.amount, process |-> q]
      <3>1. log' = Recorded(q, o) /\ troubled' = troubled BY <1>8, <2>2 DEF Deliver, history
      <3>2. IsFiniteSet(log') /\ log \subseteq log' BY <3>1, OneMore DEF Origins
      <3>3. log' \subseteq log \cup {rec} BY <3>1, RecordedFacts
      <3>4. Tells(ev, rec) BY <2>2 DEF OutcomeOf, Tells
      <3> HIDE DEF rec
      <3> QED BY <1>1, <1>2, <1>4, <3>1, <3>2, <3>3, <3>4 DEF Origins, Traces
    <2> QED BY <2>1, <2>2
  <1>9. CASE Tick \/ (\E p \in Payments : Dispute(p)) \/ UNCHANGED vars
    BY <1>5, <1>9 DEF Tick, Dispute, vars, history
  <1> QED BY <1>6, <1>7, <1>8, <1>9 DEF Next

LEMMA PaymentInvariant == Spec => []PayInv
  <1>1. Init => PayInv
    BY StripeInit, FS_EmptySet DEF Init, PayInv, Origins, Traces
  <1>2. PayInv /\ [Next]_vars => PayInv'
    BY StripeStep, LogStep DEF PayInv
  <1> QED BY <1>1, <1>2, PTL DEF Spec

-----------------------------------------------------------------------------
(* Events that come late or twice *)

LEMMA LogGrows ==
    ASSUME [Next]_vars
    PROVE  log \subseteq log' /\ \E rec : log' \subseteq log \cup {rec}
  <1>1. \A q, o : log \subseteq Recorded(q, o) /\ \E rec : Recorded(q, o) \subseteq log \cup {rec}
    BY DEF Recorded
  <1>2. ASSUME NEW p \in Payments, NEW q \in Processes, Call(p, q)
        PROVE  log' = log \/ \E o : log' = Recorded(q, o)
    BY <1>2 DEF Call
  <1>3. ASSUME NEW ev \in events, NEW q \in Processes, Deliver(ev, q)
        PROVE  log' = log \/ \E o : log' = Recorded(q, o)
    BY <1>3 DEF Deliver
  <1>4. ASSUME ~ \E p \in Payments, q \in Processes : Call(p, q), ~ \E ev \in events, q \in Processes : Deliver(ev, q)
        PROVE  log' = log
    BY <1>4 DEF Next, Tick, Progress, Dispute, vars
  <1> QED BY <1>1, <1>2, <1>3, <1>4

\* The loss and the customers of a window are read off its outcomes only.
LEMMA WindowOnly ==
    ASSUME NEW a, NEW b, NEW req, \A result : InWindow(a, req, result) = InWindow(b, req, result)
    PROVE  RealizedMinor(a, req) = RealizedMinor(b, req) /\ Hit(a, req) = Hit(b, req)
  <1>1. Lost(a, req) = Lost(b, req) BY DEF Lost, Recovered
  <1>2. \A e : LossOf(a, req, e) = LossOf(b, req, e) BY DEF LossOf
  <1> QED BY <1>1, <1>2 DEF RealizedMinor, Hit

LEMMA RequestTypes ==
    ASSUME PaymentTypes, NEW req \in Requests
    PROVE  req.from \in Nat /\ req.to \in Nat
  BY PaymentsAssumption DEF Requests, Request, Froms, PaymentTypes

LEMMA LateStep ==
    ASSUME PayInv, [Next]_vars, NEW ev \in events, NEW q \in Processes, Deliver(ev, q),
           NEW req \in Requests, ev.created < req.from \/ ev.created >= req.to
    PROVE  RealizedMinor(log', req) = RealizedMinor(log, req) /\ Hit(log', req) = Hit(log, req)
  <1>1. log' \subseteq log \cup {[entity |-> ev.payment, stage |-> EventMap[ev.type][1], result |-> EventMap[ev.type][2],
                                at |-> ev.created, amount |-> ev.amount, process |-> q]}
    BY DEF Deliver, Recorded, OutcomeOf
  <1>2. log \subseteq log' BY LogGrows
  <1>3. ev.created \in Nat /\ req.from \in Nat /\ req.to \in Nat
    BY RequestTypes DEF PayInv, StripeInv, EventTypesOK
  <1>4. \A r \in log' \ log : r.at = ev.created BY <1>1
  <1>5. \A r \in log' \ log : ~ (req.from <= r.at /\ r.at < req.to) BY <1>3, <1>4
  <1>6. \A result : InWindow(log', req, result) = InWindow(log, req, result)
    BY <1>2, <1>5 DEF InWindow, Matching
  <1> QED BY <1>6, WindowOnly

\* An event that comes late moves no loss into a window it is not of
\* (VerifyAndMap, RealizedLeg), for every number of payments and processes.
THEOREM LateEventsMoveNothing == Spec => LateEventsStayPut
  <1>1. PayInv /\ [Next]_vars =>
          [\A ev \in events, q \in Processes : Deliver(ev, q) =>
             \A req \in Requests :
                (ev.created < req.from \/ ev.created >= req.to) =>
                   /\ RealizedMinor(log', req) = RealizedMinor(log, req)
                   /\ Hit(log', req) = Hit(log, req)]_log
    BY LateStep
  <1> QED BY <1>1, PaymentInvariant, PTL DEF Spec, LateEventsStayPut

\* Logs that hold the same outcomes, perhaps of other processes.
Alike(a, b) == \A o \in a : \E s \in b : SameOutcome(o, s)

LEMMA AlikeMatching ==
    ASSUME NEW a, NEW b, Alike(a, b), NEW req, NEW result, NEW from, NEW to, NEW o \in Matching(a, req, result, from, to)
    PROVE  \E s \in Matching(b, req, result, from, to) : SameOutcome(o, s)
  BY DEF Alike, Matching, SameOutcome, SameKey

\* What the figures read of a is in b.
ReadsWithin(a, b, req) ==
    /\ \A result : Entities(InWindow(a, req, result)) \subseteq Entities(InWindow(b, req, result))
    /\ \A e, result : {o.amount : o \in Of(e, InWindow(a, req, result))} \subseteq {o.amount : o \in Of(e, InWindow(b, req, result))}
    /\ Items(a, req) \subseteq Items(b, req)
    /\ \A i : {o.amount : o \in DeferralsOf(a, req, i)} \subseteq {o.amount : o \in DeferralsOf(b, req, i)}
    /\ \A i : {k \in Buckets : \E o \in Deferrals(a, req, k) : Item(o) = i} \subseteq {k \in Buckets : \E o \in Deferrals(b, req, k) : Item(o) = i}
    /\ \A e : \A t \in Of(e, Terminals(a, req)) : \E s \in Of(e, Terminals(b, req)) : s.stage = t.stage

LEMMA AlikeParts ==
    ASSUME NEW a, NEW b, Alike(a, b), NEW req
    PROVE  ReadsWithin(a, b, req)
  <1>1. \A result : \A o \in InWindow(a, req, result) : \E s \in InWindow(b, req, result) : SameOutcome(o, s)
    BY AlikeMatching DEF InWindow
  <1>2. \A k : \A o \in Deferrals(a, req, k) : \E s \in Deferrals(b, req, k) : SameOutcome(o, s)
    BY AlikeMatching DEF Deferrals
  <1>3. \A o \in Terminals(a, req) : \E s \in Terminals(b, req) : SameOutcome(o, s)
    BY AlikeMatching DEF Terminals
  <1>4. \A o, s : SameOutcome(o, s) => o.entity = s.entity /\ o.stage = s.stage /\ o.amount = s.amount /\ Item(o) = Item(s)
    BY DEF SameOutcome, SameKey, Item
  <1>5. \A result : Entities(InWindow(a, req, result)) \subseteq Entities(InWindow(b, req, result))
    BY <1>1, <1>4 DEF Entities
  <1>6. \A e, result : {o.amount : o \in Of(e, InWindow(a, req, result))} \subseteq {o.amount : o \in Of(e, InWindow(b, req, result))}
    BY <1>1, <1>4 DEF Of
  <1>7. Items(a, req) \subseteq Items(b, req) BY <1>2, <1>4 DEF Items
  <1>8. \A i : {o.amount : o \in DeferralsOf(a, req, i)} \subseteq {o.amount : o \in DeferralsOf(b, req, i)}
    <2> SUFFICES ASSUME NEW i, NEW o \in DeferralsOf(a, req, i) PROVE \E s \in DeferralsOf(b, req, i) : s.amount = o.amount
      OBVIOUS
    <2>1. PICK k \in Buckets : o \in Deferrals(a, req, k) /\ Item(o) = i BY DEF DeferralsOf
    <2>2. PICK s \in Deferrals(b, req, k) : SameOutcome(o, s) BY <1>2, <2>1
    <2> QED BY <1>4, <2>1, <2>2 DEF DeferralsOf
  <1>9. \A i : {k \in Buckets : \E o \in Deferrals(a, req, k) : Item(o) = i} \subseteq {k \in Buckets : \E o \in Deferrals(b, req, k) : Item(o) = i}
    BY <1>2, <1>4
  <1>10. \A e : \A t \in Of(e, Terminals(a, req)) : \E s \in Of(e, Terminals(b, req)) : s.stage = t.stage
    BY <1>3, <1>4 DEF Of
  <1> QED BY <1>5, <1>6, <1>7, <1>8, <1>9, <1>10 DEF ReadsWithin

LEMMA AlikeFigures ==
    ASSUME NEW a, NEW b, Alike(a, b), Alike(b, a), NEW req
    PROVE  /\ RealizedMinor(a, req) = RealizedMinor(b, req)
           /\ DeferredMinor(a, req) = DeferredMinor(b, req)
           /\ Breaches(a, req) = Breaches(b, req)
           /\ ProjectedLostMinor(a, req) = ProjectedLostMinor(b, req)
           /\ Hit(a, req) = Hit(b, req)
           /\ Severity(a, req) = Severity(b, req)
  <1>0. ReadsWithin(a, b, req) /\ ReadsWithin(b, a, req) BY AlikeParts
  <1>1. ASSUME NEW result PROVE Entities(InWindow(a, req, result)) = Entities(InWindow(b, req, result))
    <2>1. Entities(InWindow(a, req, result)) \subseteq Entities(InWindow(b, req, result)) BY <1>0 DEF ReadsWithin
    <2>2. Entities(InWindow(b, req, result)) \subseteq Entities(InWindow(a, req, result)) BY <1>0 DEF ReadsWithin
    <2> QED BY <2>1, <2>2
  <1>2. Lost(a, req) = Lost(b, req) /\ Hit(a, req) = Hit(b, req) BY <1>1 DEF Lost, Recovered, Hit
  <1>3. \A e, result : {o.amount : o \in Of(e, InWindow(a, req, result))} = {o.amount : o \in Of(e, InWindow(b, req, result))}
    BY <1>0 DEF ReadsWithin
  <1>4. \A e : LossOf(a, req, e) = LossOf(b, req, e) BY <1>3 DEF LossOf, Largest
  <1>5. RealizedMinor(a, req) = RealizedMinor(b, req) BY <1>2, <1>4 DEF RealizedMinor
  <1>6. Items(a, req) = Items(b, req) BY <1>0 DEF ReadsWithin
  <1>7. \A i : (\E t \in Of(i[2], Terminals(a, req)) : Resolves(i[1], t.stage)) <=> (\E t \in Of(i[2], Terminals(b, req)) : Resolves(i[1], t.stage))
    BY <1>0 DEF ReadsWithin
  <1>8. InFlight(a, req) = InFlight(b, req) BY <1>6, <1>7 DEF InFlight
  <1>9. \A i : {o.amount : o \in DeferralsOf(a, req, i)} = {o.amount : o \in DeferralsOf(b, req, i)} BY <1>0 DEF ReadsWithin
  <1>10. \A i : DeferredOf(a, req, i) = DeferredOf(b, req, i) BY <1>9 DEF DeferredOf, Largest
  <1>11. DeferredMinor(a, req) = DeferredMinor(b, req) BY <1>8, <1>10 DEF DeferredMinor
  <1>12. \A i : {k \in Buckets : \E o \in Deferrals(a, req, k) : Item(o) = i} = {k \in Buckets : \E o \in Deferrals(b, req, k) : Item(o) = i}
    BY <1>0 DEF ReadsWithin
  <1>13. \A i : BucketOf(a, req, i) = BucketOf(b, req, i) BY <1>12 DEF BucketOf
  <1>14. Breaches(a, req) = Breaches(b, req) BY <1>8, <1>13 DEF Breaches
  <1>15. ProjectedLostMinor(a, req) = ProjectedLostMinor(b, req) BY <1>10, <1>14 DEF ProjectedLostMinor
  <1>16. AtRisk(a, req) = AtRisk(b, req) BY <1>5, <1>11 DEF AtRisk
  <1>17. Severity(a, req) = Severity(b, req) BY <1>16 DEF Severity
  <1> QED BY <1>2, <1>5, <1>11, <1>14, <1>15, <1>17

LEMMA RedeliveryStep ==
    ASSUME [Next]_vars, NEW r \in log' \ log, \E s \in log : SameOutcome(r, s), NEW req
    PROVE  Figures(req)' = Figures(req)
  <1>1. log \subseteq log' BY LogGrows
  <1>2. PICK rec : log' \subseteq log \cup {rec} BY LogGrows
  <1>3. r = rec BY <1>2
  <1>4. Alike(log', log) BY <1>2, <1>3 DEF Alike, SameOutcome, SameKey
  <1>5. Alike(log, log') BY <1>1 DEF Alike, SameOutcome, SameKey
  <1> QED BY <1>4, <1>5, AlikeFigures DEF Figures

\* No figure of a report depends on how many processes recorded an event
\* (RealizedLeg, deferredFromEvents, Customers, SuggestSeverity: groups by
\* entity with the largest amount), whatever the windows and the scope.
THEOREM DuplicatesChangeNothing == Spec => RedeliveryChangesNothing
  <1>1. [Next]_vars =>
          [\A r \in log' \ log : (\E s \in log : SameOutcome(r, s))
             => \A req \in Requests : Figures(req)' = Figures(req)]_log
    BY RedeliveryStep
  <1> QED BY <1>1, PTL DEF Spec, RedeliveryChangesNothing

-----------------------------------------------------------------------------
(* The largest of finitely many *)

LEMMA LeastOf ==
    ASSUME NEW T, T \subseteq Nat, T # {}
    PROVE  \E x \in T : \A y \in T : x <= y
  <1>1. PICK x \in T : \A y \in T : ~ (<<y, x>> \in OpToRel(<, Nat)) BY NatLessThanWellFounded, WFMin
  <1>2. \A y \in T : y \in Nat OBVIOUS
  <1>3. ASSUME NEW y \in T PROVE x <= y
    <2>1. x \in Nat /\ y \in Nat BY <1>2
    <2>2. ~ (y < x) BY <1>1, <2>1 DEF OpToRel
    <2> QED BY <2>1, <2>2
  <1> QED BY <1>3

HasMax(S) == \E x \in S : \A y \in S : x >= y

\* The smallest set without one would have a smaller one.
LEMMA FiniteHasMax ==
    ASSUME NEW S, S \subseteq Nat, IsFiniteSet(S), S # {}
    PROVE  HasMax(S)
  <1> DEFINE Bad(n) == \E R \in SUBSET Nat : IsFiniteSet(R) /\ R # {} /\ Cardinality(R) = n /\ ~ HasMax(R)
             T == {n \in Nat : Bad(n)}
  <1>1. SUFFICES ASSUME ~ HasMax(S) PROVE FALSE OBVIOUS
  <1>2. Cardinality(S) \in T BY <1>1, FS_CardinalityType
  <1>3. PICK n \in T : \A m \in T : n <= m
    <2>1. T \subseteq Nat /\ T # {} BY <1>2
    <2> HIDE DEF T
    <2> QED BY <2>1, LeastOf
  <1>4. PICK R \in SUBSET Nat : IsFiniteSet(R) /\ R # {} /\ Cardinality(R) = n /\ ~ HasMax(R) BY <1>3
  <1>5. PICK x \in R : TRUE BY <1>4
  <1> DEFINE Q == R \ {x}
  <1>6. IsFiniteSet(Q) /\ Cardinality(Q) = n - 1 /\ n \in Nat BY <1>3, <1>4, <1>5, FS_RemoveElement
  <1>7. Q # {} BY <1>4, <1>5 DEF HasMax
  <1>8. HasMax(Q)
    <2>1. SUFFICES ASSUME ~ HasMax(Q) PROVE FALSE OBVIOUS
    <2>2. Cardinality(Q) \in Nat BY <1>6, FS_CardinalityType
    <2>3. Q \in SUBSET Nat BY <1>4
    <2> HIDE DEF Q
    <2>4. Bad(n - 1) BY <1>6, <1>7, <2>1, <2>3
    <2>5. n - 1 \in T BY <1>6, <2>2, <2>4
    <2> HIDE DEF T, Bad
    <2> QED BY <1>3, <1>6, <2>2, <2>5
  <1>9. PICK y \in Q : \A z \in Q : y >= z BY <1>8 DEF HasMax
  <1>10. CASE x >= y BY <1>4, <1>5, <1>9, <1>10 DEF HasMax
  <1>11. CASE ~ (x >= y) BY <1>4, <1>5, <1>9, <1>11 DEF HasMax
  <1> QED BY <1>10, <1>11

LEMMA ImageFinite ==
    ASSUME NEW S, IsFiniteSet(S), NEW f, DOMAIN f = S
    PROVE  IsFiniteSet({f[x] : x \in S})
  <1> DEFINE T == {f[x] : x \in S}
             g == [x \in S |-> f[x]]
  <1>1. g \in Surjection(S, T) BY DEF Surjection
  <1> HIDE DEF T, g
  <1>2. IsFiniteSet(T) BY <1>1, FS_Surjection
  <1> QED BY <1>2 DEF T

LEMMA AmountsFinite ==
    ASSUME NEW S, IsFiniteSet(S)
    PROVE  IsFiniteSet({o.amount : o \in S})
  <1> DEFINE g == [o \in S |-> o.amount]
  <1>1. DOMAIN g = S /\ \A o \in S : g[o] = o.amount OBVIOUS
  <1>2. {g[o] : o \in S} = {o.amount : o \in S} BY <1>1
  <1> HIDE DEF g
  <1>3. IsFiniteSet({g[o] : o \in S}) BY <1>1, ImageFinite
  <1> QED BY <1>2, <1>3

LEMMA MaxOf ==
    ASSUME NEW S, S \subseteq Nat, IsFiniteSet(S), S # {}
    PROVE  Max(S) \in S /\ \A y \in S : Max(S) >= y
  BY FiniteHasMax DEF HasMax, Max

-----------------------------------------------------------------------------
(* A loss is a failure *)

LEMMA LogFacts ==
    ASSUME PayInv, NEW r \in log
    PROVE  /\ r.entity \in Payments /\ r.at \in Nat /\ r.at <= now
           /\ r.stage \in Stages /\ r.amount \in tried[r.entity] /\ r.amount \in Nat
           /\ status[r.entity] \notin Open => r.at <= since[r.entity]
           /\ r.result \in {"success", "failed", "deferred"}
           /\ r.result # "failed" => \E ev \in events : Tells(ev, r)
           /\ r.result = "failed" => r.entity \in troubled \/ status[r.entity] = "disputed"
  <1> USE DEF PayInv, StripeInv
  <1>1. CASE \E ev \in events : Tells(ev, r)
    <2>1. PICK ev \in events : Tells(ev, r) BY <1>1
    <2>2. r.entity = ev.payment /\ r.at = ev.created /\ r.amount = ev.amount /\ ev.type \in DOMAIN EventMap
          /\ r.stage = EventMap[ev.type][1] /\ r.result = EventMap[ev.type][2]
      BY <2>1 DEF Tells, Mapped
    <2>3. ev.payment \in Payments /\ ev.created \in Nat /\ ev.created <= since[ev.payment] /\ ev.amount \in tried[ev.payment]
      BY DEF EventTypesOK
    <2>4. since[ev.payment] <= now /\ since[ev.payment] \in Nat /\ now \in Nat /\ tried[ev.payment] \subseteq Nat
      BY <2>3, PaymentsAssumption DEF PaymentTypes
    <2>5. r.stage \in Stages /\ r.result \in {"success", "failed", "deferred"}
      BY <2>2, EventMeaning, PaymentsAssumption
    <2>6. r.result = "failed" => ev.type \in Failures \cup {"charge.dispute.created"} BY <2>2, EventMeaning
    <2>7. /\ ev.type \in Failures => ev.payment \in troubled
          /\ ev.type = "charge.dispute.created" => status[ev.payment] = "disputed"
      BY DEF Ends
    <2> QED BY <2>1, <2>2, <2>3, <2>4, <2>5, <2>6, <2>7
  <1>2. CASE r.entity \in Payments /\ Unanswered(r)
    BY <1>2, PaymentsAssumption DEF Unanswered, PaymentTypes
  <1> QED BY <1>1, <1>2 DEF Origins

\* A recorded success is of a payment that succeeded.
LEMMA SuccessFacts ==
    ASSUME PayInv, NEW r \in log, r.result = "success"
    PROVE  /\ status[r.entity] \in {"succeeded", "disputed"}
           /\ status[r.entity] = "succeeded" => r.at = since[r.entity]
  <1>1. PICK ev \in events : Tells(ev, r) BY LogFacts
  <1>2. ev.type \in Successes BY <1>1, EventMeaning DEF Tells, Mapped
  <1> QED BY <1>1, <1>2 DEF Tells, PayInv, StripeInv, Ends

LEMMA WindowUntilNow ==
    ASSUME PayInv, NEW from \in Froms, NEW result
    PROVE  InWindow(log, UntilNow(from), result) = {o \in log : o.result = result /\ from <= o.at}
  <1>1. \A o \in log : o.at \in Nat /\ o.at < now + 1 /\ o.stage \in Stages
    BY LogFacts DEF PayInv, StripeInv, PaymentTypes
  <1> QED BY <1>1 DEF InWindow, Matching, UntilNow, Request

LEMMA CollectedIsNoLoss ==
    ASSUME PayInv, NEW p \in Payments, Informed(p, 0), status[p] = "succeeded", NEW from \in Froms
    PROVE  p \notin Lost(log, UntilNow(from))
  <1>1. PICK ev \in events : ev.type = "payment_intent.succeeded" /\ ev.payment = p
    BY DEF PayInv, StripeInv, Told
  <1>2. Mapped(ev) /\ 0 <= ev.created BY <1>1, EventStages DEF Mapped, Successes, PayInv, StripeInv, EventTypesOK
  <1>3. PICK r \in log : r.entity = p /\ r.result = "success" BY <1>1, <1>2, EventStages DEF Informed
  <1>4. r.at = since[p] BY <1>3, SuccessFacts
  <1>5. SUFFICES ASSUME p \in Entities(InWindow(log, UntilNow(from), "failed")), p \notin Recovered(log, UntilNow(from))
                 PROVE  FALSE
    BY DEF Lost
  <1>6. PICK o \in log : o.entity = p /\ from <= o.at BY <1>5, WindowUntilNow DEF Entities
  <1>7. from <= r.at
    BY <1>4, <1>6, LogFacts DEF Open, Froms, PayInv, StripeInv, PaymentTypes
  <1>8. r \in InWindow(log, UntilNow(from), "success") BY <1>3, <1>7, WindowUntilNow
  <1> QED BY <1>3, <1>5, <1>8 DEF Recovered, Entities

LEMMA TroubleIsLoss ==
    ASSUME PayInv, NEW p \in troubled, Informed(p, 0), status[p] \in Open
    PROVE  p \in Lost(log, UntilNow(0)) /\ LossOf(log, UntilNow(0), p) \in tried[p]
  <1>0. p \in Payments /\ 0 \in Froms
    BY DEF PayInv, Traces, StripeInv, PaymentTypes, Froms
  <1>1. \E r \in log : r.entity = p /\ r.result = "failed"
    <2>1. CASE \E ev \in events : ev.payment = p /\ ev.type = "payment_intent.payment_failed"
      <3>1. PICK ev \in events : ev.payment = p /\ ev.type = "payment_intent.payment_failed" BY <2>1
      <3>2. Mapped(ev) /\ 0 <= ev.created BY <3>1, EventStages DEF Mapped, Failures, PayInv, StripeInv, EventTypesOK
      <3> QED BY <3>1, <3>2, EventStages DEF Informed
    <2> QED BY <2>1 DEF PayInv, Traces
  <1>2. PICK r \in log : r.entity = p /\ r.result = "failed" BY <1>1
  <1>3. r \in InWindow(log, UntilNow(0), "failed") BY <1>0, <1>2, LogFacts, WindowUntilNow
  <1>4. p \notin Recovered(log, UntilNow(0))
    <2>1. \A s \in InWindow(log, UntilNow(0), "success") : s \in log /\ s.result = "success" BY <1>0, WindowUntilNow
    <2>2. \A s \in InWindow(log, UntilNow(0), "success") : s.entity # p BY <2>1, SuccessFacts DEF Open
    <2> QED BY <2>2 DEF Recovered, Entities
  <1>5. p \in Lost(log, UntilNow(0)) BY <1>2, <1>3, <1>4 DEF Lost, Entities
  <1> DEFINE S == Of(p, InWindow(log, UntilNow(0), "failed"))
             A == {o.amount : o \in S}
  <1>6. S \subseteq log /\ r \in S /\ \A o \in S : o.entity = p BY <1>0, <1>2, <1>3, WindowUntilNow DEF Of
  <1>7. IsFiniteSet(A) /\ A # {}
    <2>1. IsFiniteSet(S) BY <1>6, FS_Subset DEF PayInv, Origins
    <2>2. IsFiniteSet(A) BY <2>1, AmountsFinite
    <2> QED BY <1>6, <2>2
  <1>8. A \subseteq tried[p] /\ A \subseteq Nat BY <1>6, LogFacts
  <1>9. Max(A) \in A BY <1>7, <1>8, MaxOf
  <1> QED BY <1>5, <1>8, <1>9 DEF LossOf, Largest

\* The realized leg counts no payment that was collected, and every payment
\* whose attempts all failed, for an amount that was tried.
THEOREM LossesAreFailures == Spec => []LossIsFailure
  <1>1. PayInv => LossIsFailure BY CollectedIsNoLoss, TroubleIsLoss DEF LossIsFailure
  <1> QED BY <1>1, PaymentInvariant, PTL

-----------------------------------------------------------------------------
(* What is pending is in flight *)

LEMMA LookbackType == Lookback \in Nat
  <1> DEFINE F == {Deadline[s] : s \in DOMAIN Deadline}
  <1>1. IsFiniteSet({"auth", "capture", "settle", "dispute"})
    <2>1. IsFiniteSet({} \cup {"auth"}) BY FS_EmptySet, FS_AddElement
    <2>2. IsFiniteSet(({} \cup {"auth"}) \cup {"capture"}) BY <2>1, FS_AddElement
    <2>3. IsFiniteSet((({} \cup {"auth"}) \cup {"capture"}) \cup {"settle"}) BY <2>2, FS_AddElement
    <2>4. IsFiniteSet(((({} \cup {"auth"}) \cup {"capture"}) \cup {"settle"}) \cup {"dispute"}) BY <2>3, FS_AddElement
    <2>5. ((({} \cup {"auth"}) \cup {"capture"}) \cup {"settle"}) \cup {"dispute"} = {"auth", "capture", "settle", "dispute"} OBVIOUS
    <2> QED BY <2>4, <2>5
  <1>2. IsFiniteSet(DOMAIN Deadline) BY <1>1, FS_Subset, LegsAssumption, PaymentsAssumption
  <1>3. IsFiniteSet(F) BY <1>2, ImageFinite
  <1>4. F \subseteq Nat BY LegsAssumption
  <1>5. IsFiniteSet(F \cup {MinLookback}) BY <1>3, FS_AddElement
  <1>6. F \cup {MinLookback} = {MinLookback} \cup F OBVIOUS
  <1>7. {MinLookback} \cup F \subseteq Nat BY <1>4, LegsAssumption
  <1>8. Max({MinLookback} \cup F) \in {MinLookback} \cup F BY <1>5, <1>6, <1>7, MaxOf
  <1> HIDE DEF F
  <1>9. Max({MinLookback} \cup F) \in Nat BY <1>7, <1>8
  <1> QED BY <1>9 DEF Lookback, F

LEMMA SinceType ==
    ASSUME NEW from \in Froms, PaymentTypes
    PROVE  DeferredSince(UntilNow(from)) \in Int /\ UntilNow(from).to = now + 1 /\ now \in Nat
  BY LookbackType DEF DeferredSince, UntilNow, Request, Froms, PaymentTypes

\* The range of a bucket holds the deferrals at least as old as its floor.
LEMMA DeferralsUntilNow ==
    ASSUME PayInv, NEW from \in Froms, NEW b \in Buckets
    PROVE  Deferrals(log, UntilNow(from), b)
             = {o \in log : /\ o.result = "deferred" /\ DeferredSince(UntilNow(from)) <= o.at
                           /\ Floors[b] <= now + 1 - o.at}
  <1>1. Floors[b] \in Nat BY LegsAssumption DEF Buckets
  <1>2. UntilNow(from).to = now + 1 /\ UntilNow(from).stages = Stages /\ now \in Nat
    BY DEF UntilNow, Request, PayInv, StripeInv, PaymentTypes
  <1>3. ASSUME NEW o \in log PROVE o.at < CutEnd(UntilNow(from).to, b) <=> Floors[b] <= now + 1 - o.at
    <2>1. o.at \in Nat /\ o.at <= now BY LogFacts
    <2> QED BY <1>1, <1>2, <2>1 DEF CutEnd
  <1>4. \A o \in log : o.stage \in Stages BY LogFacts
  <1> QED BY <1>2, <1>3, <1>4 DEF Deferrals, Matching

LEMMA InReach ==
    ASSUME PayInv, NEW from \in Froms
    PROVE  /\ UNION {Deferrals(log, UntilNow(from), b) : b \in Buckets}
                = {o \in log : o.result = "deferred" /\ DeferredSince(UntilNow(from)) <= o.at}
           /\ Terminals(log, UntilNow(from))
                = {o \in log : o.result \in {"success", "failed"} /\ DeferredSince(UntilNow(from)) <= o.at}
  <1>1. 1 \in Buckets /\ Floors[1] = 0 BY LegsAssumption DEF Buckets
  <1>2. now \in Nat /\ \A o \in log : /\ o.at \in Nat /\ o.at <= now /\ o.at < now + 1 /\ 0 <= now + 1 - o.at /\ o.stage \in Stages
                                    /\ o.result # "abandoned"
    BY LogFacts DEF PayInv, StripeInv, PaymentTypes
  <1>3. UNION {Deferrals(log, UntilNow(from), b) : b \in Buckets}
           = {o \in log : o.result = "deferred" /\ DeferredSince(UntilNow(from)) <= o.at}
    BY <1>1, <1>2, DeferralsUntilNow
  <1>4. UntilNow(from).to = now + 1 /\ UntilNow(from).stages = Stages BY DEF UntilNow, Request
  <1>5. \A r : Matching(log, UntilNow(from), r, DeferredSince(UntilNow(from)), UntilNow(from).to)
                 = {o \in log : o.result = r /\ DeferredSince(UntilNow(from)) <= o.at}
    BY <1>2, <1>4 DEF Matching
  <1>6. Terminals(log, UntilNow(from))
          = {o \in log : o.result \in {"success", "failed"} /\ DeferredSince(UntilNow(from)) <= o.at}
    BY <1>2, <1>5 DEF Terminals
  <1> QED BY <1>3, <1>6

\* A deferral is told by an event of one of two types.
LEMMA DeferralFacts ==
    ASSUME PayInv, NEW o \in log, o.result = "deferred"
    PROVE  \E d \in events : /\ Tells(d, o) /\ d.type \in Deferring
                            /\ o.stage = IF d.type = "payment_intent.processing" THEN "capture" ELSE "auth"
  <1>1. PICK d \in events : Tells(d, o) BY LogFacts
  <1>2. d.type \in Deferring BY <1>1, EventMeaning DEF Tells, Mapped
  <1> QED BY <1>1, <1>2, EventStages DEF Tells, Deferring

LEMMA ConcludedIsNotInFlight ==
    ASSUME PayInv, NEW p \in Payments, NEW from \in Froms, Informed(p, DeferredSince(UntilNow(from))),
           status[p] \notin Pending \cup {"canceled"}
    PROVE  ItemsOf(p, UntilNow(from)) = {}
  <1> DEFINE req == UntilNow(from)
  <1>1. SUFFICES ASSUME NEW i \in InFlight(log, req), i[2] = p PROVE FALSE BY DEF ItemsOf
  <1>2. PICK o \in log : o.result = "deferred" /\ DeferredSince(req) <= o.at /\ Item(o) = i
    BY <1>1, InReach DEF InFlight, Items
  <1>3. o.entity = p /\ o.stage = i[1] BY <1>1, <1>2 DEF Item
  <1>4. PICK d \in events : Tells(d, o) /\ d.type \in Deferring /\ o.stage \in {"auth", "capture"}
    BY <1>2, DeferralFacts
  <1>5. d.payment = p /\ d.created = o.at BY <1>3, <1>4 DEF Tells
  <1>6. PICK ev \in events : /\ ev.type \in {"payment_intent.succeeded", "payment_intent.payment_failed"}
                             /\ ev.payment = p /\ o.at <= ev.created
    BY <1>4, <1>5 DEF PayInv, StripeInv, Concluded
  <1>7. DeferredSince(req) \in Int /\ o.at \in Nat /\ ev.created \in Nat
    BY SinceType, LogFacts DEF PayInv, StripeInv, EventTypesOK
  <1>8. DeferredSince(req) <= ev.created BY <1>2, <1>6, <1>7
  <1>9. Mapped(ev) /\ EventMap[ev.type][1] = "capture" /\ EventMap[ev.type][2] \in {"success", "failed"}
    BY <1>6, EventStages DEF Mapped, Successes, Failures
  <1>10. PICK r \in log : r.entity = p /\ r.stage = "capture" /\ r.result \in {"success", "failed"} /\ DeferredSince(req) <= r.at
    BY <1>6, <1>8, <1>9 DEF Informed
  <1>11. r \in Of(i[2], Terminals(log, req)) BY <1>1, <1>10, InReach DEF Of
  <1>12. Resolves(i[1], r.stage) BY <1>3, <1>4, <1>10, PaymentsAssumption DEF Resolves
  <1> QED BY <1>1, <1>11, <1>12 DEF InFlight

\* The deferrals of a plainly pending payment.
LEMMA PlainDeferrals ==
    ASSUME PayInv, NEW p \in Payments, NEW from \in Froms, Informed(p, DeferredSince(UntilNow(from))),
           PlainlyPending(p, UntilNow(from))
    PROVE  /\ \E r \in log : /\ r.entity = p /\ r.stage = StageOf(status[p]) /\ r.result = "deferred"
                            /\ DeferredSince(UntilNow(from)) <= r.at
           /\ \A r \in log : r.entity = p /\ r.stage = StageOf(status[p]) /\ r.result = "deferred" =>
                  r.at = since[p] /\ r.amount = amount[p]
           /\ \A r \in log : r.entity = p => r.result = "deferred" /\ r.stage \in {"auth", "capture"}
           /\ status[p] = "action" => \A r \in log : r.entity = p => r.stage = "auth"
  <1> USE DEF PayInv, StripeInv
  <1>0. status[p] \in Pending /\ p \notin troubled /\ DeferredSince(UntilNow(from)) <= since[p] BY DEF PlainlyPending
  <1> DEFINE type == PendingType(status[p])
  <1>1. /\ [type |-> type, payment |-> p, created |-> since[p], amount |-> amount[p]] \in events
        /\ \A d \in events : d.payment = p /\ d.type = type => d.created = since[p] /\ d.amount = amount[p]
    BY <1>0 DEF Plain
  <1>2. type \in DOMAIN EventMap /\ EventMap[type] = <<StageOf(status[p]), "deferred">>
    BY <1>0, EventStages DEF PendingType, StageOf, Pending, Deferring
  <1>3. PICK ev \in events : ev.type = type /\ ev.payment = p /\ ev.created = since[p] BY <1>1
  <1>4. Mapped(ev) BY <1>2, <1>3 DEF Mapped
  <1>5. \E r \in log : /\ r.entity = p /\ r.stage = StageOf(status[p]) /\ r.result = "deferred"
                      /\ DeferredSince(UntilNow(from)) <= r.at
    BY <1>0, <1>2, <1>3, <1>4 DEF Informed
  <1>6. ASSUME NEW r \in log, r.entity = p PROVE r.result = "deferred"
    BY <1>0, <1>6, LogFacts, SuccessFacts DEF Pending
  <1>7. ASSUME NEW r \in log, r.entity = p
        PROVE  /\ r.stage \in {"auth", "capture"}
               /\ status[p] = "action" => r.stage = "auth"
               /\ r.stage = StageOf(status[p]) => r.at = since[p] /\ r.amount = amount[p]
    <2>1. PICK d \in events : /\ Tells(d, r) /\ d.type \in Deferring
                              /\ r.stage = IF d.type = "payment_intent.processing" THEN "capture" ELSE "auth"
      BY <1>6, <1>7, DeferralFacts
    <2>2. d.payment = p /\ r.at = d.created /\ r.amount = d.amount BY <1>7, <2>1 DEF Tells
    <2>3. status[p] = "action" => d.type # "payment_intent.processing" BY <1>0, <2>2 DEF Plain
    <2>4. r.stage = StageOf(status[p]) => d.type = type
      BY <1>0, <2>1 DEF StageOf, PendingType, Pending, Deferring
    <2> HIDE DEF type
    <2> QED BY <1>1, <2>1, <2>2, <2>3, <2>4
  <1> QED BY <1>5, <1>6, <1>7

LEMMA PendingItems ==
    ASSUME PayInv, NEW p \in Payments, NEW from \in Froms, Informed(p, DeferredSince(UntilNow(from))),
           PlainlyPending(p, UntilNow(from))
    PROVE  /\ ItemsOf(p, UntilNow(from)) = {<<StageOf(status[p]), p>>}
           /\ DeferredOf(log, UntilNow(from), <<StageOf(status[p]), p>>) = amount[p]
  <1> DEFINE req == UntilNow(from)
             st == StageOf(status[p])
  <1>0. /\ st \in {"auth", "capture"} /\ (st = "auth" <=> status[p] = "action")
        /\ Before("auth", "capture") /\ ~ Before("auth", "auth") /\ ~ Before("capture", "capture") /\ ~ Before("capture", "auth")
    BY LegsAssumption, PaymentsAssumption DEF StageOf, Before, PlainlyPending, Pending
  <1>1. PICK r \in log : r.entity = p /\ r.stage = st /\ r.result = "deferred" /\ DeferredSince(req) <= r.at
    BY PlainDeferrals
  <1>2. <<st, p>> \in Items(log, req) BY <1>1, InReach DEF Items, Item
  <1>3. Of(p, Terminals(log, req)) = {} BY PlainDeferrals, InReach DEF Of
  <1>4. ASSUME NEW j \in Items(log, req), j[2] = p
        PROVE  j = <<j[1], p>> /\ j[1] \in {"auth", "capture"} /\ (st = "auth" => j[1] = "auth")
    <2>1. PICK o \in log : Item(o) = j BY InReach DEF Items
    <2>2. o.entity = p /\ o.stage = j[1] /\ j = <<o.stage, o.entity>> BY <1>4, <2>1 DEF Item
    <2> QED BY <1>0, <2>2, PlainDeferrals
  <1> HIDE DEF st
  <1>5. <<st, p>> \in InFlight(log, req)
    <2>1. \A j \in Items(log, req) : j[2] = p => ~ Before(st, j[1]) BY <1>0, <1>4
    <2> QED BY <1>2, <1>3, <2>1 DEF InFlight
  <1>6. ASSUME NEW j \in InFlight(log, req), j[2] = p PROVE j = <<st, p>>
    <2>1. j \in Items(log, req) /\ ~ \E k \in Items(log, req) : k[2] = j[2] /\ Before(j[1], k[1]) BY DEF InFlight
    <2>2. ~ Before(j[1], st) BY <1>2, <1>6, <2>1
    <2> QED BY <1>0, <1>4, <1>6, <2>1, <2>2
  <1>7. ItemsOf(p, req) = {<<st, p>>} BY <1>5, <1>6 DEF ItemsOf
  <1>8. {o.amount : o \in DeferralsOf(log, req, <<st, p>>)} = {amount[p]}
    <2>1. \A o \in DeferralsOf(log, req, <<st, p>>) : o \in log /\ o.result = "deferred" /\ o.stage = st /\ o.entity = p
      BY InReach DEF DeferralsOf, Item
    <2>2. \A o \in DeferralsOf(log, req, <<st, p>>) : o.amount = amount[p] BY <2>1, PlainDeferrals DEF st
    <2>3. r \in DeferralsOf(log, req, <<st, p>>) BY <1>1, InReach DEF DeferralsOf, Item
    <2> QED BY <2>2, <2>3
  <1>9. amount[p] \in Nat BY DEF PayInv, StripeInv, PaymentTypes
  <1>10. DeferredOf(log, req, <<st, p>>) = amount[p] BY <1>8, <1>9 DEF DeferredOf, Largest, Max
  <1> QED BY <1>7, <1>10 DEF st

\* What a report calls in flight is pending at Stripe or was canceled there,
\* and what is pending there is in flight, once and for its amount
\* (deferredFromEvents), whatever order the events came in.
THEOREM InFlightIsPending == Spec => []PendingIsInFlight
  <1>1. PayInv => PendingIsInFlight BY ConcludedIsNotInFlight, PendingItems DEF PendingIsInFlight
  <1> QED BY <1>1, PaymentInvariant, PTL

-----------------------------------------------------------------------------
(* Age buckets *)

LEMMA FloorsFacts ==
    /\ 1 \in Buckets /\ Buckets \subseteq Nat \ {0} /\ IsFiniteSet(Buckets) /\ Len(Floors) \in Nat
    /\ \A b \in Buckets : Floors[b] \in Nat
    /\ \A b, c \in Buckets : b <= c => Floors[b] <= Floors[c]
  <1>1. Floors \in Seq(Nat) /\ Len(Floors) \in Nat /\ DOMAIN Floors = 1 .. Len(Floors) /\ Len(Floors) # 0
    BY LegsAssumption
  <1>2. \A b \in Buckets : Floors[b] \in Nat BY <1>1 DEF Buckets
  <1>3. \A b, c \in Buckets : b <= c => Floors[b] <= Floors[c]
    <2> SUFFICES ASSUME NEW b \in Buckets, NEW c \in Buckets, b <= c PROVE Floors[b] <= Floors[c] OBVIOUS
    <2>1. CASE b = c BY <1>2, <2>1
    <2>2. CASE b # c BY <1>1, <1>2, <2>2, LegsAssumption DEF Buckets
    <2> QED BY <2>1, <2>2
  <1>4. IsFiniteSet(Buckets) BY <1>1, FS_Interval DEF Buckets
  <1> QED BY <1>1, <1>2, <1>3, <1>4 DEF Buckets

\* The oldest bucket whose floor an age has reached is the bucket of the age.
LEMMA OldestReached ==
    ASSUME NEW age \in Nat
    PROVE  LET b == Max({c \in Buckets : Floors[c] <= age})
           IN  /\ b \in Buckets /\ Floors[b] <= age /\ AgeBucketFor(age) = b
               /\ \A c \in Buckets : Floors[c] <= age => c <= b
  <1> DEFINE R == {c \in Buckets : Floors[c] <= age}
             top == Max(R)
             Of2(b) == Floors[b] <= age /\ (b < Len(Floors) => age < Floors[b + 1])
  <1>1. R \subseteq Nat /\ IsFiniteSet(R) BY FloorsFacts, FS_Subset
  <1>2. R # {} BY FloorsFacts, LegsAssumption
  <1>3. top \in R /\ \A c \in R : top >= c
    <2> HIDE DEF R
    <2> QED BY <1>1, <1>2, MaxOf
  <1>4. top \in Buckets /\ Floors[top] <= age /\ \A c \in Buckets : Floors[c] <= age => c <= top
    BY <1>3, FloorsFacts
  <1> HIDE DEF R, top
  <1>5. Of2(top)
    <2>1. SUFFICES ASSUME top < Len(Floors), ~ (age < Floors[top + 1]) PROVE FALSE BY <1>4
    <2>2. top + 1 \in Buckets /\ top \in Nat BY <1>4, <2>1, FloorsFacts DEF Buckets
    <2>3. Floors[top + 1] <= age BY <2>1, <2>2, FloorsFacts
    <2>4. top + 1 <= top BY <1>4, <2>2, <2>3
    <2> QED BY <2>2, <2>4
  <1>6. ASSUME NEW b \in Buckets, Of2(b) PROVE b = top
    <2>1. b <= top /\ b \in Nat /\ top \in Nat BY <1>4, <1>6, FloorsFacts
    <2>2. SUFFICES ASSUME b < top PROVE FALSE BY <2>1
    <2>3. b + 1 \in Buckets /\ b < Len(Floors) /\ b + 1 <= top
      <3>1. 1 <= b /\ top <= Len(Floors) /\ Len(Floors) \in Nat BY <1>4, FloorsFacts DEF Buckets
      <3> QED BY <2>1, <2>2, <3>1 DEF Buckets
    <2>4. Floors[b + 1] <= Floors[top] /\ Floors[b + 1] \in Nat /\ Floors[top] \in Nat BY <1>4, <2>3, FloorsFacts
    <2>5. age < Floors[b + 1] BY <1>6, <2>3
    <2> QED BY <1>4, <2>4, <2>5
  <1>7. AgeBucketFor(age) = top BY <1>4, <1>5, <1>6 DEF AgeBucketFor
  <1> QED BY <1>4, <1>7 DEF R, top

LEMMA AgesLikeGauge ==
    ASSUME PayInv, NEW p \in Payments, NEW from \in Froms, Informed(p, DeferredSince(UntilNow(from))),
           PlainlyPending(p, UntilNow(from))
    PROVE  LET req == UntilNow(from)
               age == req.to - since[p]
               stage == StageOf(status[p])
           IN  /\ BucketOf(log, req, <<stage, p>>) = AgeBucketFor(age)
               /\ stage \in DOMAIN Deadline =>
                     /\ <<stage, p>> \in Breaches(log, req) => age >= Deadline[stage]
                     /\ age >= Deadline[stage] /\ Deadline[stage] \in {Floors[b] : b \in Buckets}
                        => <<stage, p>> \in Breaches(log, req)
  <1> DEFINE req == UntilNow(from)
             age == now + 1 - since[p]
             stage == StageOf(status[p])
             b == BucketOf(log, req, <<stage, p>>)
  <1>0. req.to = now + 1 /\ now \in Nat /\ age \in Nat
    BY SinceType DEF PayInv, StripeInv, PaymentTypes
  <1>1. PICK r \in log : /\ r.entity = p /\ r.stage = stage /\ r.result = "deferred"
                         /\ DeferredSince(req) <= r.at /\ r.at = since[p]
    BY PlainDeferrals
  <1>2. \A o \in log : o.result = "deferred" /\ Item(o) = <<stage, p>> => o.at = since[p]
    BY PlainDeferrals DEF Item
  <1>3. \A c \in Buckets : (\E o \in Deferrals(log, req, c) : Item(o) = <<stage, p>>) <=> Floors[c] <= age
    <2> SUFFICES ASSUME NEW c \in Buckets
                 PROVE  (\E o \in Deferrals(log, req, c) : Item(o) = <<stage, p>>) <=> Floors[c] <= age
      OBVIOUS
    <2>1. ASSUME NEW o \in Deferrals(log, req, c), Item(o) = <<stage, p>> PROVE Floors[c] <= age
      BY <1>2, <2>1, DeferralsUntilNow
    <2>2. ASSUME Floors[c] <= age PROVE r \in Deferrals(log, req, c) /\ Item(r) = <<stage, p>>
      BY <1>1, <2>2, DeferralsUntilNow DEF Item
    <2> QED BY <2>1, <2>2
  <1>4. {c \in Buckets : \E o \in Deferrals(log, req, c) : Item(o) = <<stage, p>>} = {c \in Buckets : Floors[c] <= age}
    BY <1>3
  <1>5. b = Max({c \in Buckets : Floors[c] <= age}) BY <1>4 DEF BucketOf
  <1>6. /\ b \in Buckets /\ Floors[b] <= age /\ AgeBucketFor(age) = b
        /\ \A c \in Buckets : Floors[c] <= age => c <= b
    BY <1>0, <1>5, OldestReached
  <1>7. <<stage, p>> \in InFlight(log, req)
    <2>1. <<stage, p>> \in ItemsOf(p, req) BY PendingItems
    <2> QED BY <2>1 DEF ItemsOf
  <1> HIDE DEF b
  <1>8. <<stage, p>> \in Breaches(log, req) <=> Breached(stage, b)
    BY <1>7 DEF Breaches, b
  <1>9. ASSUME stage \in DOMAIN Deadline
        PROVE  /\ Breached(stage, b) => age >= Deadline[stage]
               /\ age >= Deadline[stage] /\ Deadline[stage] \in {Floors[c] : c \in Buckets} => Breached(stage, b)
    <2>1. Deadline[stage] \in Nat /\ Floors[b] \in Nat BY <1>6, <1>9, LegsAssumption, FloorsFacts
    <2>2. Breached(stage, b) => age >= Deadline[stage] BY <1>0, <1>6, <2>1 DEF Breached
    <2>3. ASSUME age >= Deadline[stage], NEW c \in Buckets, Deadline[stage] = Floors[c] PROVE Breached(stage, b)
      <3>1. Floors[c] <= age BY <1>0, <2>1, <2>3
      <3>2. Floors[c] <= Floors[b] BY <1>6, <3>1, FloorsFacts
      <3> QED BY <1>9, <2>3, <3>2 DEF Breached
    <2> QED BY <2>2, <2>3
  <1>10. BucketOf(log, req, <<stage, p>>) = AgeBucketFor(age) BY <1>6 DEF b
  <1>11. age = req.to - since[p]
    <2>1. since[p] \in Nat /\ now \in Nat /\ req.to = now + 1 BY <1>0 DEF PayInv, StripeInv, PaymentTypes
    <2> HIDE DEF req
    <2> QED BY <2>1
  <1>12. stage \in DOMAIN Deadline =>
           /\ <<stage, p>> \in Breaches(log, req) => age >= Deadline[stage]
           /\ age >= Deadline[stage] /\ Deadline[stage] \in {Floors[c] : c \in Buckets} => <<stage, p>> \in Breaches(log, req)
    BY <1>8, <1>9
  <1> HIDE DEF age
  <1> QED BY <1>10, <1>11, <1>12

\* A pending payment has one age: the events path puts it into the bucket of
\* the gauge (ageCutoffs), and calls no breach early, for every choice of floors
\* and deadlines.
THEOREM EventsAgeLikeTheGauge == Spec => []BacklogAgesLikeTheGauge
  <1>1. PayInv => BacklogAgesLikeTheGauge BY AgesLikeGauge DEF BacklogAgesLikeTheGauge
  <1> QED BY <1>1, PaymentInvariant, PTL

=============================================================================
