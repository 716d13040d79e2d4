-------------------------- MODULE ValuePropagation --------------------------
(***************************************************************************)
(* One transaction on its way through services, HTTP clients and queues    *)
(* (packages propagate and httpmw): the first hop that recognises it       *)
(* stamps its value, every later hop must read the same value, and no host *)
(* outside the registry's allowlist may see it.                            *)
(*                                                                         *)
(* The header of a message on the wire is a sequence of lines, a line a    *)
(* sequence of items; an item that the baggage parser cannot read is not   *)
(* `ok`.  A queue's message has a sequence of headers.                     *)
(***************************************************************************)
EXTENDS Registry

CONSTANTS
    Documents,   \* registry files
    Entries,     \* headers a request may enter the estate with
    Hooks,       \* what an IngressFunc answers: at most one value context
    Hosts,
    ExtraLines,  \* what a proxy between two services may append to a header
    Messages,    \* headers a message may have before Inject
    Outcomes,    \* outcomes a handler records, without their value context
    MaxMembers,  \* the baggage library's limit
    MaxHops      \* bound: requests, redirects and messages of a behaviour

\* The items a reader of the lines comes across.
ItemsIn(lines) == UNION {ToSet(line) : line \in ToSet(lines)}

\* The fields of a value context; a deadline is a number of ticks.
IsValueContext(vc) ==
    /\ vc = [flow |-> vc.flow, entity |-> vc.entity, customer |-> vc.customer, segment |-> vc.segment,
             kind |-> vc.kind, money |-> vc.money, estimated |-> vc.estimated, deadline |-> vc.deadline]
    /\ vc.deadline \in Int \cup {NoDeadline}

\* The sets hold what their comments say: amounts in minor units, lines of items,
\* headers in a sequence, hosts of known labels, one value context per hook at most.
ASSUME PropagationAssumption ==
    /\ TicksPerSecond \in Nat \ {0} /\ MaxDeadline \in Nat /\ NoDeadline \notin Int /\ MaxMembers \in Nat
    /\ \A d \in Documents : \A p \in ToSet(d.hosts) : p.labels \in Seq(ToSet(p.labels))
    /\ \A d \in Documents : \A fd \in d.flows : \A e \in fd.estimator :
         /\ e = [default |-> e.default, exponent |-> e.exponent, bySegment |-> e.bySegment]
         /\ e.default \in Int /\ \A b \in e.bySegment : b.minor \in Int
    /\ \A host \in Hosts : host \in Seq(DOMAIN LowerLabel)
    /\ \A lines \in Entries \cup ExtraLines : lines \in Seq(Seq(ItemsIn(lines)))
    /\ \A headers \in Messages : headers \in Seq(ToSet(headers))
    /\ \A hook \in Hooks : hook = None \/ \E vc \in hook : hook = {vc} /\ IsValueContext(vc)
    /\ \A o \in Outcomes : "vc" \in DOMAIN o

VARIABLES
    reg,      \* the registry every service loaded
    place,    \* "wire", "handler", "client", "answered" or "queued"
    header,   \* lines that arrive at the middleware
    context,  \* baggage in the handler's context.Context
    request,  \* lines of the outbound request, as the client keeps them for redirects
    host,     \* where it goes
    message,  \* headers of the queued message
    log,      \* outcomes the emitter took
    sent,     \* history: what left through the Transport
    stamp,    \* history: the first value context a handler had
    asked,    \* history: what the hook of this hop answered, when it was asked
    hops

vars == <<reg, place, header, context, request, host, message, log, sent, stamp, asked, hops>>

NoHost == <<>>

Init ==
    /\ reg \in UNION {Parse(d) : d \in Documents}
    /\ header \in Entries
    /\ place = "wire" /\ context = {} /\ request = <<>> /\ host = NoHost /\ message = <<>>
    /\ log = {} /\ sent = {} /\ stamp = None /\ asked = None /\ hops = 0

-----------------------------------------------------------------------------
\* The last readable item of each key, over all lines.
RecoverMembers(lines) ==
    LET items       == FlattenSeq(lines)
        readable(k) == {i \in DOMAIN items : items[i].ok /\ items[i].key = k}
        last(k)     == CHOOSE i \in readable(k) : \A j \in readable(k) : j <= i
    IN  {[key |-> k, value |-> items[last(k)].value] : k \in {x.key : x \in {y \in ToSet(items) : y.ok}}}

\* baggage.New refuses a bag over the limit.
Fits(members) == Cardinality(members) <= MaxMembers

\* A bag is written as one line, and not at all when it is over the limit.
Line(members) == <<SetToSeq({[key |-> m.key, value |-> m.value, ok |-> TRUE] : m \in members})>>
WriteMembers(members) == IF members = {} \/ ~ Fits(members) THEN <<>> ELSE Line(members)

\* An estimated value of 0 gets the estimate of the registry.
Estimate(vc) ==
    LET filled == UNION {EstimateMoney(f, vc.segment, vc.money.currency) : f \in FlowNamed(reg, vc.flow)} IN
    IF vc.estimated /\ vc.money.amount = 0 /\ filled # None
    THEN [vc EXCEPT !.money = CHOOSE m \in filled : TRUE] ELSE vc

\* What the bag becomes with the value the hook answers; none if it is invalid.
Stamps(bag, hook) == UNION {WithValueContext(bag, vc) : vc \in {v \in {Estimate(h) : h \in hook} : Valid(v)}}

\* A valid value on the wire wins; the hook is asked only without one.
Middleware(hook) ==
    LET members == RecoverMembers(header)
        bag     == IF Fits(members) THEN members ELSE {}
        stamps  == Stamps(bag, hook)
    IN
    /\ place = "wire" /\ place' = "handler"
    /\ \/ /\ FromContext(bag) # None
          /\ context' = bag /\ asked' = None
          /\ stamp' = IF stamp = None THEN FromContext(bag) ELSE stamp
       \/ /\ FromContext(bag) = None
          /\ context' = (IF stamps = {} THEN bag ELSE CHOOSE b \in stamps : TRUE)
          /\ asked' = hook
          /\ stamp' = IF stamp = None /\ stamps # {} THEN {Estimate(h) : h \in hook} ELSE stamp
    /\ UNCHANGED <<reg, header, request, host, message, log, sent, hops>>

\* The handler records an outcome of its transaction; the emitter validates it.
Record(o) ==
    /\ place = "handler"
    /\ \E vc \in FromContext(context) :
         LET full == [o EXCEPT !.vc = vc] IN
         log' = IF OutcomeValid(full) THEN log \cup {full} ELSE log
    /\ UNCHANGED <<reg, place, header, context, request, host, message, sent, stamp, asked, hops>>

\* The handler calls another host: with no baggage header of its own, with one
\* a generic propagator wrote from the context, or with the inbound lines copied.
CallOut(h) ==
    /\ place = "handler" /\ place' = "client" /\ hops < MaxHops
    /\ request' \in {<<>>, Line(context), header}
    /\ host' = h /\ hops' = hops + 1
    /\ UNCHANGED <<reg, header, context, message, log, sent, stamp, asked>>

\* Mutant of Fenced: a host outside the allowlist gets what was on the request.
FencedAsSent(members, allowed) ==
    LET own == UNION {EncodeVC(vc) : vc \in FromContext(context)} IN
    IF allowed /\ own # None THEN SetMember(members, MemberKey, CHOOSE w \in own : TRUE) ELSE members
\* The fence: a host outside the allowlist gets no biz.vc, any other the one of
\* the context.
Fenced(members, allowed) ==
    LET own == UNION {EncodeVC(vc) : vc \in FromContext(context)} IN
    IF ~ allowed THEN Without(members, MemberKey)
    ELSE IF own # None THEN SetMember(members, MemberKey, CHOOSE w \in own : TRUE) ELSE members

\* The Transport works on a copy: the client keeps its request.
RoundTrip ==
    /\ place = "client" /\ place' = "answered"
    /\ sent' = sent \cup {[host |-> host,
                           lines |-> WriteMembers(Fenced(RecoverMembers(request), HostAllowed(reg, host)))]}
    /\ header' = WriteMembers(Fenced(RecoverMembers(request), HostAllowed(reg, host)))
    /\ UNCHANGED <<reg, context, request, host, message, log, stamp, asked, hops>>

\* The answer is a redirect: the client sends the request it kept to another host.
Redirect(h) ==
    /\ place = "answered" /\ place' = "client" /\ hops < MaxHops
    /\ host' = h /\ hops' = hops + 1
    /\ UNCHANGED <<reg, header, context, request, message, log, sent, stamp, asked>>

\* A service of the estate gets the request, perhaps with a line more.
Arrive(lines) ==
    /\ place = "answered" /\ place' = "wire"
    /\ HostAllowed(reg, host)
    /\ header' = header \o lines
    /\ context' = {} /\ request' = <<>> /\ host' = NoHost
    /\ UNCHANGED <<reg, message, log, sent, stamp, asked, hops>>

-----------------------------------------------------------------------------
\* Kafka keeps duplicates of a key; SQS and AMQP have one value per key.
Holders(headers, key) == {i \in DOMAIN headers : headers[i].key = key}

First(headers, key) == CHOOSE i \in Holders(headers, key) : \A j \in Holders(headers, key) : i <= j

\* Mutant of KafkaSet: later duplicates of the key stay.
KafkaSetFirst(headers, key, value) ==
    IF Holders(headers, key) = {}
    THEN Append(headers, [key |-> key, value |-> value])
    ELSE [headers EXCEPT ![First(headers, key)].value = value]
\* The first holder gets the value, later ones are removed.
KafkaSet(headers, key, value) ==
    LET i      == First(headers, key)
        later  == SubSeq(headers, i + 1, Len(headers))
        others == FlattenSeq([j \in DOMAIN later |-> IF later[j].key = key THEN <<>> ELSE <<later[j]>>])
    IN  IF Holders(headers, key) = {}
        THEN Append(headers, [key |-> key, value |-> value])
        ELSE SubSeq(headers, 1, i - 1) \o <<[key |-> key, value |-> value]>> \o others

Get(headers, key) ==
    IF Holders(headers, key) = {} THEN None ELSE Some(headers[First(headers, key)].value)

\* The handler publishes its value; a message that has no room for headers
\* makes Inject answer an error and is not sent.
Inject(headers) ==
    /\ place = "handler" /\ place' = "queued" /\ hops < MaxHops
    /\ \E w \in UNION {EncodeVC(vc) : vc \in FromContext(context)} :
         message' = KafkaSet(headers, MemberKey, w)
    /\ hops' = hops + 1
    /\ UNCHANGED <<reg, header, context, request, host, log, sent, stamp, asked>>

\* A consumer takes the value of the message into a context of its own.
Extract ==
    /\ place = "queued" /\ place' = "handler"
    /\ context' = UNION UNION {WithValueContext({}, vc) : vc \in UNION {DecodeVC(w) : w \in Get(message, MemberKey)}}
    /\ message' = <<>> /\ header' = <<>> /\ asked' = None
    /\ UNCHANGED <<reg, request, host, log, sent, stamp, hops>>

Next ==
    \/ \E hook \in Hooks : Middleware(hook)
    \/ \E o \in Outcomes : Record(o)
    \/ \E h \in Hosts : CallOut(h) \/ Redirect(h)
    \/ RoundTrip
    \/ \E lines \in ExtraLines : Arrive(lines)
    \/ \E headers \in Messages : Inject(headers)
    \/ Extract

Spec == Init /\ [][Next]_vars

-----------------------------------------------------------------------------
\* The keys a reader of the lines may find.
Reads(lines) == {x.key : x \in ItemsIn(lines)}

\* What leaves through the Transport toward a host outside the allowlist has
\* no biz.vc, whatever the handler, a generic propagator, a copied inbound
\* header, a malformed neighbour or a redirect put there.
NothingLeaks == \A s \in sent :
    MemberKey \in Reads(s.lines) =>
        \E p \in reg.hosts : LET cut == Len(s.host) - Len(p.labels) IN
            /\ SubSeq(Lower(s.host), cut + 1, Len(s.host)) = p.labels
            /\ IF p.wild THEN cut > 0 ELSE cut = 0

\* The value of the first handler is the value of every later one, and of every
\* outcome recorded on the way; only the fraction of a second of its deadline
\* is lost.  No later hop drops it, estimates it anew or stamps its own.
ValueArrives ==
    LET whole(vc) == [vc EXCEPT !.deadline = IF @ = NoDeadline THEN @ ELSE (@ \div TicksPerSecond) * TicksPerSecond]
        carried   == {whole(vc) : vc \in stamp}
    IN  /\ place = "handler" => FromContext(context) = carried
        /\ \A o \in log : o.vc \in carried

\* What the world outside keeps to where ValueArrives is claimed: with the keys
\* that are about no bag is over the limit, no proxy writes a biz.vc, and one
\* that enters the estate and can be read was written by EncodeVC.
Genuine(w) == \A vc \in DecodeVC(w) : IsValueContext(w.vc) /\ w.size = EncodedSize(w.vc, w.deadline)
KnownKeys  == {MemberKey} \cup UNION {Reads(lines) : lines \in Entries \cup ExtraLines}
Outside ==
    /\ IsFiniteSet(KnownKeys) /\ Cardinality(KnownKeys) <= MaxMembers
    /\ \A lines \in ExtraLines : MemberKey \notin Reads(lines)
    /\ \A lines \in Entries : \A x \in ItemsIn(lines) : x.key = MemberKey => Genuine(x.value)

\* A transaction the hook recognises, and whose value has room on the wire, gets
\* a value, whatever the registry's estimator says: if the hook asks for an
\* estimate and the flow has one, an amount above 0 at an exponent money may have.
RecognisedIsStamped == \A h \in asked :
    (place = "handler" /\ Valid(h) /\ EncodeVC(Estimate(h)) # None) =>
        \E vc \in FromContext(context) :
            /\ vc.entity = h.entity
            /\ (h.estimated /\ h.money.amount = 0 /\ \E f \in FlowNamed(reg, h.flow) : f.estimator # None)
                 => vc.money.amount > 0
            /\ ~ (h.estimated /\ h.money.amount = 0) => vc.money = h.money

\* A context and a queued message have one biz.vc at most, so that a consumer
\* that takes the first of several and one that takes the last read the same.
MessageUnambiguous ==
    /\ Cardinality({m \in context : m.key = MemberKey}) <= 1
    /\ Cardinality(Holders(message, MemberKey)) <= 1
=============================================================================
