------------------------------ MODULE Registry ------------------------------
(***************************************************************************)
(* The registry (package registry): what Parse accepts, what it builds     *)
(* from it, and the lookups the other packages make.  A document is what   *)
(* the YAML decoder hands over; an optional block is a set with at most    *)
(* one element, a YAML map a set of entries.                               *)
(***************************************************************************)
EXTENDS ValueContext, SequencesExt

CONSTANTS
    MaxDurationSeconds,
    LowerLabel,  \* host label -> its lower-case form
    DnsLabels    \* labels of letters, digits and inner dashes

Distinct(s) == \A i, j \in DOMAIN s : s[i] = s[j] => i = j

-----------------------------------------------------------------------------
\* P[nD][T[nH][nM][nS]]: a part is a sequence of numbers with their units.
DateUnits == <<[unit |-> "D", seconds |-> 86400]>>
TimeUnits == <<[unit |-> "H", seconds |-> 3600], [unit |-> "M", seconds |-> 60], [unit |-> "S", seconds |-> 1]>>

Place(units, u) == {k \in DOMAIN units : units[k].unit = u}
PerUnit(units, u) == units[CHOOSE k \in Place(units, u) : TRUE].seconds

UnitsOrdered(part, units) ==
    /\ \A i \in DOMAIN part : Place(units, part[i].unit) # {}
    /\ \A i, j \in DOMAIN part : i < j =>
         \A k \in Place(units, part[i].unit), l \in Place(units, part[j].unit) : k < l

PartSeconds(part, units) ==
    FoldSeq(LAMBDA x, total : total + x.n * PerUnit(units, x.unit), 0, part)

ParseISODuration(d) ==
    LET ordered == UnitsOrdered(d.date, DateUnits) /\ \A t \in d.time : t # <<>> /\ UnitsOrdered(t, TimeUnits)
        total   == PartSeconds(d.date, DateUnits)
                     + (IF d.time = None THEN 0 ELSE PartSeconds(CHOOSE t \in d.time : TRUE, TimeUnits))
    IN  IF d.prefix /\ ordered /\ total \in 1..MaxDurationSeconds THEN Some(total) ELSE None

-----------------------------------------------------------------------------
\* A host is its sequence of labels; an allowlist pattern may have "*." in front.
ValidHostShape(labels) == labels # <<>> /\ ToSet(labels) \subseteq DnsLabels

Lower(host) == [i \in DOMAIN host |-> LowerLabel[host[i]]]

\* A wildcard stands for one or more labels, never for none.
Matches(host, p) ==
    IF p.wild THEN IsSuffix(p.labels, host) /\ Len(host) > Len(p.labels) ELSE host = p.labels

HostAllowed(reg, host) ==
    LET h == Lower(host) IN ValidHostShape(h) /\ \E p \in reg.hosts : Matches(h, p)

-----------------------------------------------------------------------------
SegmentsAccepted(doc) ==
    /\ doc.segments # <<>> /\ Distinct(doc.segments)
    /\ \A s \in ToSet(doc.segments) : LowerToken(s, 32)

HostsAccepted(doc) == \A p \in ToSet(doc.hosts) : ValidHostShape(p.labels)

SeverityName(s) == s.len \in 1..32 /\ s.shape # "other"

\* Mutant of LadderDescends: floors in any order.
LadderAny(floors) == \A i \in DOMAIN floors : floors[i] > 0
\* The first level is the most severe one: floors fall from level to level.
LadderDescends(floors) ==
    /\ \A i \in DOMAIN floors : floors[i] > 0
    /\ \A i \in DOMAIN floors : i > 1 => floors[i] < floors[i - 1]

SeverityAccepted(doc) ==
    LET names == [i \in DOMAIN doc.severity |-> doc.severity[i].sev] IN
    /\ \A i \in DOMAIN names : SeverityName(names[i])
    /\ Distinct(names)
    /\ LadderDescends([i \in DOMAIN doc.severity |-> doc.severity[i].floor])

StageNames(fd) == {s.name : s \in ToSet(fd.stages)}

StagesAccepted(fd) ==
    /\ fd.stages # <<>>
    /\ \A s \in ToSet(fd.stages) :
         LowerToken(s.name, 32) /\ s.signals # <<>> /\ NoText \notin ToSet(s.signals)
    /\ Distinct([i \in DOMAIN fd.stages |-> fd.stages[i].name])

CurrenciesAccepted(fd) ==
    Distinct(fd.currencies) /\ \A c \in ToSet(fd.currencies) : c.len = 3 /\ c.shape = "upper"

SLAAccepted(fd) == \A s \in fd.sla :
    /\ s.stage \in StageNames(fd)
    /\ ParseISODuration(s.deadline) # None
    /\ s.onBreach \in {"lost", "at_risk"}

\* Mutant of EstimatorAccepted: only the default has to be above 0.
EstimatorAcceptedDefaultOnly(fd, segments) == \A e \in fd.estimator :
    /\ e.default > 0
    /\ \A b \in e.bySegment : b.segment \in segments
    /\ e.exponent \subseteq 0..4
\* Every amount an estimate may have is above 0, a segment of it declared.
EstimatorAccepted(fd, segments) == \A e \in fd.estimator :
    /\ e.default > 0
    /\ \A b \in e.bySegment : b.segment \in segments /\ b.minor > 0
    /\ e.exponent \subseteq 0..4

BaselineAccepted(fd) == \A b \in fd.baseline : b.seasonality = "hour_of_week" /\ b.weeks >= 1

\* A fraction is in hundredths; one that is no finite number is a string.
ValidateRecovery(fd) == \A r \in fd.recovery :
    /\ r.model = "usage_loss_curve"
    /\ r.fraction \in 0..100
    /\ IF r.fraction > 0
       THEN \E d \in r.within : ParseISODuration(d) # None
       ELSE r.within = None

ValidateReconcile(fd) == \A r \in fd.reconcile :
    r.scheme \in {"sql", "stripe"} /\ (r.stage = NoText \/ r.stage \in StageNames(fd))

\* The rules a flow must keep.
FlowAccepted(fd, segments) ==
    /\ LowerToken(fd.name, 64)
    /\ fd.kind \in Kinds
    /\ StagesAccepted(fd) /\ CurrenciesAccepted(fd) /\ SLAAccepted(fd)
    /\ EstimatorAccepted(fd, segments)
    /\ BaselineAccepted(fd) /\ ValidateRecovery(fd) /\ ValidateReconcile(fd)

\* The rules a document must keep: one violation refuses it whole.
Accepted(doc) ==
    /\ doc.documents = 1 /\ doc.unknownFields = {} /\ doc.version = 1
    /\ SegmentsAccepted(doc) /\ HostsAccepted(doc) /\ SeverityAccepted(doc)
    /\ doc.flows # {}
    /\ \A fd \in doc.flows : FlowAccepted(fd, ToSet(doc.segments))

-----------------------------------------------------------------------------
\* A flow as the other packages see it.
BuildFlow(fd) ==
    [name |-> fd.name, kind |-> fd.kind,
     currencies |-> ToSet(fd.currencies),
     stages |-> [i \in DOMAIN fd.stages |-> fd.stages[i].name],
     sla |-> {[stage |-> s.stage, onBreach |-> s.onBreach,
               deadline |-> CHOOSE t \in ParseISODuration(s.deadline) : TRUE] : s \in fd.sla},
     estimator |-> {[e EXCEPT !.exponent = IF @ = None THEN 2 ELSE CHOOSE x \in @ : TRUE] : e \in fd.estimator},
     weeks |-> {b.weeks : b \in fd.baseline},
     recovery |-> {[fraction |-> r.fraction, within |-> UNION {ParseISODuration(d) : d \in r.within}]
                     : r \in fd.recovery},
     reconcile |-> {r.stage : r \in fd.reconcile}]

Parse(doc) ==
    IF Accepted(doc)
    THEN Some([segments |-> ToSet(doc.segments), hosts |-> ToSet(doc.hosts), severity |-> doc.severity,
               flows |-> {BuildFlow(fd) : fd \in doc.flows}])
    ELSE None

FlowNamed(reg, name) == {f \in reg.flows : f.name = name}

\* The stage whose success is the money: declared, else the last.
ValueStage(f) ==
    LET declared == f.reconcile \ {NoText} IN
    IF declared # {} THEN CHOOSE s \in declared : TRUE ELSE Last(f.stages)

\* A segment of its own goes before the default; no estimator, no estimate.
EstimateMinor(f, segment) ==
    {LET own == {b \in e.bySegment : b.segment = segment} IN
     IF own # {} THEN (CHOOSE b \in own : TRUE).minor ELSE e.default : e \in f.estimator}

EstimateMoney(f, segment, currency) ==
    {[amount |-> a, currency |-> currency, exponent |-> e.exponent]
       : a \in EstimateMinor(f, segment), e \in f.estimator}
=============================================================================
