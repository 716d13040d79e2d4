------------------------------ MODULE Emitter ------------------------------
(***************************************************************************)
(* The standard emitter (src/emit/emitter.go, type Std).  Request          *)
(* goroutines record outcomes, gauge samples and provider calls into two   *)
(* bounded buffers; the background flusher, callers of Flush and Close     *)
(* drain them into an exporter that may fail, or fail after delivering a   *)
(* part of a batch.                                                        *)
(*                                                                         *)
(* A step is one critical section of Std.mu or one call of the exporter,   *)
(* so every interleaving the code allows is a behaviour.  Each call of     *)
(* Record, SetInFlight and RecordProviderCall has a number; an event, a    *)
(* metric point and a unit of a drop counter are named by the number of    *)
(* the call they stem from, so "counted" says which observation is counted *)
(* and a drop counter with value n is the set of its n units.  Times,      *)
(* amounts and the flow, stage and segment labels are left out.            *)
(***************************************************************************)
EXTENDS TwoGenSet, Sequences

CONSTANTS
    Callers,         \* goroutines calling Record, SetInFlight, RecordProviderCall
    FlushCallers,    \* goroutines calling Flush
    Loop, Closer,    \* the background flusher, the goroutine whose Close wins closeOnce
    Keys,            \* de-dup keys: (flow, entity, stage, result)
    Pairs, Other,    \* (provider, op) pairs; the pair of ProviderOther twice
    NoSeries,        \* the series of a point whose labels are left out
    BufSize,         \* WithBufferSize
    MetricsFactor,   \* metric buffer over event buffer: 8 in New
    PairCap,         \* WithProviderPairCap
    Operations,      \* of record, estimated, gauge, provider, invalid: what callers do
    MaxCalls,        \* bound of the model: calls in a behaviour
    PartialDelivery, \* a failing export may have delivered a part of the batch
    CloseCalled      \* whether the program calls Close

Flushers == FlushCallers \cup {Loop, Closer}
CallIds  == 1 .. MaxCalls
Reasons  == {"invalid", "overflow", "export"}
MetricsCap == MetricsFactor * BufSize

ASSUME EmitterAssumption ==
    /\ BufSize \in Nat \ {0} /\ MetricsFactor \in Nat \ {0} /\ PairCap \in Nat \ {0}
    /\ MaxCalls \in Nat
    /\ PartialDelivery \in BOOLEAN /\ CloseCalled \in BOOLEAN
    /\ Loop \notin FlushCallers /\ Closer \notin FlushCallers /\ Loop # Closer
    /\ Other \notin Pairs /\ NoSeries \notin Pairs \cup {Other}

VARIABLES
    \* the fields of Std that mu guards
    events,          \* pending events
    metrics,         \* pending metric points
    dropCounts,      \* drop counters since the last flush, by reason
    metricOverflow,  \* points dropped at the cap since the last flush
    dedup,           \* the twoGenSet
    providerPairs,   \* pairs admitted so far
    \* goroutines
    calls,           \* number of calls made
    pending,         \* caller -> the points its call still has to append
    fpc,             \* flusher -> where it is in Flush
    evBatch,         \* flusher -> events it swapped out and still holds
    mtBatch,         \* flusher -> metric points it swapped out and still holds
    dpBatch,         \* flusher -> drop counters it swapped out and still holds
    flushErr,        \* flusher -> firstErr # nil
    \* Close
    closing,         \* where Close is
    closeErr,        \* some part of Close returned an error
    \* the exporter and history
    delivered,       \* events the backend has
    shipped,         \* metric points the backend has
    reported,        \* reason -> units of the drop counter the backend has
    admitted,        \* history: calls of Record admitted
    emitted,         \* history: keys of the admitted calls
    dropped,         \* history: reason -> calls whose event was dropped
    lostPoints,      \* history: points logged as lost
    atClose,         \* history: number of calls when Close began
    overlapped       \* history: a caller's Flush ran during Close

buffers  == <<events, metrics, dropCounts, metricOverflow, dedup, providerPairs>>
batches  == <<evBatch, mtBatch, dpBatch>>
backend  == <<delivered, shipped, reported>>
closeVars == <<closing, closeErr, atClose, overlapped>>
history  == <<admitted, emitted, dropped, lostPoints>>
flushing == <<fpc, batches, flushErr, closeVars, backend>>
vars == <<buffers, calls, pending, flushing, history>>

\* A metric point: the call it stems from, its family, its series.
Point(id, family, series) == [id |-> id, family |-> family, series |-> series]

Families == {"value", "txn", "inflight_value", "inflight_count", "provider_calls"}
Points   == [id : CallIds, family : Families, series : Pairs \cup {Other, NoSeries}]

NoDrops == [r \in Reasons |-> {}]

Init ==
    /\ events = {} /\ metrics = {} /\ dropCounts = NoDrops /\ metricOverflow = {}
    /\ dedup = NewTwoGenSet /\ providerPairs = {}
    /\ calls = 0 /\ pending = [c \in Callers |-> <<>>]
    /\ fpc = [f \in Flushers |-> "idle"]
    /\ evBatch = [f \in Flushers |-> {}]
    /\ mtBatch = [f \in Flushers |-> {}]
    /\ dpBatch = [f \in Flushers |-> NoDrops]
    /\ flushErr = [f \in Flushers |-> FALSE]
    /\ closing = "open" /\ closeErr = FALSE
    /\ delivered = {} /\ shipped = {} /\ reported = NoDrops
    /\ admitted = {} /\ emitted = {} /\ dropped = NoDrops /\ lostPoints = {}
    /\ atClose = 0 /\ overlapped = FALSE
-----------------------------------------------------------------------------
(* Request goroutines *)

\* A caller with nothing in progress makes the next call; calls' numbers it.
StartCall(c) ==
    /\ pending[c] = <<>>
    /\ calls < MaxCalls
    /\ calls' = calls + 1

\* dropCounts[reason] += units.
Counted(reason, units) == [dropCounts EXCEPT ![reason] = @ \cup units]

\* The call's observation is dropped and counted, under one lock.
CountDrop(reason) ==
    /\ dropCounts' = Counted(reason, {calls'})
    /\ dropped' = [dropped EXCEPT ![reason] = @ \cup {calls'}]
    /\ UNCHANGED <<events, metrics, metricOverflow, dedup, providerPairs, pending,
                   flushing, admitted, emitted, lostPoints>>

\* Record without a usable ValueContext or with an invalid outcome,
\* SetInFlight with a bad bucket, money or count, RecordProviderCall with a
\* bad label: dropInvalid, nothing else.
Reject(c) ==
    /\ "invalid" \in Operations
    /\ StartCall(c)
    /\ CountDrop("invalid")

\* Record at a full event buffer: the key's memory is not even asked.
RecordOverflow(c, key) ==
    /\ Operations \cap {"record", "estimated"} # {}
    /\ StartCall(c)
    /\ Cardinality(events) >= BufSize
    /\ CountDrop("overflow")

\* Record of a key the de-dup set remembers: suppressed without a trace.
RecordDuplicate(c, key) ==
    /\ Operations \cap {"record", "estimated"} # {}
    /\ StartCall(c)
    /\ Cardinality(events) < BufSize
    /\ Remembered(dedup, key)
    /\ UNCHANGED <<buffers, pending, flushing, history>>

\* The points of an admitted outcome; an estimated amount has no value point.
OutcomePoints(id, estimated) ==
    LET txn == Point(id, "txn", NoSeries)
    IN  IF estimated THEN <<txn>> ELSE <<Point(id, "value", NoSeries), txn>>

\* Record admits the outcome: it is remembered and buffered in one critical
\* section; its metric points follow in another (AppendMetrics).
RecordAdmit(c, key, estimated) ==
    /\ (IF estimated THEN "estimated" ELSE "record") \in Operations
    /\ StartCall(c)
    /\ Cardinality(events) < BufSize
    /\ ~ Remembered(dedup, key)
    /\ dedup' = Remember(dedup, key)
    /\ events' = events \cup {calls'}
    /\ admitted' = admitted \cup {calls'}
    /\ emitted' = emitted \cup {key}
    /\ pending' = [pending EXCEPT ![c] = OutcomePoints(calls', estimated)]
    /\ UNCHANGED <<metrics, dropCounts, metricOverflow, providerPairs, flushing,
                   dropped, lostPoints>>

\* SetInFlight past its fences: the value and the count gauge of one sample.
SetInFlight(c) ==
    /\ "gauge" \in Operations
    /\ StartCall(c)
    /\ pending' = [pending EXCEPT ![c] = <<Point(calls', "inflight_value", NoSeries),
                                           Point(calls', "inflight_count", NoSeries)>>]
    /\ UNCHANGED <<buffers, flushing, history>>

\* providerPairLabels: an admitted pair keeps its series, a new one gets one
\* while the cap allows, any other collapses.
PairSeries(pair) ==
    IF pair \in providerPairs \/ Cardinality(providerPairs) < PairCap
    THEN pair ELSE Other

\* Mutant of PairsAfter: the collapsed pair is admitted as well.
PairsAfterKeepingOther(pair) == providerPairs \cup {PairSeries(pair)}

PairsAfter(pair) == providerPairs \cup ({PairSeries(pair)} \ {Other})

\* RecordProviderCall past its fences: the pair is admitted or collapsed in
\* one critical section, the point appended in another.
RecordProviderCall(c, pair) ==
    /\ "provider" \in Operations
    /\ StartCall(c)
    /\ providerPairs' = PairsAfter(pair)
    /\ pending' = [pending EXCEPT ![c] =
                      <<Point(calls', "provider_calls", PairSeries(pair))>>]
    /\ UNCHANGED <<events, metrics, dropCounts, metricOverflow, dedup, flushing,
                   history>>

\* Mutant of Fitting: the cap is checked against the points before this one.
FittingOffByOne(points) ==
    {points[i] : i \in {j \in DOMAIN points : Cardinality(metrics) + j - 1 <= MetricsCap}}

\* The points that still fit, in order; a point past the cap is dropped alone.
Fitting(points) ==
    {points[i] : i \in {j \in DOMAIN points : Cardinality(metrics) + j <= MetricsCap}}

\* appendMetrics: what does not fit is only counted for the log.
AppendMetrics(c) ==
    /\ pending[c] # <<>>
    /\ metrics' = metrics \cup Fitting(pending[c])
    /\ metricOverflow' = metricOverflow \cup
           ({pending[c][i] : i \in DOMAIN pending[c]} \ Fitting(pending[c]))
    /\ pending' = [pending EXCEPT ![c] = <<>>]
    /\ UNCHANGED <<events, dropCounts, dedup, providerPairs, calls, flushing, history>>
-----------------------------------------------------------------------------
(* Flush *)

\* Mutants of TakeBuffers: one of the buffers is copied, not taken.
TakeBuffersKeepingMetrics ==
    events' = {} /\ dropCounts' = NoDrops /\ metricOverflow' = {} /\ UNCHANGED metrics
TakeBuffersKeepingDropCounts ==
    events' = {} /\ metrics' = {} /\ metricOverflow' = {} /\ UNCHANGED dropCounts

TakeBuffers ==
    events' = {} /\ metrics' = {} /\ dropCounts' = NoDrops /\ metricOverflow' = {}

\* The buffers are swapped out under one lock; the drop counters become
\* points at the end of the metric batch, the overflow count goes to the log.
Swap(f) ==
    /\ fpc' = [fpc EXCEPT ![f] = "events"]
    /\ evBatch' = [evBatch EXCEPT ![f] = events]
    /\ mtBatch' = [mtBatch EXCEPT ![f] = metrics]
    /\ dpBatch' = [dpBatch EXCEPT ![f] = dropCounts]
    /\ flushErr' = [flushErr EXCEPT ![f] = FALSE]
    /\ TakeBuffers
    /\ lostPoints' = lostPoints \cup metricOverflow
    /\ UNCHANGED <<dedup, providerPairs, calls, pending, backend, admitted, emitted,
                   dropped>>

\* What a failing export call may still have delivered of a batch; a
\* shut-down exporter refuses it whole.
Delivered(batch) ==
    IF PartialDelivery /\ closing # "closed" THEN SUBSET batch ELSE {{}}

\* ExportEvents returns nil, or is not called for want of events.
ExportEventsOk(f) ==
    /\ fpc[f] = "events"
    /\ delivered' = delivered \cup evBatch[f]
    /\ evBatch' = [evBatch EXCEPT ![f] = {}]
    /\ fpc' = [fpc EXCEPT ![f] = "metrics"]
    /\ UNCHANGED <<buffers, calls, pending, mtBatch, dpBatch, flushErr, closeVars,
                   shipped, reported, history>>

\* ExportEvents fails: the batch is dropped.
ExportEventsFail(f) ==
    /\ fpc[f] = "events" /\ evBatch[f] # {}
    /\ \E part \in Delivered(evBatch[f]) : delivered' = delivered \cup part
    /\ flushErr' = [flushErr EXCEPT ![f] = TRUE]
    /\ fpc' = [fpc EXCEPT ![f] = "credit"]
    /\ UNCHANGED <<buffers, calls, pending, batches, closeVars, shipped, reported,
                   history>>

\* Mutant of CreditExportDrop: the dropped batch is logged but not counted.
CreditExportDropSilently(f) ==
    /\ fpc[f] = "credit"
    /\ evBatch' = [evBatch EXCEPT ![f] = {}]
    /\ fpc' = [fpc EXCEPT ![f] = "metrics"]
    /\ UNCHANGED <<buffers, calls, pending, mtBatch, dpBatch, flushErr, closeVars,
                   backend, history>>

\* The dropped batch is counted, in a critical section of its own.
CreditExportDrop(f) ==
    /\ fpc[f] = "credit"
    /\ dropCounts' = Counted("export", evBatch[f])
    /\ dropped' = [dropped EXCEPT !["export"] = @ \cup evBatch[f]]
    /\ evBatch' = [evBatch EXCEPT ![f] = {}]
    /\ fpc' = [fpc EXCEPT ![f] = "metrics"]
    /\ UNCHANGED <<events, metrics, metricOverflow, dedup, providerPairs, calls,
                   pending, mtBatch, dpBatch, flushErr, closeVars, backend, admitted,
                   emitted, lostPoints>>

\* ExportMetrics returns nil, or is not called for want of points.
ExportMetricsOk(f) ==
    /\ fpc[f] = "metrics"
    /\ shipped' = shipped \cup mtBatch[f]
    /\ reported' = [r \in Reasons |-> reported[r] \cup dpBatch[f][r]]
    /\ mtBatch' = [mtBatch EXCEPT ![f] = {}]
    /\ dpBatch' = [dpBatch EXCEPT ![f] = NoDrops]
    /\ fpc' = [fpc EXCEPT ![f] = "return"]
    /\ UNCHANGED <<buffers, calls, pending, evBatch, flushErr, closeVars, delivered,
                   history>>

\* ExportMetrics fails: the points are lost, whatever the backend took of
\* them; the drop counters are kept for the next critical section.
ExportMetricsFail(f) ==
    /\ fpc[f] = "metrics" /\ (mtBatch[f] # {} \/ dpBatch[f] # NoDrops)
    /\ \E part \in Delivered(mtBatch[f]), counters \in Delivered(Reasons) :
          /\ shipped' = shipped \cup part
          /\ reported' = [r \in Reasons |->
                 reported[r] \cup (IF r \in counters THEN dpBatch[f][r] ELSE {})]
    /\ lostPoints' = lostPoints \cup mtBatch[f]
    /\ mtBatch' = [mtBatch EXCEPT ![f] = {}]
    /\ flushErr' = [flushErr EXCEPT ![f] = TRUE]
    /\ fpc' = [fpc EXCEPT ![f] = "recredit"]
    /\ UNCHANGED <<buffers, calls, pending, evBatch, dpBatch, closeVars, delivered,
                   admitted, emitted, dropped>>

\* Mutant of Recredited: the failed batch is dropped whole.
RecreditedNothing(f) == dropCounts

Recredited(f) == [r \in Reasons |-> dropCounts[r] \cup dpBatch[f][r]]

\* The drop counters of the failed batch go back to the live ones.
RecreditDropCounts(f) ==
    /\ fpc[f] = "recredit"
    /\ dropCounts' = Recredited(f)
    /\ dpBatch' = [dpBatch EXCEPT ![f] = NoDrops]
    /\ fpc' = [fpc EXCEPT ![f] = "return"]
    /\ UNCHANGED <<events, metrics, metricOverflow, dedup, providerPairs, calls,
                   pending, evBatch, mtBatch, flushErr, closeVars, backend, history>>

FlushStep(f) == \/ ExportEventsOk(f)  \/ ExportEventsFail(f)  \/ CreditExportDrop(f)
                \/ ExportMetricsOk(f) \/ ExportMetricsFail(f) \/ RecreditDropCounts(f)
-----------------------------------------------------------------------------
(* The background flusher, the callers of Flush and Close *)

\* Mutant of Stopped: stop is closed after the wait for the loop.
StoppedLast == closing = "closed"

\* Close has closed stop.
Stopped == closing # "open"

\* Mutant of LoopDone: the loop is not waited for.
LoopNotAwaited == TRUE

\* wg.Wait would return.
LoopDone == fpc[Loop] = "exited"

Joined(shutdownErr) == closeErr \/ flushErr[Closer] \/ shutdownErr

\* loop: a tick, which select may pick although stop is closed already.
LoopTick ==
    /\ fpc[Loop] = "idle"
    /\ Swap(Loop)
    /\ UNCHANGED closeVars

\* A caller's Flush; one that runs while Close does is remembered.
CallFlush(f) ==
    /\ f \in FlushCallers
    /\ fpc[f] = "idle"
    /\ Swap(f)
    /\ overlapped' = (overlapped \/ closing \notin {"open", "closed"})
    /\ UNCHANGED <<closing, closeErr, atClose>>

\* Flush returns to the loop or to its caller, who drops the error.
Return(f) ==
    /\ f # Closer
    /\ fpc[f] = "return"
    /\ fpc' = [fpc EXCEPT ![f] = "idle"]
    /\ flushErr' = [flushErr EXCEPT ![f] = FALSE]
    /\ UNCHANGED <<buffers, calls, pending, batches, closeVars, backend, history>>

\* Close: stop is closed and the loop's context cancelled.
CloseBegin ==
    /\ CloseCalled
    /\ closing = "open"
    /\ closing' = "wait"
    /\ atClose' = calls
    /\ overlapped' = (\E f \in FlushCallers : fpc[f] # "idle")
    /\ UNCHANGED <<buffers, calls, pending, fpc, batches, flushErr, closeErr, backend,
                   history>>

\* loop: stop is picked and the goroutine ends.
LoopExit ==
    /\ Stopped
    /\ fpc[Loop] = "idle"
    /\ fpc' = [fpc EXCEPT ![Loop] = "exited"]
    /\ UNCHANGED <<buffers, calls, pending, batches, flushErr, closeVars, backend,
                   history>>

\* Mutant of CloseFlush: one final flush instead of two.
CloseFlushOnce ==
    /\ closing = "wait"
    /\ LoopDone
    /\ closing' = "flush2"
    /\ Swap(Closer)
    /\ UNCHANGED <<closeErr, atClose, overlapped>>

\* Close: wg.Wait returns and the first final Flush starts.
CloseFlush ==
    /\ closing = "wait"
    /\ LoopDone
    /\ closing' = "flush1"
    /\ Swap(Closer)
    /\ UNCHANGED <<closeErr, atClose, overlapped>>

\* Close: the first final Flush returned, the second one starts.
CloseFlushAgain ==
    /\ closing = "flush1"
    /\ fpc[Closer] = "return"
    /\ closing' = "flush2"
    /\ closeErr' = flushErr[Closer]
    /\ Swap(Closer)
    /\ UNCHANGED <<atClose, overlapped>>

\* Close: the exporter is shut down, which may fail; the errors are joined.
CloseShutdown ==
    /\ closing = "flush2"
    /\ fpc[Closer] = "return"
    /\ closing' = "closed"
    /\ \E shutdownErr \in BOOLEAN :
          closeErr' = Joined(shutdownErr)
    /\ fpc' = [fpc EXCEPT ![Closer] = "idle"]
    /\ UNCHANGED <<buffers, calls, pending, batches, flushErr, atClose, overlapped,
                   backend, history>>

CloseStep == CloseBegin \/ CloseFlush \/ CloseFlushAgain \/ CloseShutdown

CallerStep(c) ==
    \/ Reject(c)
    \/ \E key \in Keys : RecordOverflow(c, key) \/ RecordDuplicate(c, key)
    \/ \E key \in Keys, estimated \in BOOLEAN : RecordAdmit(c, key, estimated)
    \/ SetInFlight(c)
    \/ \E pair \in Pairs : RecordProviderCall(c, pair)
    \/ AppendMetrics(c)

FlusherStep(f) == FlushStep(f) \/ CallFlush(f) \/ Return(f)

Next == \/ \E c \in Callers : CallerStep(c)
        \/ \E f \in Flushers : FlusherStep(f)
        \/ LoopTick \/ LoopExit
        \/ CloseStep

Spec == Init /\ [][Next]_vars

\* A goroutine that is not blocked runs, exporter calls return, the ticker
\* ticks; select picks stop eventually when both its cases stay ready.
FairSpec ==
    /\ Spec
    /\ \A c \in Callers : WF_vars(AppendMetrics(c))
    /\ \A f \in Flushers : WF_vars(FlushStep(f) \/ Return(f))
    /\ WF_vars(LoopTick) /\ SF_vars(LoopExit)
    /\ WF_vars(CloseFlush \/ CloseFlushAgain \/ CloseShutdown)

\* The same with a backend that recovers: of the batches with drop counters
\* that a flusher offers again and again it takes one.
RecoveringSpec ==
    /\ FairSpec
    /\ \A f \in Flushers : SF_vars(ExportMetricsOk(f) /\ dpBatch[f] # NoDrops)
-----------------------------------------------------------------------------
(* Properties *)

Ranges(points) == {points[i] : i \in DOMAIN points}

TypeOK ==
    /\ events \subseteq CallIds /\ metrics \subseteq Points
    /\ dropCounts \in [Reasons -> SUBSET CallIds] /\ metricOverflow \subseteq Points
    /\ dedup \in [cur : SUBSET Keys, prev : SUBSET Keys]
    /\ providerPairs \subseteq Pairs
    /\ calls \in 0 .. MaxCalls
    /\ pending \in [Callers -> Seq(Points)]
    /\ fpc \in [Flushers -> {"idle", "events", "credit", "metrics", "recredit",
                             "return", "exited"}]
    /\ evBatch \in [Flushers -> SUBSET CallIds]
    /\ mtBatch \in [Flushers -> SUBSET Points]
    /\ dpBatch \in [Flushers -> [Reasons -> SUBSET CallIds]]
    /\ flushErr \in [Flushers -> BOOLEAN]
    /\ closing \in {"open", "wait", "flush1", "flush2", "closed"} /\ closeErr \in BOOLEAN
    /\ delivered \subseteq CallIds /\ shipped \subseteq Points
    /\ reported \in [Reasons -> SUBSET CallIds]
    /\ admitted \subseteq CallIds /\ emitted \subseteq Keys
    /\ dropped \in [Reasons -> SUBSET CallIds] /\ lostPoints \subseteq Points
    /\ atClose \in 0 .. MaxCalls /\ overlapped \in BOOLEAN

\* Events and drop counter units that flushers hold.
HeldEvents   == {id \in CallIds : \E f \in Flushers : id \in evBatch[f]}
HeldDrops(r) == {id \in CallIds : \E f \in Flushers : id \in dpBatch[f][r]}

\* Every admitted event is in the buffer, in the hands of a flusher, with the
\* backend or counted as an export drop: no interleaving of Record, Flush and
\* Close loses one silently.
EventsAccounted ==
    admitted = events \cup HeldEvents \cup delivered \cup dropped["export"]

\* An event leaves the buffer once, to one flusher, and is offered to the
\* exporter once: overlapping flushes never send it twice (Flush's swap).
\* Only a batch whose export failed half way can be both sent and held.
EventOfferedOnce ==
    /\ events \cap (HeldEvents \cup delivered \cup dropped["export"]) = {}
    /\ HeldEvents \cap dropped["export"] = {}
    /\ \A f \in Flushers : fpc[f] # "credit" => evBatch[f] \cap delivered = {}
    /\ \A f, g \in Flushers : f # g => evBatch[f] \cap evBatch[g] = {}

\* Loud drops: every dropped observation is in a drop counter, in the drop
\* points of a batch or with the backend, whatever exports fail (Flush's
\* re-credit: "a backend outage can never destroy the record of its own
\* damage").
DropsNeverForgotten ==
    \A r \in Reasons :
        dropped[r] = dropCounts[r] \cup reported[r] \cup HeldDrops(r)

\* What a flusher holds goes with where it is, and numbers are given once.
Phases ==
    /\ \A f \in Flushers :
          /\ fpc[f] \notin {"events", "credit"} => evBatch[f] = {}
          /\ fpc[f] \in {"idle", "return", "exited"} => \A r \in Reasons : dpBatch[f][r] = {}
    /\ closing \in {"open", "wait"} => fpc[Closer] = "idle"
NumberedSoFar ==
    \A id \in CallIds : id \in admitted \/ (\E r \in Reasons : id \in dropped[r]) => id <= calls

\* The inductive strengthening of the four properties of events and drops:
\* whatever the failures, each observation is in the books exactly where the
\* code put it (Record, Flush and Close together).
Accounting ==
    /\ Phases /\ NumberedSoFar
    /\ EventsAccounted /\ EventOfferedOnce /\ DropsNeverForgotten

\* Each drop is in one place only, so it reaches the backend at most once
\* (Flush: "re-crediting cannot double-count").
DropsCountedOnce ==
    \A r \in Reasons :
        /\ dropCounts[r] \cap reported[r] = {}
        /\ \A f \in Flushers : dpBatch[f][r] \cap (dropCounts[r] \cup reported[r]) = {}
        /\ \A f, g \in Flushers : f # g => dpBatch[f][r] \cap dpBatch[g][r] = {}

\* A metric point is in one place and goes to the exporter at most once: a
\* failed batch is never queued again, an overlapping flush never holds the
\* same point (Flush: "re-queuing deltas risks double-count on partial
\* writes").
PointOfferedOnce ==
    LET done == shipped \cup lostPoints \cup metricOverflow
    IN  /\ metrics \cap done = {}
        /\ \A f \in Flushers : mtBatch[f] \cap (metrics \cup done) = {}
        /\ \A f, g \in Flushers : f # g => mtBatch[f] \cap mtBatch[g] = {}

AllPoints == metrics \cup shipped \cup lostPoints \cup metricOverflow
                 \cup (UNION {mtBatch[f] : f \in Flushers})
                 \cup (UNION {Ranges(pending[c]) : c \in Callers})

\* Admission decides everything else: an outcome that was suppressed, dropped
\* or rejected never reaches the metrics, an admitted one reaches them once or
\* is logged as lost; only admitted keys are remembered, so that a retry after
\* an overflow emits, and of those all, or more than a whole generation (Record:
\* "drops the whole observation", "event, metric increments, and de-dup memory").
OutcomesCountedOnce ==
    LET remembered == dedup.cur \cup dedup.prev
    IN  /\ PointOfferedOnce
        /\ {p.id : p \in {q \in AllPoints : q.family = "txn"}} = admitted
        /\ remembered \subseteq emitted
        /\ Cardinality(remembered) > DedupCap \/ remembered = emitted

\* Nothing grows without bound: both buffers, whoever appends between the two
\* critical sections of a call, the memory of keys, and the provider family,
\* which gets PairCap series and the fallback although a pair is admitted and
\* its point appended under separate locks.
MemoryBounded ==
    /\ Cardinality(events) <= BufSize /\ Cardinality(metrics) <= MetricsCap
    /\ Cardinality(dedup.cur \cup dedup.prev) <= 2 * DedupCap
    /\ Cardinality({p.series : p \in {q \in AllPoints : q.family = "provider_calls"}}
                   \ {Other}) <= PairCap

\* The observations as the abstract ledger sees them.
Ledger == INSTANCE ObservationLedger WITH
    Observations <- CallIds, Lost <- "export",
    pending <- events \cup HeldEvents,
    unreported <- [r \in Reasons |-> dropCounts[r] \cup HeldDrops(r)]

\* Buffers, overlapping flushes and re-credits add up to the ledger: no
\* observation is dropped uncounted, no count is lost or reported twice
\* (Std's "loud drops, never silent ones").
LedgerSpec == Ledger!Spec

\* When the backend takes the metrics of Close's last flush, it has been told
\* of every drop made before Close, the ones Close's own first flush caused
\* included, although that flush had failed (Close: "one more pass so
\* export-failure counters from the final flush get their chance to ship").
CloseReportsDamage ==
    [][/\ closing = "flush2" /\ ~ overlapped
       /\ fpc[Closer] = "metrics" /\ fpc'[Closer] = "return"
       => \A r \in Reasons : dropped[r] \cap 1 .. atClose \subseteq reported'[r]]_vars

\* A Close that has returned handed over everything recorded before it was
\* called: nothing of it is left in the buffer or with the background flusher;
\* and one that returned nil lost nothing of it, each event was delivered or is
\* a reported drop (Close waits for the loop before its final flushes, and
\* joins the errors of both with the exporter's).
CloseDelivers ==
    closing = "closed" =>
        /\ admitted \cap 1 .. atClose \subseteq
             delivered \cup dropped["export"] \cup UNION {evBatch[f] : f \in FlushCallers}
        /\ ~ closeErr /\ ~ overlapped =>
             admitted \cap 1 .. atClose \subseteq delivered \cup reported["export"]

\* While nobody closes the emitter, every admitted event is eventually with
\* the backend or counted as dropped, and every drop eventually reaches a
\* backend that recovers, however many batches before that fail (loop: a flush
\* for every tick; Flush's re-credit).
EventuallySettled ==
    \A id \in CallIds :
        /\ id \in admitted ~> id \in delivered \cup dropped["export"] \/ closing # "open"
        /\ (\E r \in Reasons : id \in dropped[r]) ~>
               (\E r \in Reasons : id \in reported[r]) \/ closing # "open"

\* Close returns: the loop ends although ticks keep coming, and neither final
\* flush waits for anyone.
CloseReturns == closing = "wait" ~> closing = "closed"
=============================================================================
