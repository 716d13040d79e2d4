--------------------------- MODULE EmitterProofs ---------------------------
(***************************************************************************)
(* Proofs about the emitter, for any number of goroutines and calls, any   *)
(* buffer sizes and caps, and any failures of the exporter.                *)
(***************************************************************************)
EXTENDS Emitter, FiniteSetTheorems, TLAPS

\* The next call has a number in range.
LEMMA CallNumber ==
    ASSUME TypeOK, NEW c \in Callers, StartCall(c)
    PROVE  calls' \in CallIds /\ calls' = calls + 1 /\ calls' \in 0 .. MaxCalls
  BY EmitterAssumption DEF TypeOK, StartCall, CallIds

\* The drop reasons the code uses.
LEMMA ReasonNames == {"invalid", "overflow", "export"} = Reasons
  BY DEF Reasons

\* Every point a call makes is a point.
LEMMA PointType ==
    ASSUME NEW id \in CallIds, NEW family \in Families, NEW series \in Pairs \cup {Other, NoSeries}
    PROVE  Point(id, family, series) \in Points
  BY DEF Point, Points

LEMMA FamilyNames ==
    {"value", "txn", "inflight_value", "inflight_count", "provider_calls"} = Families
  BY DEF Families

\* The series of a provider call is a pair or the fallback.
LEMMA PairSeriesType ==
    ASSUME TypeOK, NEW pair \in Pairs
    PROVE  /\ PairSeries(pair) \in Pairs \cup {Other}
           /\ PairsAfter(pair) \subseteq Pairs
  BY DEF TypeOK, PairSeries, PairsAfter

\* A two-generation set over Keys stays one.
LEMMA RememberType ==
    ASSUME NEW gens \in [cur : SUBSET Keys, prev : SUBSET Keys], NEW key \in Keys
    PROVE  Remember(gens, key) \in [cur : SUBSET Keys, prev : SUBSET Keys]
<1> DEFINE Gens == [cur : SUBSET Keys, prev : SUBSET Keys]
<1>1. gens.cur \in SUBSET Keys /\ gens.prev \in SUBSET Keys
  OBVIOUS
<1>2. [cur |-> {key}, prev |-> gens.cur] \in Gens
  BY <1>1
<1>3. [cur |-> gens.cur \cup {key}, prev |-> gens.prev] \in Gens
  BY <1>1
<1> QED
  BY <1>2, <1>3 DEF Remember

\* Calls make one or two points.
LEMMA ShortSequences ==
    ASSUME NEW S, NEW x \in S, NEW y \in S
    PROVE  <<>> \in Seq(S) /\ <<x>> \in Seq(S) /\ <<x, y>> \in Seq(S)
  OBVIOUS

\* The elements of a sequence over a set are in the set.
LEMMA SequenceElements ==
    ASSUME NEW S, NEW s \in Seq(S)
    PROVE  \A i \in DOMAIN s : s[i] \in S
  OBVIOUS

\* What AppendMetrics keeps, and what it is given, are points.
LEMMA FittingType ==
    ASSUME NEW points \in Seq(Points)
    PROVE  /\ Fitting(points) \subseteq Points
           /\ {points[i] : i \in DOMAIN points} \subseteq Points
<1>1. \A i \in DOMAIN points : points[i] \in Points
  BY SequenceElements
<1> QED
  BY <1>1 DEF Fitting

\* The emitter starts well typed.
LEMMA TypeInit == Init => TypeOK
<1> SUFFICES ASSUME Init PROVE TypeOK
  OBVIOUS
<1>1. NewTwoGenSet \in [cur : SUBSET Keys, prev : SUBSET Keys] /\ NoDrops \in [Reasons -> SUBSET CallIds]
  BY DEF NewTwoGenSet, NoDrops
<1>2. 0 \in 0 .. MaxCalls /\ <<>> \in Seq(Points)
  BY EmitterAssumption
<1>3. /\ events \subseteq CallIds /\ metrics \subseteq Points
      /\ dropCounts \in [Reasons -> SUBSET CallIds] /\ metricOverflow \subseteq Points
      /\ dedup \in [cur : SUBSET Keys, prev : SUBSET Keys]
      /\ providerPairs \subseteq Pairs
  BY <1>1 DEF Init
<1>4. calls \in 0 .. MaxCalls /\ atClose \in 0 .. MaxCalls
  BY <1>2 DEF Init
<1>5. pending \in [Callers -> Seq(Points)]
  BY <1>2 DEF Init
<1>6. fpc \in [Flushers -> {"idle", "events", "credit", "metrics", "recredit", "return", "exited"}]
  BY DEF Init
<1>7. /\ evBatch \in [Flushers -> SUBSET CallIds]
      /\ mtBatch \in [Flushers -> SUBSET Points]
      /\ dpBatch \in [Flushers -> [Reasons -> SUBSET CallIds]]
      /\ flushErr \in [Flushers -> BOOLEAN]
  BY <1>1 DEF Init
<1>8. /\ closing \in {"open", "wait", "flush1", "flush2", "closed"}
      /\ closeErr \in BOOLEAN /\ overlapped \in BOOLEAN
  BY DEF Init
<1>9. /\ delivered \subseteq CallIds /\ shipped \subseteq Points
      /\ reported \in [Reasons -> SUBSET CallIds]
      /\ admitted \subseteq CallIds /\ emitted \subseteq Keys
      /\ dropped \in [Reasons -> SUBSET CallIds] /\ lostPoints \subseteq Points
  BY <1>1 DEF Init
<1> QED
  BY <1>3, <1>4, <1>5, <1>6, <1>7, <1>8, <1>9 DEF TypeOK

\* Every step keeps the types.
LEMMA TypeStep == TypeOK /\ [Next]_vars => TypeOK'
<1> SUFFICES ASSUME TypeOK, [Next]_vars PROVE TypeOK'
  OBVIOUS
<1> USE EmitterAssumption, ReasonNames DEF TypeOK
<1>1. CASE UNCHANGED vars
  BY <1>1 DEF vars, buffers, flushing, batches, closeVars, backend, history
<1>2. ASSUME NEW c \in Callers, CallerStep(c) PROVE TypeOK'
  <2>1. CASE Reject(c)
    BY <2>1, CallNumber, ReasonNames DEF Reject, StartCall, CountDrop, Counted, flushing, batches, closeVars, backend
  <2>2. ASSUME NEW key \in Keys, RecordOverflow(c, key) PROVE TypeOK'
    BY <2>2, CallNumber, ReasonNames DEF RecordOverflow, StartCall, CountDrop, Counted, flushing, batches, closeVars, backend
  <2>3. ASSUME NEW key \in Keys, RecordDuplicate(c, key) PROVE TypeOK'
    BY <2>3, CallNumber, ReasonNames DEF RecordDuplicate, StartCall, buffers, flushing, batches, closeVars, backend, history
  <2>4. ASSUME NEW key \in Keys, NEW estimated \in BOOLEAN, RecordAdmit(c, key, estimated)
        PROVE  TypeOK'
    <3>1. OutcomePoints(calls', estimated) \in Seq(Points)
      BY <2>4, CallNumber, ReasonNames, PointType, FamilyNames, ShortSequences DEF RecordAdmit, OutcomePoints
    <3>2. dedup' \in [cur : SUBSET Keys, prev : SUBSET Keys]
      BY <2>4, RememberType DEF RecordAdmit
    <3> QED
      BY <2>4, CallNumber, <3>1, <3>2 DEF RecordAdmit, StartCall, flushing, batches, closeVars, backend
  <2>5. CASE SetInFlight(c)
    <3>1. <<Point(calls', "inflight_value", NoSeries), Point(calls', "inflight_count", NoSeries)>>
              \in Seq(Points)
      BY <2>5, CallNumber, ReasonNames, PointType, FamilyNames, ShortSequences DEF SetInFlight
    <3> QED
      BY <2>5, CallNumber, <3>1 DEF SetInFlight, StartCall, buffers, flushing, batches, closeVars, backend, history
  <2>6. ASSUME NEW pair \in Pairs, RecordProviderCall(c, pair) PROVE TypeOK'
    <3>1. <<Point(calls', "provider_calls", PairSeries(pair))>> \in Seq(Points)
      BY <2>6, CallNumber, PairSeriesType, PointType, FamilyNames, ShortSequences DEF RecordProviderCall
    <3> QED
      BY <2>6, CallNumber, <3>1, PairSeriesType
      DEF RecordProviderCall, StartCall, flushing, batches, closeVars, backend, history
  <2>7. CASE AppendMetrics(c)
    <3>1. pending[c] \in Seq(Points) /\ <<>> \in Seq(Points)
      OBVIOUS
    <3> QED
      BY <2>7, <3>1, FittingType DEF AppendMetrics, flushing, batches, closeVars, backend, history
  <2> QED
    BY <1>2, <2>1, <2>2, <2>3, <2>4, <2>5, <2>6, <2>7 DEF CallerStep
<1>3. ASSUME NEW f \in Flushers, FlusherStep(f) PROVE TypeOK'
  <2> USE DEF buffers, batches, closeVars, backend, history, NoDrops
  <2>1. CASE ExportEventsOk(f)
    BY <2>1 DEF ExportEventsOk
  <2>2. CASE ExportEventsFail(f)
    BY <2>2 DEF ExportEventsFail, Delivered
  <2>3. CASE CreditExportDrop(f)
    BY <2>3 DEF CreditExportDrop, Counted
  <2>4. CASE ExportMetricsOk(f)
    BY <2>4 DEF ExportMetricsOk
  <2>5. CASE ExportMetricsFail(f)
    BY <2>5 DEF ExportMetricsFail, Delivered
  <2>6. CASE RecreditDropCounts(f)
    BY <2>6 DEF RecreditDropCounts, Recredited
  <2>7. CASE CallFlush(f)
    BY <2>7 DEF CallFlush, Swap, TakeBuffers
  <2>8. CASE Return(f)
    BY <2>8 DEF Return
  <2> QED
    BY <1>3, <2>1, <2>2, <2>3, <2>4, <2>5, <2>6, <2>7, <2>8 DEF FlusherStep, FlushStep
<1>4. CASE LoopTick
  BY <1>4 DEF LoopTick, Swap, TakeBuffers, NoDrops, closeVars, backend
<1>5. CASE LoopExit
  BY <1>5 DEF LoopExit, buffers, batches, closeVars, backend, history
<1>6. CASE CloseStep
  <2> USE DEF buffers, batches, closeVars, backend, history, NoDrops
  <2>1. CASE CloseBegin
    BY <2>1 DEF CloseBegin
  <2>2. CASE CloseFlush
    BY <2>2 DEF CloseFlush, Swap, TakeBuffers
  <2>3. CASE CloseFlushAgain
    BY <2>3 DEF CloseFlushAgain, Swap, TakeBuffers, Flushers
  <2>4. CASE CloseShutdown
    BY <2>4 DEF CloseShutdown, Joined
  <2> QED
    BY <1>6, <2>1, <2>2, <2>3, <2>4 DEF CloseStep
<1> QED
  BY <1>1, <1>2, <1>3, <1>4, <1>5, <1>6 DEF Next

\* Type correctness of the emitter, for all values of the constants.
THEOREM TypeCorrect == Spec => []TypeOK
  BY TypeInit, TypeStep, PTL DEF Spec
-----------------------------------------------------------------------------
\* Where the emitter starts, the books are empty and balanced.
LEMMA AccountingInit == Init => Accounting
<1> SUFFICES ASSUME Init PROVE Accounting
  OBVIOUS
<1> USE DEF Init, NoDrops
<1>1. HeldEvents = {} /\ \A r \in Reasons : HeldDrops(r) = {}
  BY DEF HeldEvents, HeldDrops
<1>2. Phases
  BY DEF Phases, Flushers
<1>3. NumberedSoFar /\ DropsNeverForgotten
  BY <1>1 DEF NumberedSoFar, DropsNeverForgotten
<1>4. EventsAccounted /\ EventOfferedOnce
  BY <1>1, ReasonNames DEF EventsAccounted, EventOfferedOnce
<1> QED
  BY <1>2, <1>3, <1>4 DEF Accounting

\* A flusher that starts a Flush holds nothing, so the swap loses nothing.
LEMMA SwapAccounting ==
    ASSUME TypeOK, Accounting, NEW f \in Flushers, fpc[f] \in {"idle", "return"}, Swap(f)
    PROVE  /\ EventsAccounted' /\ EventOfferedOnce' /\ DropsNeverForgotten' /\ NumberedSoFar'
           /\ \A g \in Flushers :
                 /\ fpc'[g] \notin {"events", "credit"} => evBatch'[g] = {}
                 /\ fpc'[g] \in {"idle", "return", "exited"} =>
                       \A r \in Reasons : dpBatch'[g][r] = {}
<1> USE DEF TypeOK, Accounting, Swap, TakeBuffers, NoDrops, backend
<1>1. evBatch[f] = {} /\ \A r \in Reasons : dpBatch[f][r] = {}
  BY DEF Phases
<1>2. EventsAccounted'
  BY <1>1 DEF EventsAccounted, HeldEvents
<1>3. EventOfferedOnce'
  BY <1>1 DEF EventOfferedOnce, HeldEvents
<1>4. DropsNeverForgotten'
  <2> SUFFICES ASSUME NEW r \in Reasons
               PROVE  dropped'[r] = dropCounts'[r] \cup reported'[r] \cup HeldDrops(r)'
    BY DEF DropsNeverForgotten
  <2>1. dropped[r] = dropCounts[r] \cup reported[r] \cup HeldDrops(r)
    BY DEF DropsNeverForgotten
  <2>2. HeldDrops(r)' = HeldDrops(r) \cup dropCounts[r] /\ dropCounts'[r] = {}
    BY <1>1 DEF HeldDrops
  <2> QED
    BY <2>1, <2>2
<1>5. NumberedSoFar'
  BY DEF NumberedSoFar
<1> QED
  BY <1>2, <1>3, <1>4, <1>5 DEF Phases

\* Every step keeps the books.
LEMMA AccountingStep == TypeOK /\ Accounting /\ [Next]_vars => Accounting'
<1> SUFFICES ASSUME TypeOK, Accounting, [Next]_vars PROVE Accounting'
  OBVIOUS
<1> USE ReasonNames
<1>1. CASE UNCHANGED vars
  BY <1>1 DEF vars, buffers, flushing, batches, closeVars, backend, history, Accounting, Phases,
     NumberedSoFar, EventsAccounted, EventOfferedOnce, DropsNeverForgotten, HeldEvents, HeldDrops
<1>2. ASSUME NEW c \in Callers, CallerStep(c) PROVE Accounting'
  <2> USE DEF flushing, batches, closeVars, backend, history
  <2>0. Phases'
    <3>1. UNCHANGED <<fpc, evBatch, dpBatch, closing>>
      BY <1>2 DEF CallerStep, Reject, RecordOverflow, CountDrop, RecordDuplicate,
         RecordAdmit, SetInFlight, RecordProviderCall, AppendMetrics
    <3> QED
      BY <3>1 DEF Accounting, Phases
  <2>1. ASSUME NEW reason \in Reasons, reason # "export", StartCall(c), CountDrop(reason)
        PROVE  Accounting'
    <3>1. \A id \in CallIds : id <= calls => id # calls'
      BY <2>1, CallNumber DEF TypeOK, CallIds
    <3>2. EventsAccounted' /\ EventOfferedOnce'
      BY <2>1 DEF CountDrop, TypeOK, Accounting, EventsAccounted, EventOfferedOnce, HeldEvents
    <3>3. DropsNeverForgotten'
      BY <2>1 DEF CountDrop, Counted, TypeOK, Accounting, DropsNeverForgotten, HeldDrops
    <3>4. NumberedSoFar'
      BY <2>1, CallNumber DEF CountDrop, TypeOK, Accounting, NumberedSoFar, CallIds
    <3> QED
      BY <2>0, <3>2, <3>3, <3>4 DEF Accounting
  <2>2. ASSUME NEW key \in Keys, NEW estimated \in BOOLEAN, RecordAdmit(c, key, estimated)
        PROVE  Accounting'
    <3>1. calls' \notin admitted /\ (\A r \in Reasons : calls' \notin dropped[r])
      BY <2>2, CallNumber DEF RecordAdmit, Accounting, NumberedSoFar, TypeOK, CallIds
    <3>2. EventsAccounted' /\ EventOfferedOnce'
      BY <2>2, <3>1 DEF RecordAdmit, TypeOK, Accounting, EventsAccounted, EventOfferedOnce, HeldEvents
    <3>3. DropsNeverForgotten'
      BY <2>2 DEF RecordAdmit, TypeOK, Accounting, DropsNeverForgotten, HeldDrops
    <3>4. NumberedSoFar'
      BY <2>2, CallNumber DEF RecordAdmit, TypeOK, Accounting, NumberedSoFar, CallIds
    <3> QED
      BY <2>0, <3>2, <3>3, <3>4 DEF Accounting
  <2>3. ASSUME UNCHANGED <<events, dropCounts, flushing, admitted, dropped>>, calls' \in {calls, calls + 1}
        PROVE  Accounting'
    <3>1. EventsAccounted' /\ EventOfferedOnce'
      BY <2>3 DEF Accounting, EventsAccounted, EventOfferedOnce, HeldEvents
    <3>2. DropsNeverForgotten'
      BY <2>3 DEF Accounting, DropsNeverForgotten, HeldDrops
    <3>3. NumberedSoFar'
      BY <2>3 DEF TypeOK, Accounting, NumberedSoFar, CallIds
    <3> QED
      BY <2>0, <3>1, <3>2, <3>3 DEF Accounting
  <2> QED
    BY <1>2, <2>1, <2>2, <2>3 DEF CallerStep, StartCall, Reject, RecordOverflow, RecordDuplicate,
       SetInFlight, RecordProviderCall, AppendMetrics, buffers
<1>3. ASSUME NEW f \in Flushers, FlushStep(f) PROVE Accounting'
  <2> USE DEF buffers, batches, closeVars, backend, history
  <2>0. Phases'
    <3> USE EmitterAssumption DEF TypeOK, Accounting, Phases, Flushers
    <3>1. CASE ExportEventsOk(f) \/ ExportEventsFail(f)
      BY <3>1 DEF ExportEventsOk, ExportEventsFail
    <3>2. CASE CreditExportDrop(f)
      BY <3>2 DEF CreditExportDrop
    <3>3. CASE ExportMetricsFail(f)
      BY <3>3 DEF ExportMetricsFail
    <3>5. CASE ExportMetricsOk(f)
      BY <3>5 DEF ExportMetricsOk, NoDrops
    <3>4. CASE RecreditDropCounts(f)
      BY <3>4 DEF RecreditDropCounts, NoDrops
    <3> QED
      BY <1>3, <3>1, <3>2, <3>3, <3>4, <3>5 DEF FlushStep
  <2>1. CASE ExportEventsOk(f)
    <3>1. EventsAccounted' /\ EventOfferedOnce'
      BY <2>1 DEF ExportEventsOk, TypeOK, Accounting, EventsAccounted, EventOfferedOnce, HeldEvents
    <3>2. DropsNeverForgotten' /\ NumberedSoFar'
      BY <2>1 DEF ExportEventsOk, Accounting, DropsNeverForgotten, HeldDrops, NumberedSoFar
    <3> QED
      BY <2>0, <3>1, <3>2 DEF Accounting
  <2>2. CASE ExportEventsFail(f)
    <3>1. EventsAccounted' /\ EventOfferedOnce'
      BY <2>2 DEF ExportEventsFail, Delivered, TypeOK, Accounting, EventsAccounted, EventOfferedOnce, HeldEvents
    <3>2. DropsNeverForgotten' /\ NumberedSoFar'
      BY <2>2 DEF ExportEventsFail, Accounting, DropsNeverForgotten, HeldDrops, NumberedSoFar
    <3> QED
      BY <2>0, <3>1, <3>2 DEF Accounting
  <2>3. CASE CreditExportDrop(f)
    <3>1. EventsAccounted' /\ EventOfferedOnce'
      BY <2>3 DEF CreditExportDrop, TypeOK, Accounting, EventsAccounted, EventOfferedOnce, HeldEvents
    <3>2. DropsNeverForgotten'
      BY <2>3 DEF CreditExportDrop, Counted, TypeOK, Accounting, DropsNeverForgotten, HeldDrops
    <3>3. evBatch[f] \subseteq admitted
      BY DEF TypeOK, Accounting, EventsAccounted, HeldEvents
    <3>4. NumberedSoFar'
      BY <2>3, <3>3 DEF CreditExportDrop, TypeOK, Accounting, NumberedSoFar
    <3> QED
      BY <2>0, <3>1, <3>2, <3>4 DEF Accounting
  <2>4. CASE ExportMetricsOk(f)
    <3>1. EventsAccounted' /\ EventOfferedOnce' /\ NumberedSoFar'
      BY <2>4 DEF ExportMetricsOk, TypeOK, Accounting, EventsAccounted, EventOfferedOnce, HeldEvents,
         NumberedSoFar
    <3>2. DropsNeverForgotten'
      BY <2>4 DEF ExportMetricsOk, NoDrops, TypeOK, Accounting, DropsNeverForgotten, HeldDrops
    <3> QED
      BY <2>0, <3>1, <3>2 DEF Accounting
  <2>5. CASE ExportMetricsFail(f)
    <3>1. EventsAccounted' /\ EventOfferedOnce' /\ NumberedSoFar'
      BY <2>5 DEF ExportMetricsFail, TypeOK, Accounting, EventsAccounted, EventOfferedOnce, HeldEvents,
         NumberedSoFar
    <3>2. DropsNeverForgotten'
      BY <2>5 DEF ExportMetricsFail, TypeOK, Accounting, DropsNeverForgotten, HeldDrops
    <3> QED
      BY <2>0, <3>1, <3>2 DEF Accounting
  <2>6. CASE RecreditDropCounts(f)
    <3>1. EventsAccounted' /\ EventOfferedOnce' /\ NumberedSoFar'
      BY <2>6 DEF RecreditDropCounts, TypeOK, Accounting, EventsAccounted, EventOfferedOnce, HeldEvents,
         NumberedSoFar
    <3>2. DropsNeverForgotten'
      BY <2>6 DEF RecreditDropCounts, Recredited, NoDrops, TypeOK, Accounting, DropsNeverForgotten, HeldDrops
    <3> QED
      BY <2>0, <3>1, <3>2 DEF Accounting
  <2> QED
    BY <1>3, <2>1, <2>2, <2>3, <2>4, <2>5, <2>6 DEF FlushStep
<1>a. ASSUME NEW f \in Flushers, fpc[f] \in {"idle", "return"}, Swap(f),
             closing' \in {"open", "wait"} => closing \in {"open", "wait"} /\ f # Closer
      PROVE  Accounting'
  <2>1. Closer \in Flushers
    BY DEF Flushers
  <2>2. f # Closer => fpc'[Closer] = fpc[Closer]
    BY <1>a, <2>1 DEF Swap, TypeOK
  <2>3. closing' \in {"open", "wait"} => fpc'[Closer] = "idle"
    BY <1>a, <2>2 DEF Accounting, Phases
  <2> QED
    BY <1>a, <2>3, SwapAccounting DEF Accounting, Phases
<1>4. ASSUME NEW f \in Flushers, CallFlush(f) PROVE Accounting'
  BY <1>4, <1>a, EmitterAssumption DEF CallFlush
<1>5. CASE LoopTick
  BY <1>5, <1>a, EmitterAssumption DEF LoopTick, closeVars, Flushers
<1>6. CASE CloseFlush \/ CloseFlushAgain
  <2>1. Closer \in Flushers
    BY DEF Flushers
  <2>2. CASE CloseFlush
    BY <2>1, <2>2, <1>a DEF CloseFlush, Accounting, Phases
  <2>3. CASE CloseFlushAgain
    BY <2>1, <2>3, <1>a DEF CloseFlushAgain
  <2> QED
    BY <1>6, <2>2, <2>3
<1>7. ASSUME NEW f \in Flushers, Return(f) \/ LoopExit \/ CloseBegin \/ CloseShutdown PROVE Accounting'
  <2>1. UNCHANGED <<buffers, batches, backend, history, calls>>
    BY <1>7 DEF Return, LoopExit, CloseBegin, CloseShutdown
  <2>2. /\ \A g \in Flushers : fpc'[g] = fpc[g] \/ (fpc[g] \in {"idle", "return"} /\ fpc'[g] \in {"idle", "exited"})
        /\ closing' \in {"open", "wait"} => closing \in {"open", "wait"} /\ fpc'[Closer] = fpc[Closer]
    <3> Loop \in Flushers /\ Closer \in Flushers /\ Loop # Closer
      BY EmitterAssumption DEF Flushers
    <3> fpc \in [Flushers -> {"idle", "events", "credit", "metrics", "recredit", "return", "exited"}]
      BY DEF TypeOK
    <3>1. CASE Return(f)
      BY <3>1 DEF Return, closeVars
    <3>2. CASE LoopExit
      BY <3>2 DEF LoopExit, closeVars
    <3>3. CASE CloseBegin
      BY <3>3 DEF CloseBegin
    <3>4. CASE CloseShutdown
      BY <3>4 DEF CloseShutdown
    <3> QED
      BY <1>7, <3>1, <3>2, <3>3, <3>4
  <2>3. UNCHANGED <<events, dropCounts, evBatch, dpBatch, delivered, reported, admitted, dropped, calls>>
    BY <2>1 DEF buffers, batches, backend, history
  <2>4. Phases'
    BY <2>2, <2>3 DEF Accounting, Phases
  <2>5. EventsAccounted'
    BY <2>3 DEF Accounting, EventsAccounted, HeldEvents
  <2>6. EventOfferedOnce'
    <3>1. \A g \in Flushers : fpc'[g] # "credit" => evBatch[g] \cap delivered = {}
      BY <2>2 DEF Accounting, Phases, EventOfferedOnce
    <3> QED
      BY <2>3, <3>1 DEF Accounting, EventOfferedOnce, HeldEvents
  <2>7. DropsNeverForgotten' /\ NumberedSoFar'
    BY <2>3 DEF Accounting, DropsNeverForgotten, HeldDrops, NumberedSoFar
  <2> QED
    BY <2>4, <2>5, <2>6, <2>7 DEF Accounting
<1> QED
  BY <1>1, <1>2, <1>3, <1>4, <1>5, <1>6, <1>7 DEF Next, FlusherStep, CloseStep, Flushers

\* No interleaving of Record, overlapping flushes, failing or partly delivering
\* exports and Close loses an admitted event silently or offers it twice, and
\* no failed export erases the count of a dropped one (EventsAccounted,
\* EventOfferedOnce and DropsNeverForgotten are conjuncts of Accounting).
THEOREM BooksBalance == Spec => []Accounting
<1>1. TypeOK /\ Accounting /\ [Next]_vars => (TypeOK /\ Accounting)'
  BY AccountingStep, TypeStep
<1> QED
  BY <1>1, AccountingInit, TypeInit, PTL DEF Spec
-----------------------------------------------------------------------------
(* When a failing export delivers nothing, each drop is counted once. *)

\* A new call's number is in no drop counter yet.
LEMMA FreshNumber ==
    ASSUME TypeOK, Accounting, NEW c \in Callers, StartCall(c)
    PROVE  /\ calls' \in CallIds /\ calls' \notin admitted
           /\ calls' \notin events \cup HeldEvents \cup delivered
           /\ \A r \in Reasons : /\ calls' \notin dropped[r] \cup dropCounts[r] \cup reported[r]
                                 /\ \A f \in Flushers : calls' \notin dpBatch[f][r]
<1>1. calls' \in CallIds /\ calls' \notin admitted /\ \A r \in Reasons : calls' \notin dropped[r]
  BY CallNumber DEF TypeOK, Accounting, NumberedSoFar, CallIds
<1> QED
  BY <1>1 DEF TypeOK, Accounting, EventsAccounted, DropsNeverForgotten, HeldDrops

LEMMA CountedOnceStep ==
    ASSUME ~ PartialDelivery, TypeOK, Accounting, DropsCountedOnce, [Next]_vars
    PROVE  DropsCountedOnce'
<1> USE ReasonNames DEF TypeOK
<1>1. CASE UNCHANGED <<dropCounts, reported, dpBatch>>
  BY <1>1 DEF DropsCountedOnce
<1>2. ASSUME NEW c \in Callers, NEW reason \in Reasons, StartCall(c), CountDrop(reason)
      PROVE  DropsCountedOnce'
  BY <1>2, FreshNumber DEF CountDrop, Counted, DropsCountedOnce, flushing, batches, backend
<1>3. ASSUME NEW f \in Flushers, CreditExportDrop(f) PROVE DropsCountedOnce'
  <2>1. evBatch[f] \cap dropped["export"] = {}
    BY DEF Accounting, EventOfferedOnce, HeldEvents
  <2>2. \A g \in Flushers : evBatch[f] \cap (dpBatch[g]["export"] \cup reported["export"]) = {}
    BY <2>1 DEF Accounting, DropsNeverForgotten, HeldDrops
  <2> QED
    BY <1>3, <2>2 DEF CreditExportDrop, Counted, DropsCountedOnce, backend
<1>4. ASSUME NEW f \in Flushers, ExportMetricsOk(f) PROVE DropsCountedOnce'
  BY <1>4 DEF ExportMetricsOk, DropsCountedOnce, NoDrops, buffers
<1>5. ASSUME NEW f \in Flushers, ExportMetricsFail(f) PROVE DropsCountedOnce'
  BY <1>5 DEF ExportMetricsFail, Delivered, DropsCountedOnce, buffers
<1>6. ASSUME NEW f \in Flushers, RecreditDropCounts(f) PROVE DropsCountedOnce'
  BY <1>6 DEF RecreditDropCounts, Recredited, DropsCountedOnce, NoDrops, backend
<1>7. ASSUME NEW f \in Flushers, Swap(f) PROVE DropsCountedOnce'
  BY <1>7 DEF Swap, TakeBuffers, DropsCountedOnce, NoDrops, backend
<1>8. ASSUME NEW c \in Callers, CallerStep(c) PROVE DropsCountedOnce'
  BY <1>8, <1>1, <1>2 DEF CallerStep, Reject, RecordOverflow, RecordDuplicate, RecordAdmit, SetInFlight,
     RecordProviderCall, AppendMetrics, buffers, flushing, batches, backend
<1>9. ASSUME NEW f \in Flushers, FlusherStep(f) PROVE DropsCountedOnce'
  BY <1>9, <1>1, <1>3, <1>4, <1>5, <1>6, <1>7 DEF FlusherStep, FlushStep, ExportEventsOk, ExportEventsFail,
     CallFlush, Return, buffers, batches, backend
<1>10. CASE LoopTick \/ LoopExit \/ CloseStep \/ UNCHANGED vars
  BY <1>10, <1>1, <1>7 DEF LoopTick, LoopExit, CloseStep, CloseBegin, CloseFlush, CloseFlushAgain,
     CloseShutdown, buffers, batches, backend, vars, flushing, Flushers
<1> QED
  BY <1>8, <1>9, <1>10 DEF Next

\* An exporter that delivers nothing of a batch it refuses is told of every
\* drop at most once, however flushes, failures and re-credits interleave.
THEOREM DropsReportedOnce ==
    ASSUME ~ PartialDelivery
    PROVE  Spec => []DropsCountedOnce
<1>1. Init => DropsCountedOnce
  BY DEF Init, DropsCountedOnce, NoDrops
<1>2. TypeOK /\ Accounting /\ DropsCountedOnce /\ [Next]_vars
         => (TypeOK /\ Accounting /\ DropsCountedOnce)'
  BY AccountingStep, TypeStep, CountedOnceStep
<1> QED
  BY <1>1, <1>2, AccountingInit, TypeInit, PTL DEF Spec
-----------------------------------------------------------------------------
(* The emitter implements the ledger. *)

Pending       == events \cup HeldEvents
Unreported(r) == dropCounts[r] \cup HeldDrops(r)

\* A step that moves nothing between the places of the ledger stutters.
LEMMA LedgerStutter ==
    ASSUME Pending' = Pending, UNCHANGED <<delivered, reported>>,
           \A r \in Reasons : Unreported(r)' = Unreported(r)
    PROVE  UNCHANGED Ledger!ledger
  BY DEF Ledger!ledger, Pending, Unreported

\* A new call's number is unknown to the ledger.
LEMMA FreshInLedger ==
    ASSUME TypeOK, Accounting, NEW c \in Callers, StartCall(c)
    PROVE  calls' \notin Ledger!Known
  BY FreshNumber DEF Ledger!Known, HeldDrops

LEMMA LedgerSwap ==
    ASSUME TypeOK, Accounting, NEW f \in Flushers, fpc[f] \in {"idle", "return"}, Swap(f)
    PROVE  UNCHANGED Ledger!ledger
<1> USE DEF TypeOK, Swap, TakeBuffers, NoDrops, backend
<1>1. evBatch[f] = {} /\ \A r \in Reasons : dpBatch[f][r] = {}
  BY DEF Accounting, Phases
<1>2. Pending' = Pending
  BY <1>1 DEF Pending, HeldEvents
<1>3. ASSUME NEW r \in Reasons PROVE Unreported(r)' = Unreported(r)
  BY <1>1 DEF Unreported, HeldDrops
<1> QED
  BY <1>2, <1>3, LedgerStutter

\* The steps of the ledger, for the values the emitter gives them.
LEMMA LedgerMoves ==
    /\ \A o \in CallIds : Ledger!Take(o) => Ledger!Next
    /\ \A o \in CallIds, r \in Reasons : Ledger!Refuse(o, r) => Ledger!Next
    /\ \A batch \in SUBSET Pending : Ledger!Deliver(batch) => Ledger!Next
    /\ \A batch \in SUBSET Pending : Ledger!Lose(batch) => Ledger!Next
    /\ \A units \in [Reasons -> SUBSET CallIds] : Ledger!Report(units) => Ledger!Next
  BY DEF Ledger!Next, Pending

LEMMA LedgerStep ==
    ASSUME ~ PartialDelivery, TypeOK, Accounting, DropsCountedOnce, [Next]_vars
    PROVE  Ledger!Next \/ UNCHANGED Ledger!ledger
<1> USE ReasonNames DEF TypeOK
<1> DEFINE Goal == Ledger!Next \/ UNCHANGED Ledger!ledger
<1> SUFFICES Goal
  OBVIOUS
<1> HIDE DEF Goal
<1>1. CASE UNCHANGED <<events, evBatch, delivered, reported, dropCounts, dpBatch>>
  <2>1. Pending' = Pending /\ \A r \in Reasons : Unreported(r)' = Unreported(r)
    BY <1>1 DEF Pending, HeldEvents, Unreported, HeldDrops
  <2> QED
    BY <1>1, <2>1, LedgerStutter DEF Goal
<1>2. ASSUME NEW c \in Callers, NEW reason \in Reasons, reason # "export", StartCall(c), CountDrop(reason)
      PROVE  Goal
  <2>1. Pending' = Pending /\ UNCHANGED <<delivered, reported>>
    BY <1>2 DEF CountDrop, Pending, HeldEvents, flushing, batches, backend
  <2>2. \A r \in Reasons : Unreported(r)' = IF r = reason THEN Unreported(r) \cup {calls'} ELSE Unreported(r)
    BY <1>2 DEF CountDrop, Counted, Unreported, HeldDrops, flushing, batches
  <2>3. Ledger!Refuse(calls', reason)
    BY <1>2, <2>1, <2>2, FreshInLedger DEF Ledger!Refuse, Pending, Unreported
  <2> QED
    BY <1>2, <2>3, CallNumber, LedgerMoves DEF Goal
<1>3. ASSUME NEW c \in Callers, NEW key \in Keys, NEW estimated \in BOOLEAN, RecordAdmit(c, key, estimated)
      PROVE  Goal
  <2>0. StartCall(c)
    BY <1>3 DEF RecordAdmit
  <2>1. Pending' = Pending \cup {calls'} /\ UNCHANGED <<delivered, reported>>
    BY <1>3 DEF RecordAdmit, Pending, HeldEvents, flushing, batches, backend
  <2>2. \A r \in Reasons : Unreported(r)' = Unreported(r)
    BY <1>3 DEF RecordAdmit, Unreported, HeldDrops, flushing, batches
  <2>3. Ledger!Take(calls')
    BY <2>0, <2>1, <2>2, FreshInLedger DEF Ledger!Take, Pending, Unreported
  <2> QED
    BY <2>0, <2>3, CallNumber, LedgerMoves DEF Goal
<1>4. ASSUME NEW f \in Flushers, ExportEventsOk(f) PROVE Goal
  <2>1. evBatch[f] \subseteq Pending /\ UNCHANGED reported /\ delivered' = delivered \cup evBatch[f]
    BY <1>4 DEF ExportEventsOk, Pending, HeldEvents
  <2>2. Pending' = Pending \ evBatch[f]
    BY <1>4 DEF ExportEventsOk, Pending, HeldEvents, buffers, Accounting, EventOfferedOnce
  <2>3. \A r \in Reasons : Unreported(r)' = Unreported(r)
    BY <1>4 DEF ExportEventsOk, Unreported, HeldDrops, buffers
  <2>4. Ledger!Deliver(evBatch[f])
    BY <2>1, <2>2, <2>3 DEF Ledger!Deliver, Pending, Unreported
  <2> QED
    BY <2>1, <2>4, LedgerMoves DEF Goal
<1>5. ASSUME NEW f \in Flushers, ExportEventsFail(f) PROVE Goal
  BY <1>5, <1>1 DEF ExportEventsFail, Delivered, buffers, batches
<1>6. ASSUME NEW f \in Flushers, CreditExportDrop(f) PROVE Goal
  <2>1. evBatch[f] \subseteq Pending /\ UNCHANGED <<delivered, reported>>
    BY <1>6 DEF CreditExportDrop, Pending, HeldEvents, backend
  <2>2. Pending' = Pending \ evBatch[f]
    BY <1>6 DEF CreditExportDrop, Pending, HeldEvents, Accounting, EventOfferedOnce
  <2>3. \A r \in Reasons : Unreported(r)' = IF r = "export" THEN Unreported(r) \cup evBatch[f] ELSE Unreported(r)
    BY <1>6 DEF CreditExportDrop, Counted, Unreported, HeldDrops
  <2>4. Ledger!Lose(evBatch[f])
    BY <2>1, <2>2, <2>3 DEF Ledger!Lose, Pending, Unreported
  <2> QED
    <3> PICK batch \in SUBSET Pending : batch = evBatch[f]
      BY <2>1
    <3>1. Ledger!Lose(batch)
      BY <2>1, <2>2, <2>3 DEF Ledger!Lose, Pending, Unreported
    <3> QED
      BY <3>1, LedgerMoves DEF Goal
<1>7. ASSUME NEW f \in Flushers, ExportMetricsOk(f) PROVE Goal
  <2>1. Pending' = Pending /\ UNCHANGED delivered
    BY <1>7 DEF ExportMetricsOk, Pending, HeldEvents, buffers
  <2>2. \A r \in Reasons : /\ dpBatch[f][r] \subseteq Unreported(r)
                           /\ Unreported(r)' = Unreported(r) \ dpBatch[f][r]
    BY <1>7 DEF ExportMetricsOk, NoDrops, Unreported, HeldDrops, buffers, DropsCountedOnce
  <2>3. reported' = [r \in Reasons |-> reported[r] \cup dpBatch[f][r]]
    BY <1>7 DEF ExportMetricsOk
  <2>4. Ledger!Report(dpBatch[f])
    BY <2>1, <2>2, <2>3 DEF Ledger!Report, Pending, Unreported
  <2> QED
    <3> PICK units \in [Reasons -> SUBSET CallIds] : units = dpBatch[f]
      OBVIOUS
    <3>1. Ledger!Report(units)
      BY <2>1, <2>2, <2>3 DEF Ledger!Report, Pending, Unreported
    <3> QED
      BY <3>1, LedgerMoves DEF Goal
<1>8. ASSUME NEW f \in Flushers, ExportMetricsFail(f) PROVE Goal
  <2>1. reported' = reported
    BY <1>8 DEF ExportMetricsFail, Delivered
  <2> QED
    BY <1>8, <2>1, <1>1 DEF ExportMetricsFail, buffers
<1>9. ASSUME NEW f \in Flushers, RecreditDropCounts(f) PROVE Goal
  <2>1. Pending' = Pending /\ UNCHANGED <<delivered, reported>>
    BY <1>9 DEF RecreditDropCounts, Pending, HeldEvents, backend
  <2>2. \A r \in Reasons : Unreported(r)' = Unreported(r)
    BY <1>9 DEF RecreditDropCounts, Recredited, NoDrops, Unreported, HeldDrops
  <2> QED
    BY <2>1, <2>2, LedgerStutter DEF Goal
<1>10. ASSUME NEW f \in Flushers, fpc[f] \in {"idle", "return"}, Swap(f) PROVE Goal
  BY <1>10, LedgerSwap DEF Goal
<1>11. ASSUME NEW c \in Callers, CallerStep(c) PROVE Goal
  <2>1. CASE Reject(c)
    BY <2>1, <1>2 DEF Reject
  <2>2. ASSUME NEW key \in Keys, RecordOverflow(c, key) PROVE Goal
    BY <2>2, <1>2 DEF RecordOverflow
  <2>3. ASSUME NEW key \in Keys, RecordDuplicate(c, key) PROVE Goal
    BY <2>3, <1>1 DEF RecordDuplicate, buffers, flushing, batches, backend
  <2>4. CASE SetInFlight(c)
    BY <2>4, <1>1 DEF SetInFlight, buffers, flushing, batches, backend
  <2>5. ASSUME NEW pair \in Pairs, RecordProviderCall(c, pair) PROVE Goal
    BY <2>5, <1>1 DEF RecordProviderCall, buffers, flushing, batches, backend
  <2>6. CASE AppendMetrics(c)
    BY <2>6, <1>1 DEF AppendMetrics, flushing, batches, backend
  <2> QED
    BY <1>11, <1>3, <2>1, <2>2, <2>3, <2>4, <2>5, <2>6 DEF CallerStep
<1>12. ASSUME NEW f \in Flushers, FlusherStep(f) PROVE Goal
  <2>1. CASE FlushStep(f)
    BY <2>1, <1>4, <1>5, <1>6, <1>7, <1>8, <1>9 DEF FlushStep
  <2>2. CASE CallFlush(f)
    BY <2>2, <1>10 DEF CallFlush
  <2>3. CASE Return(f)
    BY <2>3, <1>1 DEF Return, buffers, batches, backend
  <2> QED
    BY <1>12, <2>1, <2>2, <2>3 DEF FlusherStep
<1>13. CASE LoopTick \/ LoopExit \/ UNCHANGED vars
  <2>1. CASE LoopTick
    BY <2>1, <1>10 DEF LoopTick, Flushers
  <2>2. CASE LoopExit
    BY <2>2, <1>1 DEF LoopExit, buffers, batches, backend
  <2>3. CASE UNCHANGED vars
    BY <2>3, <1>1 DEF vars, buffers, batches, backend, flushing
  <2> QED
    BY <1>13, <2>1, <2>2, <2>3
<1>14. CASE CloseStep
  <2> Closer \in Flushers
    BY DEF Flushers
  <2>1. CASE CloseBegin
    BY <2>1, <1>1 DEF CloseBegin, buffers, batches, backend
  <2>2. CASE CloseFlush
    BY <2>2, <1>10 DEF CloseFlush, Accounting, Phases
  <2>3. CASE CloseFlushAgain
    BY <2>3, <1>10 DEF CloseFlushAgain
  <2>4. CASE CloseShutdown
    BY <2>4, <1>1 DEF CloseShutdown, buffers, batches, backend
  <2> QED
    BY <1>14, <2>1, <2>2, <2>3, <2>4 DEF CloseStep
<1> QED
  BY <1>11, <1>12, <1>13, <1>14 DEF Next

\* The emitter is a faithful ledger as long as a failing export delivers
\* nothing: drops are loud, counted once and reported at most once.
THEOREM ImplementsLedger ==
    ASSUME ~ PartialDelivery
    PROVE  Spec => LedgerSpec
<1>1. Init => Ledger!Init
  BY DEF Init, Ledger!Init, NoDrops, HeldEvents, HeldDrops
<1>2. TypeOK /\ Accounting /\ DropsCountedOnce /\ [Next]_vars => [Ledger!Next]_(Ledger!ledger)
  BY LedgerStep
<1>3. Spec => [](TypeOK /\ Accounting /\ DropsCountedOnce)
  <2>1. Init => DropsCountedOnce
    BY DEF Init, DropsCountedOnce, NoDrops
  <2>2. TypeOK /\ Accounting /\ DropsCountedOnce /\ [Next]_vars
           => (TypeOK /\ Accounting /\ DropsCountedOnce)'
    BY AccountingStep, TypeStep, CountedOnceStep
  <2> QED
    BY <2>1, <2>2, AccountingInit, TypeInit, PTL DEF Spec
<1> QED
  BY <1>1, <1>2, <1>3, PTL DEF Spec, LedgerSpec, Ledger!Spec

-----------------------------------------------------------------------------
(* Close: what a Close that has returned guarantees *)

\* Nothing of S is older than Close.
Newer(S) == \A id \in S : id > atClose

\* A flusher on a failure path has noted the error.
FailuresNoted == \A f \in Flushers : fpc[f] \in {"credit", "recredit"} => flushErr[f]

\* Who still runs while Close does.
Stages ==
    /\ closing # "open" => atClose <= calls
    /\ closing \in {"flush1", "flush2", "closed"} => fpc[Loop] = "exited" /\ Newer(events)
    /\ closing \in {"wait", "flush1", "flush2"} /\ ~ overlapped =>
           \A f \in FlushCallers : fpc[f] = "idle"
    /\ closing = "closed" => fpc[Closer] = "idle"

\* While no flush of Close has failed, no lost event from before it is left uncounted.
Undamaged ==
    /\ closing \in {"flush1", "flush2"} /\ ~ overlapped /\ ~ closeErr /\ ~ flushErr[Closer] =>
           Newer(dropCounts["export"])
    /\ closing = "closed" /\ ~ overlapped /\ ~ closeErr =>
           /\ Newer(dropCounts["export"])
           /\ \A f \in Flushers : Newer(evBatch[f]) /\ Newer(dpBatch[f]["export"])

\* Until its metrics go out, the second flush has every drop from before Close.
SecondFlush ==
    closing = "flush2" /\ ~ overlapped /\ fpc[Closer] \in {"events", "credit", "metrics"} =>
        /\ Newer(evBatch[Closer])
        /\ \A r \in Reasons : Newer(dropCounts[r])

CInv == FailuresNoted /\ Stages /\ Undamaged /\ SecondFlush
-----------------------------------------------------------------------------
\* A call made now is newer than Close.
LEMMA NewCallNewer ==
    ASSUME TypeOK, Stages, NEW c \in Callers, StartCall(c), closing # "open"
    PROVE  calls' > atClose
  BY EmitterAssumption DEF TypeOK, Stages, StartCall

LEMMA CallsLater ==
    ASSUME TypeOK, NEW c \in Callers, StartCall(c)
    PROVE  atClose <= calls => atClose <= calls'
  BY EmitterAssumption DEF TypeOK, StartCall

LEMMA CountDropKeeps ==
    ASSUME TypeOK, CInv, NEW c \in Callers, NEW r \in Reasons, StartCall(c), CountDrop(r)
    PROVE  CInv'
<1> USE ReasonNames DEF CInv, CountDrop, flushing, closeVars, batches, backend, Newer
<1>1. dropCounts' = [dropCounts EXCEPT ![r] = @ \cup {calls'}]
  BY DEF Counted
<1>2. FailuresNoted'
  BY DEF FailuresNoted
<1>3. Stages'
  BY CallsLater DEF Stages
<1>4. \A s \in Reasons : closing # "open" /\ Newer(dropCounts[s]) => Newer(dropCounts[s])'
  BY <1>1, NewCallNewer DEF TypeOK
<1>5. Undamaged'
  BY <1>4 DEF Undamaged
<1>6. SecondFlush'
  BY <1>4 DEF SecondFlush
<1> QED
  BY <1>2, <1>3, <1>5, <1>6

\* The calls that are not dropped: only the buffer of events may grow.
LEMMA CallKeeps ==
    ASSUME TypeOK, CInv, NEW c \in Callers,
           \/ \E key \in Keys : RecordDuplicate(c, key)
           \/ \E key \in Keys, estimated \in BOOLEAN : RecordAdmit(c, key, estimated)
           \/ SetInFlight(c) \/ (\E pair \in Pairs : RecordProviderCall(c, pair))
           \/ AppendMetrics(c)
    PROVE  CInv'
<1> USE DEF CInv
<1>1. /\ UNCHANGED <<dropCounts, flushing>>
      /\ \/ StartCall(c) /\ events' \in {events, events \cup {calls'}}
         \/ UNCHANGED <<calls, events>>
  BY DEF RecordDuplicate, RecordAdmit, SetInFlight, RecordProviderCall, AppendMetrics, buffers
<1> USE DEF flushing, closeVars, batches, backend
<1>2. FailuresNoted'
  BY <1>1 DEF FailuresNoted
<1>3. atClose <= calls => atClose <= calls'
  BY <1>1, CallsLater
<1>4. closing # "open" /\ Newer(events) => Newer(events)'
  BY <1>1, NewCallNewer DEF Newer
<1>5. Stages'
  BY <1>1, <1>3, <1>4 DEF Stages
<1>6. Undamaged' /\ SecondFlush'
  BY <1>1 DEF Undamaged, SecondFlush, Newer
<1> QED
  BY <1>2, <1>5, <1>6

\* While Close runs undisturbed, only Close flushes.
LEMMA OnlyCloserFlushes ==
    ASSUME CInv, NEW f \in Flushers, FlushStep(f), ~ overlapped, closing \in {"flush1", "flush2"}
    PROVE  f = Closer
<1>1. fpc[f] \notin {"idle", "exited"}
  BY DEF FlushStep, ExportEventsOk, ExportEventsFail, CreditExportDrop, ExportMetricsOk,
     ExportMetricsFail, RecreditDropCounts
<1> QED
  BY <1>1 DEF CInv, Stages, Flushers

LEMMA FlushStepStages ==
    ASSUME TypeOK, CInv, NEW f \in Flushers, FlushStep(f)
    PROVE  FailuresNoted' /\ Stages'
<1> USE DEF CInv, TypeOK
<1>1. fpc[f] \notin {"idle", "exited"} /\ (\A g \in Flushers \ {f} : fpc'[g] = fpc[g])
      /\ fpc' \in [Flushers -> {"idle", "events", "credit", "metrics", "recredit", "return", "exited"}]
  BY DEF FlushStep, ExportEventsOk, ExportEventsFail, CreditExportDrop, ExportMetricsOk,
     ExportMetricsFail, RecreditDropCounts
<1>2. UNCHANGED <<events, calls, closeVars>>
  BY DEF FlushStep, ExportEventsOk, ExportEventsFail, CreditExportDrop, ExportMetricsOk,
     ExportMetricsFail, RecreditDropCounts, buffers
<1>3. FailuresNoted'
  BY DEF FailuresNoted, FlushStep, ExportEventsOk, ExportEventsFail, CreditExportDrop,
     ExportMetricsOk, ExportMetricsFail, RecreditDropCounts
<1>4. Stages'
  BY <1>1, <1>2 DEF Stages, Newer, closeVars, Flushers
<1> QED
  BY <1>3, <1>4

LEMMA FlushStepUndamaged ==
    ASSUME TypeOK, CInv, NEW f \in Flushers, FlushStep(f)
    PROVE  Undamaged'
<1> USE ReasonNames DEF CInv, TypeOK, Newer, buffers, closeVars
<1>1. UNCHANGED <<closing, closeErr, atClose, overlapped>>
  BY DEF FlushStep, ExportEventsOk, ExportEventsFail, CreditExportDrop, ExportMetricsOk,
     ExportMetricsFail, RecreditDropCounts
<1>2. \A g \in Flushers : /\ flushErr[g] => flushErr'[g]
                          /\ fpc[g] \in {"credit", "recredit"} => flushErr[g]
  BY DEF FailuresNoted, FlushStep, ExportEventsOk, ExportEventsFail, CreditExportDrop,
     ExportMetricsOk, ExportMetricsFail, RecreditDropCounts, batches
<1>3. ASSUME closing \in {"flush1", "flush2"}, ~ overlapped, ~ closeErr, ~ flushErr'[Closer]
      PROVE  Newer(dropCounts["export"])'
  <2>1. f = Closer /\ Closer \in Flushers
    BY <1>3, OnlyCloserFlushes DEF Flushers
  <2>2. ~ flushErr[Closer] /\ fpc[Closer] \notin {"credit", "recredit"}
    BY <1>2, <1>3, <2>1
  <2>3. UNCHANGED dropCounts
    BY <2>1, <2>2 DEF FlushStep, ExportEventsOk, ExportEventsFail, CreditExportDrop,
       ExportMetricsOk, ExportMetricsFail, RecreditDropCounts
  <2> QED
    BY <1>1, <1>3, <2>2, <2>3 DEF Undamaged
<1>4. ASSUME closing = "closed", ~ overlapped, ~ closeErr
      PROVE  (/\ Newer(dropCounts["export"])
              /\ \A g \in Flushers : Newer(evBatch[g]) /\ Newer(dpBatch[g]["export"]))'
  <2>1. /\ Newer(dropCounts["export"])
        /\ \A g \in Flushers : Newer(evBatch[g]) /\ Newer(dpBatch[g]["export"])
    BY <1>4 DEF Undamaged
  <2>2. dropCounts'["export"] \subseteq
            dropCounts["export"] \cup evBatch[f] \cup dpBatch[f]["export"]
    BY DEF FlushStep, ExportEventsOk, ExportEventsFail, CreditExportDrop, ExportMetricsOk,
       ExportMetricsFail, RecreditDropCounts, Counted, Recredited, batches
  <2>3. \A g \in Flushers : evBatch'[g] \subseteq evBatch[g]
                            /\ dpBatch'[g]["export"] \subseteq dpBatch[g]["export"]
    BY DEF FlushStep, ExportEventsOk, ExportEventsFail, CreditExportDrop, ExportMetricsOk,
       ExportMetricsFail, RecreditDropCounts, NoDrops, batches
  <2> QED
    BY <1>1, <2>1, <2>2, <2>3
<1> QED
  BY <1>1, <1>3, <1>4 DEF Undamaged

LEMMA FlushStepSecond ==
    ASSUME TypeOK, CInv, NEW f \in Flushers, FlushStep(f)
    PROVE  SecondFlush'
<1> USE ReasonNames DEF CInv, TypeOK, Newer
<1>1. UNCHANGED <<closing, closeErr, atClose, overlapped>>
  BY DEF FlushStep, ExportEventsOk, ExportEventsFail, CreditExportDrop, ExportMetricsOk,
     ExportMetricsFail, RecreditDropCounts, closeVars
<1> SUFFICES ASSUME closing = "flush2", ~ overlapped,
                    fpc'[Closer] \in {"events", "credit", "metrics"}
             PROVE  (/\ Newer(evBatch[Closer]) /\ \A r \in Reasons : Newer(dropCounts[r]))'
  BY <1>1 DEF SecondFlush
<1>2. f = Closer /\ Closer \in Flushers
  BY OnlyCloserFlushes DEF Flushers
<1>3. fpc[Closer] \in {"events", "credit"}
  BY <1>2 DEF FlushStep, ExportEventsOk, ExportEventsFail, CreditExportDrop, ExportMetricsOk,
     ExportMetricsFail, RecreditDropCounts
<1>4. /\ Newer(evBatch[Closer]) /\ \A r \in Reasons : Newer(dropCounts[r])
  BY <1>3 DEF SecondFlush
<1>5. evBatch'[Closer] \subseteq evBatch[Closer]
      /\ \A r \in Reasons : dropCounts'[r] \subseteq dropCounts[r] \cup evBatch[Closer]
  BY <1>2, <1>3 DEF FlushStep, ExportEventsOk, ExportEventsFail, CreditExportDrop, ExportMetricsOk,
     ExportMetricsFail, RecreditDropCounts, Counted, buffers, batches
<1> QED
  BY <1>1, <1>4, <1>5
-----------------------------------------------------------------------------
(* The callers of Flush, the loop and Close *)

LEMMA FlushersDiffer ==
    /\ Closer \in Flushers /\ Loop \in Flushers /\ Closer # Loop
    /\ \A f \in FlushCallers : f \in Flushers /\ f # Closer /\ f # Loop
  BY EmitterAssumption DEF Flushers

LEMMA CallFlushKeeps ==
    ASSUME TypeOK, CInv, NEW f \in Flushers, CallFlush(f)
    PROVE  CInv'
<1> USE FlushersDiffer, ReasonNames DEF CInv, TypeOK, CallFlush, Swap, TakeBuffers, Newer, NoDrops
<1>1. FailuresNoted'
  BY DEF FailuresNoted
<1>2. Stages'
  BY DEF Stages
<1>3. Undamaged'
  BY DEF Undamaged, Stages
<1>4. SecondFlush'
  BY DEF SecondFlush
<1> QED
  BY <1>1, <1>2, <1>3, <1>4

LEMMA ReturnKeeps ==
    ASSUME TypeOK, CInv, NEW f \in Flushers, Return(f)
    PROVE  CInv'
<1> USE FlushersDiffer, ReasonNames
    DEF CInv, TypeOK, Return, Newer, buffers, batches, closeVars, backend, history
<1>1. FailuresNoted'
  BY DEF FailuresNoted
<1>2. Stages'
  BY DEF Stages
<1>3. Undamaged'
  BY DEF Undamaged
<1>4. SecondFlush'
  BY DEF SecondFlush
<1> QED
  BY <1>1, <1>2, <1>3, <1>4

LEMMA LoopKeeps ==
    ASSUME TypeOK, CInv, LoopTick \/ LoopExit
    PROVE  CInv'
<1> USE FlushersDiffer, ReasonNames DEF CInv, TypeOK, Newer, closeVars
<1>1. fpc[Loop] = "idle" /\ closing \notin {"flush1", "flush2", "closed"}
      /\ UNCHANGED <<calls, closing, closeErr, atClose, overlapped>>
  BY DEF LoopTick, LoopExit, Swap, Stages
<1>2. FailuresNoted'
  BY DEF FailuresNoted, LoopTick, LoopExit, Swap
<1>3. Stages'
  BY <1>1 DEF Stages, LoopTick, LoopExit, Swap
<1>4. Undamaged' /\ SecondFlush'
  BY <1>1 DEF Undamaged, SecondFlush
<1> QED
  BY <1>2, <1>3, <1>4

LEMMA CloseStepKeeps ==
    ASSUME TypeOK, Accounting, CInv, CloseStep
    PROVE  CInv'
<1> USE FlushersDiffer, ReasonNames DEF CInv, TypeOK, Newer
<1>1. CASE CloseBegin
  <2> USE <1>1 DEF CloseBegin, buffers, batches, backend, history
  <2>1. FailuresNoted'
    BY DEF FailuresNoted
  <2>2. Stages'
    BY DEF Stages
  <2>3. Undamaged' /\ SecondFlush'
    BY DEF Undamaged, SecondFlush
  <2> QED
    BY <2>1, <2>2, <2>3
<1>2. CASE CloseFlush
  <2> USE <1>2 DEF CloseFlush, LoopDone, Swap, TakeBuffers, NoDrops
  <2>1. FailuresNoted'
    BY DEF FailuresNoted
  <2>2. Stages'
    BY DEF Stages
  <2>3. Undamaged' /\ SecondFlush'
    BY DEF Undamaged, SecondFlush
  <2> QED
    BY <2>1, <2>2, <2>3
<1>3. CASE CloseFlushAgain
  <2> USE <1>3 DEF CloseFlushAgain, Swap, TakeBuffers, NoDrops
  <2>1. FailuresNoted'
    BY DEF FailuresNoted
  <2>2. Stages'
    BY DEF Stages
  <2>3. Undamaged' /\ SecondFlush'
    BY DEF Undamaged, SecondFlush, Stages
  <2> QED
    BY <2>1, <2>2, <2>3
<1>4. CASE CloseShutdown
  <2> USE <1>4 DEF CloseShutdown, Joined, buffers, batches, backend, history
  <2>1. FailuresNoted'
    BY DEF FailuresNoted
  <2>2. Stages'
    BY DEF Stages
  <2>3. ASSUME ~ overlapped, ~ closeErr'
        PROVE  /\ Newer(dropCounts["export"])
               /\ \A f \in Flushers : evBatch[f] = {} /\ dpBatch[f]["export"] = {}
    <3>1. \A f \in Flushers : fpc[f] \in {"idle", "return", "exited"}
      BY <2>3 DEF Stages, Flushers
    <3>2. ~ closeErr /\ ~ flushErr[Closer]
      BY <2>3
    <3> QED
      BY <2>3, <3>1, <3>2 DEF Undamaged, Accounting, Phases
  <2>4. Undamaged' /\ SecondFlush'
    BY <2>3 DEF Undamaged, SecondFlush
  <2> QED
    BY <2>1, <2>2, <2>4
<1> QED
  BY <1>1, <1>2, <1>3, <1>4 DEF CloseStep
-----------------------------------------------------------------------------
LEMMA CInvInit == Init => CInv
  BY DEF Init, CInv, FailuresNoted, Stages, Undamaged, SecondFlush

LEMMA CInvStep == TypeOK /\ Accounting /\ CInv /\ [Next]_vars => CInv'
<1> SUFFICES ASSUME TypeOK, Accounting, CInv, [Next]_vars PROVE CInv'
  OBVIOUS
<1>1. CASE UNCHANGED vars
  BY <1>1 DEF vars, CInv, FailuresNoted, Stages, Undamaged, SecondFlush, Newer, buffers, flushing,
     batches, closeVars
<1>2. ASSUME NEW c \in Callers, CallerStep(c) PROVE CInv'
  <2>1. ASSUME NEW r \in Reasons, StartCall(c), CountDrop(r) PROVE CInv'
    BY <2>1, CountDropKeeps
  <2>2. CASE Reject(c) \/ \E key \in Keys : RecordOverflow(c, key)
    BY <2>1, <2>2, ReasonNames DEF Reject, RecordOverflow
  <2> QED
    BY <1>2, <2>2, CallKeeps DEF CallerStep
<1>3. ASSUME NEW f \in Flushers, FlusherStep(f) PROVE CInv'
  <2>1. CASE FlushStep(f)
    BY <2>1, FlushStepStages, FlushStepUndamaged, FlushStepSecond DEF CInv
  <2> QED
    BY <1>3, <2>1, CallFlushKeeps, ReturnKeeps DEF FlusherStep
<1> QED
  BY <1>1, <1>2, <1>3, LoopKeeps, CloseStepKeeps DEF Next

LEMMA CInvAlways == Spec => []CInv
  BY TypeCorrect, BooksBalance, CInvInit, CInvStep, PTL DEF Spec

LEMMA CInvDelivers == TypeOK /\ Accounting /\ CInv => CloseDelivers
<1> SUFFICES ASSUME TypeOK, Accounting, CInv, closing = "closed",
                    NEW id \in admitted, id \in 1 .. atClose
             PROVE  /\ \/ id \in delivered \cup dropped["export"]
                       \/ \E f \in FlushCallers : id \in evBatch[f]
                    /\ ~ closeErr /\ ~ overlapped => id \in delivered \cup reported["export"]
  BY DEF CloseDelivers
<1> USE FlushersDiffer, ReasonNames DEF CInv
<1>1. id \in CallIds /\ ~ (id > atClose)
  BY DEF TypeOK
<1>2. id \notin events /\ id \notin evBatch[Loop] /\ id \notin evBatch[Closer]
  BY <1>1 DEF Stages, Newer, Accounting, Phases
<1>3. id \in delivered \cup dropped["export"] \/ \E f \in Flushers : id \in evBatch[f]
  BY <1>2 DEF Accounting, EventsAccounted, HeldEvents
<1>4. id \in delivered \cup dropped["export"] \/ \E f \in FlushCallers : id \in evBatch[f]
  BY <1>2, <1>3 DEF Flushers
<1>5. ASSUME ~ closeErr, ~ overlapped PROVE id \in delivered \cup reported["export"]
  <2>1. /\ id \notin dropCounts["export"]
        /\ \A f \in Flushers : id \notin evBatch[f] /\ id \notin dpBatch[f]["export"]
    BY <1>1, <1>5 DEF Undamaged, Newer
  <2>2. id \in dropped["export"] => id \in reported["export"]
    BY <2>1 DEF Accounting, DropsNeverForgotten, HeldDrops
  <2> QED
    BY <1>3, <2>1, <2>2
<1> QED
  BY <1>4, <1>5

\* A Close that has returned left nothing recorded before it in the buffer or
\* with the loop, and one that returned nil lost nothing of it, for any flushers,
\* failures and calls that overlap it (Std.Close).
THEOREM NothingLeftBehind == Spec => []CloseDelivers
  BY TypeCorrect, BooksBalance, CInvAlways, CInvDelivers, PTL

LEMMA CInvReports ==
    ASSUME TypeOK, Accounting, CInv, [Next]_vars, closing = "flush2", ~ overlapped,
           fpc[Closer] = "metrics", fpc'[Closer] = "return", NEW r \in Reasons
    PROVE  dropped[r] \cap 1 .. atClose \subseteq reported'[r]
<1> USE FlushersDiffer DEF CInv
<1>1. ExportMetricsOk(Closer)
  <2>1. fpc' # fpc
    BY DEF TypeOK
  <2>2. ASSUME NEW c \in Callers, CallerStep(c) PROVE FALSE
    BY <2>1, <2>2 DEF CallerStep, Reject, RecordOverflow, RecordDuplicate, RecordAdmit, SetInFlight,
       RecordProviderCall, AppendMetrics, CountDrop, flushing
  <2>3. ASSUME NEW f \in Flushers, FlusherStep(f) PROVE f = Closer /\ ExportMetricsOk(f)
    BY <2>3 DEF FlusherStep, FlushStep, ExportEventsOk, ExportEventsFail, CreditExportDrop,
       ExportMetricsOk, ExportMetricsFail, RecreditDropCounts, CallFlush, Return, Swap, TypeOK
  <2>4. ~ (LoopTick \/ LoopExit \/ CloseStep)
    BY DEF LoopTick, LoopExit, CloseStep, CloseBegin, CloseFlush, CloseFlushAgain, CloseShutdown,
       Swap, TypeOK
  <2>5. ~ UNCHANGED vars
    BY <2>1 DEF vars, flushing
  <2> QED
    BY <2>2, <2>3, <2>4, <2>5 DEF Next
<1>2. SUFFICES ASSUME NEW id \in dropped[r], id \in 1 .. atClose PROVE id \in reported'[r]
  OBVIOUS
<1>3. id \in CallIds /\ ~ (id > atClose)
  BY <1>2 DEF TypeOK
<1>4. id \notin dropCounts[r]
  BY <1>3 DEF SecondFlush, Newer
<1>5. \A f \in Flushers \ {Closer} : id \notin dpBatch[f][r]
  BY DEF Stages, Flushers, Accounting, Phases
<1>6. id \in reported[r] \/ id \in dpBatch[Closer][r]
  BY <1>2, <1>4, <1>5 DEF Accounting, DropsNeverForgotten, HeldDrops
<1> QED
  BY <1>1, <1>6 DEF ExportMetricsOk

\* When the backend takes the metrics of Close's second flush it learns every drop
\* from before Close, those of the first flush included (Std.Close).
THEOREM DamageReported == Spec => CloseReportsDamage
<1>1. TypeOK /\ Accounting /\ CInv /\ [Next]_vars =>
          [closing = "flush2" /\ ~ overlapped /\ fpc[Closer] = "metrics" /\ fpc'[Closer] = "return"
           => \A r \in Reasons : dropped[r] \cap 1 .. atClose \subseteq reported'[r]]_vars
  BY CInvReports
<1> QED
  BY <1>1, TypeCorrect, BooksBalance, CInvAlways, PTL DEF Spec, CloseReportsDamage

-----------------------------------------------------------------------------
(* The metric points and the bounded memories *)


\* Where a flusher holds no metric points.
Quiet == {"idle", "return", "exited", "recredit"}

\* A point is in one place: live, held by a flusher, or in the hands of the call
\* that will append it.
Places ==
    /\ PointOfferedOnce
    /\ \A f \in Flushers : fpc[f] \in Quiet => mtBatch[f] = {}
    /\ \A c \in Callers : \A p \in Ranges(pending[c]) :
          /\ p \notin metrics \cup shipped \cup lostPoints \cup metricOverflow
          /\ \A f \in Flushers : p \notin mtBatch[f]
          /\ \A d \in Callers \ {c} : p \notin Ranges(pending[d])

\* What a point says is so: its call was made, and admitted if it counts an
\* outcome; its provider series was admitted unless it is the fallback.
Names ==
    /\ \A c \in Callers : Len(pending[c]) <= 2
    /\ \A p \in AllPoints :
          /\ p.id <= calls
          /\ p.family = "txn" => p.id \in admitted
          /\ p.family = "provider_calls" => p.series \in providerPairs \cup {Other}
    /\ \A id \in admitted : \E p \in AllPoints : p.family = "txn" /\ p.id = id

\* The keys remembered are emitted ones: all of them, or a full generation and
\* at least one more.
Memory ==
    /\ IsFiniteSet(dedup.cur) /\ Cardinality(dedup.cur) <= DedupCap
    /\ IsFiniteSet(dedup.prev) /\ Cardinality(dedup.prev) <= DedupCap
    /\ dedup.cur \cup dedup.prev \subseteq emitted
    /\ \/ dedup.prev = {} /\ dedup.cur = emitted
       \/ /\ Cardinality(dedup.prev) = DedupCap
          /\ dedup.cur # {} /\ dedup.cur \cap dedup.prev = {}

Rooms ==
    /\ IsFiniteSet(events) /\ Cardinality(events) <= BufSize
    /\ IsFiniteSet(metrics) /\ Cardinality(metrics) <= MetricsCap
    /\ IsFiniteSet(providerPairs) /\ Cardinality(providerPairs) <= PairCap

PInv == Places /\ Names /\ Memory /\ Rooms
-----------------------------------------------------------------------------
(* Kinds of steps *)

\* A call is made that has points to append.
Makes(c, points) ==
    /\ calls' = calls + 1 /\ calls' \in CallIds /\ pending[c] = <<>>
    /\ points \in Seq(Points) /\ Len(points) <= 2
    /\ \A i \in DOMAIN points : points[i].id = calls'
    /\ pending' = [pending EXCEPT ![c] = points]
    /\ UNCHANGED <<metrics, metricOverflow, mtBatch, shipped, lostPoints, fpc>>

\* Nothing happens to points, keys and pairs.
Still ==
    /\ UNCHANGED <<events, metrics, metricOverflow, dedup, providerPairs, pending, mtBatch,
                   shipped, lostPoints, admitted, emitted>>
    /\ calls' \in {calls, calls + 1}
    /\ \A f \in Flushers : fpc'[f] \in Quiet => fpc[f] \in Quiet

Swaps(f) == fpc[f] \in {"idle", "return"} /\ Swap(f)

LEMMA StepKinds ==
    ASSUME TypeOK, Accounting, [Next]_vars
    PROVE  \/ Still
           \/ \E c \in Callers :
                 \/ AppendMetrics(c) \/ SetInFlight(c)
                 \/ \E key \in Keys, estimated \in BOOLEAN : RecordAdmit(c, key, estimated)
                 \/ \E pair \in Pairs : RecordProviderCall(c, pair)
           \/ \E f \in Flushers : Swaps(f) \/ ExportMetricsOk(f) \/ ExportMetricsFail(f)
<1>1. CASE UNCHANGED vars
  BY <1>1 DEF vars, Still, buffers, flushing, batches, closeVars, backend, history
<1>2. ASSUME NEW c \in Callers, Reject(c) \/ \E key \in Keys : RecordOverflow(c, key) \/ RecordDuplicate(c, key)
      PROVE  Still
  BY <1>2 DEF Still, Reject, RecordOverflow, RecordDuplicate, StartCall, CountDrop, buffers,
     flushing, batches, closeVars, backend, history
<1>3. ASSUME NEW f \in Flushers,
             ExportEventsOk(f) \/ ExportEventsFail(f) \/ CreditExportDrop(f) \/ RecreditDropCounts(f)
             \/ Return(f)
      PROVE  Still
  <2>1. fpc \in [Flushers -> {"idle", "events", "credit", "metrics", "recredit", "return", "exited"}]
    BY DEF TypeOK
  <2> QED
    BY <1>3, <2>1 DEF Still, Quiet, ExportEventsOk, ExportEventsFail, CreditExportDrop,
       RecreditDropCounts, Return, buffers, batches, closeVars, backend, history
<1>4. CASE LoopExit \/ CloseBegin \/ CloseShutdown
  <2>1. fpc \in [Flushers -> {"idle", "events", "credit", "metrics", "recredit", "return", "exited"}]
    BY DEF TypeOK
  <2> QED
    BY <1>4, <2>1 DEF Still, Quiet, LoopExit, CloseBegin, CloseShutdown, buffers, batches,
       closeVars, backend, history
<1>5. ASSUME NEW f \in Flushers, CallFlush(f) PROVE Swaps(f)
  BY <1>5 DEF CallFlush, Swaps
<1>6. CASE LoopTick
  BY <1>6 DEF LoopTick, Swaps, Flushers
<1>7. CASE CloseFlush \/ CloseFlushAgain
  BY <1>7 DEF CloseFlush, CloseFlushAgain, Swaps, Flushers, Accounting, Phases
<1> QED
  BY <1>1, <1>2, <1>3, <1>4, <1>5, <1>6, <1>7
     DEF Next, CallerStep, FlusherStep, FlushStep, CloseStep
-----------------------------------------------------------------------------
(* The memory of keys *)

LEMMA RememberKeeps ==
    ASSUME Memory, NEW key, ~ Remembered(dedup, key),
           dedup' = Remember(dedup, key), emitted' = emitted \cup {key}
    PROVE  Memory'
<1> USE DEF Memory
<1>1. DedupCap \in Nat \ {0} /\ Cardinality(dedup.cur) \in Nat
  BY DedupCapAssumption, FS_CardinalityType
<1>2. CASE Cardinality(dedup.cur) >= DedupCap
  <2>1. dedup'.cur = {key} /\ dedup'.prev = dedup.cur
    BY <1>2 DEF Remember
  <2>2. IsFiniteSet({key}) /\ Cardinality({key}) = 1
    BY FS_Singleton
  <2>3. Cardinality(dedup.cur) = DedupCap
    BY <1>1, <1>2
  <2>4. {key} \cap dedup.cur = {}
    BY DEF Remembered
  <2> QED
    BY <1>1, <2>1, <2>2, <2>3, <2>4
<1>3. CASE ~ (Cardinality(dedup.cur) >= DedupCap)
  <2>1. dedup'.cur = dedup.cur \cup {key} /\ dedup'.prev = dedup.prev
    BY <1>3 DEF Remember
  <2>2. /\ IsFiniteSet(dedup.cur \cup {key})
        /\ Cardinality(dedup.cur \cup {key}) =
               IF key \in dedup.cur THEN Cardinality(dedup.cur) ELSE Cardinality(dedup.cur) + 1
    BY FS_AddElement
  <2>3. Cardinality(dedup.cur \cup {key}) <= DedupCap
    BY <1>1, <1>3, <2>2
  <2>4. key \notin dedup.prev
    BY DEF Remembered
  <2> QED
    BY <2>1, <2>2, <2>3, <2>4
<1> QED
  BY <1>2, <1>3

LEMMA MemoryStep == ASSUME TypeOK, Accounting, Memory, [Next]_vars PROVE Memory'
<1>1. ASSUME NEW c \in Callers, NEW key \in Keys, NEW estimated \in BOOLEAN,
             RecordAdmit(c, key, estimated)
      PROVE  Memory'
  BY <1>1, RememberKeeps DEF RecordAdmit
<1>2. CASE UNCHANGED <<dedup, emitted>>
  BY <1>2 DEF Memory
<1>3. ASSUME NEW c \in Callers,
             AppendMetrics(c) \/ SetInFlight(c) \/ \E pair \in Pairs : RecordProviderCall(c, pair)
      PROVE  UNCHANGED <<dedup, emitted>>
  BY <1>3 DEF AppendMetrics, SetInFlight, RecordProviderCall, buffers, history
<1>4. ASSUME NEW f \in Flushers, Swaps(f) \/ ExportMetricsOk(f) \/ ExportMetricsFail(f)
      PROVE  UNCHANGED <<dedup, emitted>>
  BY <1>4 DEF Swaps, Swap, ExportMetricsOk, ExportMetricsFail, buffers, history
<1> QED
  BY <1>1, <1>2, <1>3, <1>4, StepKinds DEF Still
-----------------------------------------------------------------------------
(* The bounds *)

LEMMA FittingBounded ==
    ASSUME NEW points \in Seq(Points), Len(points) <= 2,
           IsFiniteSet(metrics), Cardinality(metrics) <= MetricsCap
    PROVE  /\ IsFiniteSet(metrics \cup Fitting(points))
           /\ Cardinality(metrics \cup Fitting(points)) <= MetricsCap
<1> DEFINE n == Cardinality(metrics)
<1>1. n \in Nat /\ MetricsCap \in Nat
  BY FS_CardinalityType, EmitterAssumption DEF MetricsCap
<1>2. Len(points) \in Nat /\ DOMAIN points = 1 .. Len(points)
  OBVIOUS
<1> HIDE DEF n
<1>3. CASE Len(points) = 0 \/ n + 1 > MetricsCap
  <2>1. Fitting(points) = {}
    BY <1>1, <1>2, <1>3 DEF Fitting, n
  <2> QED
    BY <2>1
<1>4. CASE ~ (Len(points) = 0 \/ n + 1 > MetricsCap) /\ (Len(points) = 1 \/ n + 2 > MetricsCap)
  <2>1. {j \in DOMAIN points : n + j <= MetricsCap} = {1}
    BY <1>1, <1>2, <1>4
  <2>2. Fitting(points) = {points[1]}
    BY <2>1 DEF Fitting, n
  <2>3. IsFiniteSet(metrics \cup {points[1]}) /\ Cardinality(metrics \cup {points[1]}) \in {n, n + 1}
    BY FS_AddElement DEF n
  <2> QED
    BY <2>2, <2>3, <1>1, <1>4
<1>5. CASE Len(points) = 2 /\ n + 2 <= MetricsCap
  <2>1. {j \in DOMAIN points : n + j <= MetricsCap} = {1, 2}
    BY <1>1, <1>2, <1>5
  <2>2. Fitting(points) = {points[1], points[2]}
    BY <2>1 DEF Fitting, n
  <2> DEFINE one == metrics \cup {points[1]}
  <2>3. IsFiniteSet(one) /\ Cardinality(one) \in {n, n + 1}
    BY FS_AddElement DEF n
  <2>4. IsFiniteSet(one \cup {points[2]})
        /\ Cardinality(one \cup {points[2]}) \in {Cardinality(one), Cardinality(one) + 1}
    BY <2>3, FS_AddElement
  <2>5. metrics \cup Fitting(points) = one \cup {points[2]}
    BY <2>2
  <2> HIDE DEF one
  <2>6. Cardinality(one \cup {points[2]}) <= MetricsCap
    BY <2>3, <2>4, <1>1, <1>5
  <2> QED
    BY <2>4, <2>5, <2>6
<1> QED
  BY <1>1, <1>2, <1>3, <1>4, <1>5

LEMMA PairsBounded ==
    ASSUME TypeOK, Rooms, NEW pair \in Pairs
    PROVE  /\ IsFiniteSet(PairsAfter(pair)) /\ Cardinality(PairsAfter(pair)) <= PairCap
           /\ PairSeries(pair) \in PairsAfter(pair) \cup {Other}
           /\ providerPairs \subseteq PairsAfter(pair)
<1>1. Cardinality(providerPairs) \in Nat /\ PairCap \in Nat /\ IsFiniteSet(providerPairs)
  BY FS_CardinalityType, EmitterAssumption DEF Rooms
<1>2. CASE PairSeries(pair) = Other
  <2>1. PairsAfter(pair) = providerPairs
    BY <1>2 DEF PairsAfter
  <2> QED
    BY <2>1, <1>2 DEF Rooms
<1>3. CASE PairSeries(pair) # Other
  <2>1. PairSeries(pair) = pair /\ PairsAfter(pair) = providerPairs \cup {pair}
    BY <1>3 DEF PairSeries, PairsAfter
  <2>2. /\ IsFiniteSet(providerPairs \cup {pair})
        /\ Cardinality(providerPairs \cup {pair}) =
               IF pair \in providerPairs THEN Cardinality(providerPairs) ELSE Cardinality(providerPairs) + 1
    BY <1>1, FS_AddElement
  <2>3. pair \in providerPairs \/ Cardinality(providerPairs) < PairCap
    BY <1>3 DEF PairSeries
  <2>4. Cardinality(providerPairs) <= PairCap
    BY DEF Rooms
  <2> QED
    BY <1>1, <2>1, <2>2, <2>3, <2>4
<1> QED
  BY <1>2, <1>3

LEMMA RoomsStep ==
    ASSUME TypeOK, Accounting, Names, Rooms, [Next]_vars
    PROVE  Rooms'
<1>1. ASSUME NEW c \in Callers, NEW key \in Keys, NEW estimated \in BOOLEAN,
             RecordAdmit(c, key, estimated)
      PROVE  Rooms'
  <2>1. IsFiniteSet(events) /\ Cardinality(events) \in Nat /\ Cardinality(events) < BufSize
    BY <1>1, FS_CardinalityType DEF Rooms, RecordAdmit
  <2>2. /\ IsFiniteSet(events \cup {calls'})
        /\ Cardinality(events \cup {calls'}) \in {Cardinality(events), Cardinality(events) + 1}
    BY <2>1, FS_AddElement
  <2>3. Cardinality(events \cup {calls'}) <= BufSize
    BY <2>1, <2>2, EmitterAssumption
  <2> QED
    BY <1>1, <2>2, <2>3 DEF Rooms, RecordAdmit
<1>2. ASSUME NEW c \in Callers, NEW pair \in Pairs, RecordProviderCall(c, pair) PROVE Rooms'
  BY <1>2, PairsBounded DEF Rooms, RecordProviderCall
<1>3. ASSUME NEW c \in Callers, AppendMetrics(c) PROVE Rooms'
  <2>1. pending[c] \in Seq(Points) /\ Len(pending[c]) <= 2
    BY DEF TypeOK, Names
  <2>2. IsFiniteSet(metrics') /\ Cardinality(metrics') <= MetricsCap
    BY <1>3, <2>1, FittingBounded DEF Rooms, AppendMetrics
  <2> QED
    BY <1>3, <2>2 DEF Rooms, AppendMetrics
<1>4. ASSUME NEW f \in Flushers, Swaps(f) PROVE Rooms'
  <2>1. 0 <= BufSize /\ 0 <= MetricsCap
    BY EmitterAssumption DEF MetricsCap
  <2> QED
    BY <1>4, <2>1, FS_EmptySet DEF Rooms, Swaps, Swap, TakeBuffers
<1>5. ASSUME NEW f \in Flushers, ExportMetricsOk(f) \/ ExportMetricsFail(f) PROVE Rooms'
  BY <1>5 DEF Rooms, ExportMetricsOk, ExportMetricsFail, buffers
<1>6. ASSUME NEW c \in Callers, SetInFlight(c) PROVE Rooms'
  BY <1>6 DEF Rooms, SetInFlight, buffers
<1>7. CASE Still
  BY <1>7 DEF Rooms, Still
<1> QED
  BY <1>1, <1>2, <1>3, <1>4, <1>5, <1>6, <1>7, StepKinds
-----------------------------------------------------------------------------
(* Where points are *)

LEMMA WherePoints ==
    \A p : p \in AllPoints <=>
        \/ p \in metrics \cup shipped \cup lostPoints \cup metricOverflow
        \/ \E f \in Flushers : p \in mtBatch[f]
        \/ \E c \in Callers : p \in Ranges(pending[c])
<1>1. \A p : p \in UNION {mtBatch[f] : f \in Flushers} <=> \E f \in Flushers : p \in mtBatch[f]
  OBVIOUS
<1>2. \A p : p \in UNION {Ranges(pending[c]) : c \in Callers} <=>
                 \E c \in Callers : p \in Ranges(pending[c])
  OBVIOUS
<1> QED
  BY <1>1, <1>2 DEF AllPoints

LEMMA RangesFacts ==
    /\ Ranges(<<>>) = {}
    /\ \A x : Ranges(<<x>>) = {x}
    /\ \A x, y : Ranges(<<x, y>>) = {x, y}
<1>1. Ranges(<<>>) = {}
  BY DEF Ranges
<1>2. ASSUME NEW x PROVE Ranges(<<x>>) = {x}
  <2>1. DOMAIN <<x>> = {1}
    OBVIOUS
  <2> QED
    BY <2>1 DEF Ranges
<1>3. ASSUME NEW x, NEW y PROVE Ranges(<<x, y>>) = {x, y}
  <2>1. DOMAIN <<x, y>> = {1, 2}
    OBVIOUS
  <2> QED
    BY <2>1 DEF Ranges
<1> QED
  BY <1>1, <1>2, <1>3

\* New points have a number nobody used, so they are nowhere else.
LEMMA MakesKeeps ==
    ASSUME TypeOK, Places, Names, NEW c \in Callers, NEW points, Makes(c, points)
    PROVE  /\ Places'
           /\ \A p : p \in AllPoints' <=> p \in AllPoints \/ p \in Ranges(points)
<1> USE DEF Makes
<1>1. ASSUME NEW p \in Ranges(points) PROVE p \notin AllPoints /\ p.id = calls + 1
  <2>1. p.id = calls + 1 /\ calls \in Nat
    BY <1>1 DEF Ranges, TypeOK
  <2> QED
    BY <2>1 DEF Names
<1>2. /\ pending'[c] = points /\ pending[c] = <<>> /\ Ranges(pending[c]) = {}
      /\ \A d \in Callers \ {c} : pending'[d] = pending[d]
  BY RangesFacts DEF TypeOK
<1>3. \A p : p \in AllPoints' <=>
        \/ p \in metrics \cup shipped \cup lostPoints \cup metricOverflow
        \/ \E f \in Flushers : p \in mtBatch[f]
        \/ \E d \in Callers : p \in Ranges(pending'[d])
  BY DEF AllPoints, Ranges
<1>4. \A p : p \in AllPoints' <=> p \in AllPoints \/ p \in Ranges(points)
  BY <1>2, <1>3, WherePoints
<1>5. PointOfferedOnce'
  BY DEF Places, PointOfferedOnce
<1>6. (\A f \in Flushers : fpc[f] \in Quiet => mtBatch[f] = {})'
  BY DEF Places
<1>7. ASSUME NEW d \in Callers, NEW p \in Ranges(pending'[d])
      PROVE  /\ p \notin metrics \cup shipped \cup lostPoints \cup metricOverflow
             /\ \A f \in Flushers : p \notin mtBatch[f]
             /\ \A e \in Callers \ {d} : p \notin Ranges(pending'[e])
  <2>1. CASE d = c
    BY <2>1, <1>1, <1>2, <1>7, WherePoints
  <2>2. CASE d # c
    BY <2>2, <1>1, <1>2, <1>7, WherePoints DEF Places
  <2> QED
    BY <2>1, <2>2
<1>8. Places'
  BY <1>5, <1>6, <1>7 DEF Places, Ranges
<1> QED
  BY <1>4, <1>8

LEMMA AppendKeeps ==
    ASSUME TypeOK, Places, NEW c \in Callers, AppendMetrics(c)
    PROVE  Places' /\ \A p : p \in AllPoints' <=> p \in AllPoints
<1> DEFINE in  == Fitting(pending[c])
           out == Ranges(pending[c]) \ in
<1>1. /\ metrics' = metrics \cup in /\ metricOverflow' = metricOverflow \cup out
      /\ UNCHANGED <<shipped, lostPoints, mtBatch, fpc>>
  BY DEF AppendMetrics, Ranges, flushing, batches, backend, history
<1>2. in \subseteq Ranges(pending[c]) /\ in \cap out = {} /\ in \cup out = Ranges(pending[c])
  BY DEF Fitting, Ranges
<1>3. /\ pending'[c] = <<>> /\ Ranges(pending'[c]) = {}
      /\ \A d \in Callers \ {c} : pending'[d] = pending[d]
  BY RangesFacts DEF TypeOK, AppendMetrics
<1> HIDE DEF in, out
<1>4. \A p : p \in AllPoints' <=>
        \/ p \in metrics' \cup shipped' \cup lostPoints' \cup metricOverflow'
        \/ \E f \in Flushers : p \in mtBatch'[f]
        \/ \E d \in Callers : p \in Ranges(pending'[d])
  BY DEF AllPoints, Ranges
<1>5. \A p : p \in AllPoints' <=> p \in AllPoints
  BY <1>1, <1>2, <1>3, <1>4, WherePoints
<1>6. \A p \in Ranges(pending[c]) :
        /\ p \notin metrics \cup shipped \cup lostPoints \cup metricOverflow
        /\ \A f \in Flushers : p \notin mtBatch[f]
        /\ \A d \in Callers \ {c} : p \notin Ranges(pending[d])
  BY DEF Places
<1>7. PointOfferedOnce'
  BY <1>1, <1>2, <1>6 DEF Places, PointOfferedOnce
<1>8. (\A f \in Flushers : fpc[f] \in Quiet => mtBatch[f] = {})'
  BY <1>1 DEF Places
<1>9. ASSUME NEW d \in Callers, NEW p \in Ranges(pending'[d])
      PROVE  /\ p \notin metrics' \cup shipped' \cup lostPoints' \cup metricOverflow'
             /\ \A f \in Flushers : p \notin mtBatch'[f]
             /\ \A e \in Callers \ {d} : p \notin Ranges(pending'[e])
  <2>1. d # c /\ p \in Ranges(pending[d]) /\ p \notin Ranges(pending[c])
    BY <1>3, <1>6
  <2> QED
    BY <2>1, <1>1, <1>2, <1>3 DEF Places
<1>10. Places'
  BY <1>1, <1>7, <1>8, <1>9 DEF Places, Ranges
<1> QED
  BY <1>5, <1>10

LEMMA SwapKeeps ==
    ASSUME TypeOK, Places, NEW f \in Flushers, Swaps(f)
    PROVE  Places' /\ \A p : p \in AllPoints' <=> p \in AllPoints
<1>1. /\ metrics' = {} /\ metricOverflow' = {} /\ lostPoints' = lostPoints \cup metricOverflow
      /\ UNCHANGED <<shipped, pending>>
      /\ mtBatch'[f] = metrics /\ \A g \in Flushers \ {f} : mtBatch'[g] = mtBatch[g]
      /\ fpc'[f] = "events" /\ \A g \in Flushers \ {f} : fpc'[g] = fpc[g]
  BY DEF Swaps, Swap, TakeBuffers, backend, TypeOK
<1>2. mtBatch[f] = {}
  BY DEF Places, Swaps, Quiet
<1>3. \A p : p \in AllPoints' <=>
        \/ p \in metrics' \cup shipped' \cup lostPoints' \cup metricOverflow'
        \/ \E g \in Flushers : p \in mtBatch'[g]
        \/ \E c \in Callers : p \in Ranges(pending[c])
  BY <1>1 DEF AllPoints, Ranges
<1>4. \A p : p \in AllPoints' <=> p \in AllPoints
  BY <1>1, <1>2, <1>3, WherePoints
<1>5. PointOfferedOnce'
  BY <1>1, <1>2 DEF Places, PointOfferedOnce
<1>6. \A g \in Flushers : fpc'[g] \in Quiet => mtBatch'[g] = {}
  BY <1>1 DEF Places, Quiet
<1>7. ASSUME NEW c \in Callers, NEW p \in Ranges(pending[c])
      PROVE  /\ p \notin metrics' \cup shipped' \cup lostPoints' \cup metricOverflow'
             /\ \A g \in Flushers : p \notin mtBatch'[g]
             /\ \A d \in Callers \ {c} : p \notin Ranges(pending[d])
  BY <1>1 DEF Places
<1>8. Places'
  BY <1>1, <1>5, <1>6, <1>7 DEF Places, Ranges
<1> QED
  BY <1>4, <1>8

\* An export of points, failed or not, takes them from the flusher for good.
LEMMA ExportKeeps ==
    ASSUME TypeOK, Places, NEW f \in Flushers, ExportMetricsOk(f) \/ ExportMetricsFail(f)
    PROVE  Places' /\ \A p : p \in AllPoints' <=> p \in AllPoints
<1>1. /\ UNCHANGED <<metrics, metricOverflow, pending>>
      /\ mtBatch'[f] = {} /\ \A g \in Flushers \ {f} : mtBatch'[g] = mtBatch[g]
      /\ \A g \in Flushers \ {f} : fpc'[g] = fpc[g]
      /\ shipped \subseteq shipped' /\ lostPoints \subseteq lostPoints'
      /\ shipped' \cup lostPoints' = shipped \cup lostPoints \cup mtBatch[f]
  <2>1. CASE ExportMetricsOk(f)
    BY <2>1 DEF ExportMetricsOk, TypeOK, buffers, history
  <2>2. CASE ExportMetricsFail(f)
    BY <2>2 DEF ExportMetricsFail, Delivered, TypeOK, buffers
  <2> QED
    BY <2>1, <2>2
<1>2. \A p : p \in AllPoints' <=>
        \/ p \in metrics' \cup shipped' \cup lostPoints' \cup metricOverflow'
        \/ \E g \in Flushers : p \in mtBatch'[g]
        \/ \E c \in Callers : p \in Ranges(pending[c])
  BY <1>1 DEF AllPoints, Ranges
<1>3. \A p : p \in AllPoints' <=> p \in AllPoints
  BY <1>1, <1>2, WherePoints
<1>4. PointOfferedOnce'
  BY <1>1 DEF Places, PointOfferedOnce
<1>5. \A g \in Flushers : fpc'[g] \in Quiet => mtBatch'[g] = {}
  BY <1>1 DEF Places
<1>6. ASSUME NEW c \in Callers, NEW p \in Ranges(pending[c])
      PROVE  /\ p \notin metrics' \cup shipped' \cup lostPoints' \cup metricOverflow'
             /\ \A g \in Flushers : p \notin mtBatch'[g]
             /\ \A d \in Callers \ {c} : p \notin Ranges(pending[d])
  <2>1. p \notin shipped \cup lostPoints \cup mtBatch[f]
    BY DEF Places
  <2> QED
    BY <1>1, <2>1 DEF Places
<1>7. Places'
  BY <1>1, <1>4, <1>5, <1>6 DEF Places, Ranges
<1> QED
  BY <1>3, <1>7
-----------------------------------------------------------------------------
(* What points say *)

LEMMA SameNames ==
    ASSUME TypeOK, Names, \A p : p \in AllPoints' <=> p \in AllPoints,
           calls' \in {calls, calls + 1}, UNCHANGED <<admitted, providerPairs>>,
           \A c \in Callers : Len(pending'[c]) <= 2
    PROVE  Names'
<1>1. calls \in Nat /\ calls' \in Nat /\ \A p \in AllPoints : p.id <= calls => p.id <= calls'
  <2>1. \A p \in AllPoints : p \in Points
    BY WherePoints, SequenceElements DEF TypeOK, Ranges
  <2> QED
    BY <2>1 DEF TypeOK, Points, CallIds
<1>2. \A p \in AllPoints' :
        /\ p.id <= calls'
        /\ p.family = "txn" => p.id \in admitted'
        /\ p.family = "provider_calls" => p.series \in providerPairs' \cup {Other}
  BY <1>1 DEF Names
<1>3. \A id \in admitted' : \E p \in AllPoints' : p.family = "txn" /\ p.id = id
  BY DEF Names
<1> QED
  BY <1>2, <1>3 DEF Names

LEMMA MakesNames ==
    ASSUME TypeOK, Places, Names, NEW c \in Callers, NEW points, Makes(c, points),
           admitted \subseteq admitted', providerPairs \subseteq providerPairs',
           \A p \in Ranges(points) :
               /\ p.family = "txn" => p.id \in admitted'
               /\ p.family = "provider_calls" => p.series \in providerPairs' \cup {Other},
           \A id \in admitted' \ admitted : \E p \in Ranges(points) : p.family = "txn" /\ p.id = id
    PROVE  Names'
<1>1. \A p : p \in AllPoints' <=> p \in AllPoints \/ p \in Ranges(points)
  BY MakesKeeps
<1>2. calls \in Nat /\ calls' = calls + 1 /\ \A p \in AllPoints : p.id <= calls + 1
  <2>1. \A p \in AllPoints : p \in Points
    BY WherePoints, SequenceElements DEF TypeOK, Ranges
  <2> QED
    BY <2>1 DEF TypeOK, Points, CallIds, Names, Makes
<1>3. \A p \in Ranges(points) : p.id <= calls'
  BY <1>2 DEF Makes, Ranges
<1>4. \A d \in Callers : Len(pending'[d]) <= 2
  BY DEF Makes, Names, TypeOK
<1>5. \A p \in AllPoints' :
        /\ p.id <= calls'
        /\ p.family = "txn" => p.id \in admitted'
        /\ p.family = "provider_calls" => p.series \in providerPairs' \cup {Other}
  BY <1>1, <1>2, <1>3 DEF Names
<1>6. \A id \in admitted' : \E p \in AllPoints' : p.family = "txn" /\ p.id = id
  BY <1>1 DEF Names
<1> QED
  BY <1>4, <1>5, <1>6 DEF Names
-----------------------------------------------------------------------------
(* The calls that make points *)

LEMMA PointFields ==
    ASSUME NEW id, NEW family, NEW series
    PROVE  /\ Point(id, family, series).id = id
           /\ Point(id, family, series).family = family
           /\ Point(id, family, series).series = series
  BY DEF Point

LEMMA OnePoint ==
    ASSUME NEW x \in Points
    PROVE  /\ <<x>> \in Seq(Points) /\ Len(<<x>>) <= 2
           /\ DOMAIN <<x>> = {1} /\ <<x>>[1] = x
  OBVIOUS

LEMMA TwoPoints ==
    ASSUME NEW x \in Points, NEW y \in Points
    PROVE  /\ <<x, y>> \in Seq(Points) /\ Len(<<x, y>>) <= 2
           /\ DOMAIN <<x, y>> = {1, 2} /\ <<x, y>>[1] = x /\ <<x, y>>[2] = y
  OBVIOUS

LEMMA AdmitKeeps ==
    ASSUME TypeOK, Places, Names, NEW c \in Callers, NEW key \in Keys, NEW estimated \in BOOLEAN,
           RecordAdmit(c, key, estimated)
    PROVE  Places' /\ Names'
<1> DEFINE points == OutcomePoints(calls', estimated)
           txn    == Point(calls', "txn", NoSeries)
           value  == Point(calls', "value", NoSeries)
<1>1. calls' \in CallIds /\ calls' = calls + 1 /\ txn \in Points /\ value \in Points
  BY CallNumber, PointType, FamilyNames DEF RecordAdmit
<1>2. points = IF estimated THEN <<txn>> ELSE <<value, txn>>
  BY DEF OutcomePoints
<1>3. txn.id = calls' /\ value.id = calls' /\ txn.family = "txn" /\ value.family = "value"
  BY PointFields
<1>4. pending[c] = <<>> /\ pending' = [pending EXCEPT ![c] = points]
      /\ admitted' = admitted \cup {calls'}
      /\ UNCHANGED <<metrics, metricOverflow, mtBatch, shipped, lostPoints, fpc, providerPairs>>
  BY DEF RecordAdmit, StartCall, flushing, batches, backend
<1> HIDE DEF points, txn, value
<1>5. /\ points \in Seq(Points) /\ Len(points) <= 2
      /\ \A i \in DOMAIN points : points[i].id = calls'
  <2>1. CASE estimated
    BY <2>1, <1>1, <1>2, <1>3, OnePoint
  <2>2. CASE ~ estimated
    BY <2>2, <1>1, <1>2, <1>3, TwoPoints
  <2> QED
    BY <2>1, <2>2
<1>6. txn \in Ranges(points) /\ Ranges(points) \subseteq {txn, value}
  <2>1. CASE estimated
    BY <2>1, <1>2, RangesFacts
  <2>2. CASE ~ estimated
    BY <2>2, <1>2, RangesFacts
  <2> QED
    BY <2>1, <2>2
<1>7. Makes(c, points)
  BY <1>1, <1>4, <1>5 DEF Makes
<1>8. \A p \in Ranges(points) :
          /\ p.family = "txn" => p.id \in admitted'
          /\ p.family = "provider_calls" => p.series \in providerPairs' \cup {Other}
  BY <1>3, <1>4, <1>6
<1>9. \A id \in admitted' \ admitted : \E p \in Ranges(points) : p.family = "txn" /\ p.id = id
  BY <1>3, <1>4, <1>6
<1> QED
  BY <1>4, <1>7, <1>8, <1>9, MakesKeeps, MakesNames

LEMMA GaugeKeeps ==
    ASSUME TypeOK, Places, Names, NEW c \in Callers, SetInFlight(c)
    PROVE  Places' /\ Names'
<1> DEFINE value == Point(calls', "inflight_value", NoSeries)
           count == Point(calls', "inflight_count", NoSeries)
           points == <<value, count>>
<1>1. calls' \in CallIds /\ calls' = calls + 1 /\ value \in Points /\ count \in Points
  BY CallNumber, PointType, FamilyNames DEF SetInFlight
<1>2. /\ value.id = calls' /\ count.id = calls'
      /\ value.family = "inflight_value" /\ count.family = "inflight_count"
  BY PointFields
<1>3. pending[c] = <<>> /\ pending' = [pending EXCEPT ![c] = points]
      /\ UNCHANGED <<metrics, metricOverflow, mtBatch, shipped, lostPoints, fpc, providerPairs,
                     admitted>>
  BY DEF SetInFlight, StartCall, buffers, flushing, batches, backend, history
<1> HIDE DEF value, count
<1>4. /\ points \in Seq(Points) /\ Len(points) <= 2
      /\ \A i \in DOMAIN points : points[i].id = calls'
  BY <1>1, <1>2, TwoPoints
<1>5. Ranges(points) = {value, count}
  BY RangesFacts
<1> HIDE DEF points
<1>6. Makes(c, points)
  BY <1>1, <1>3, <1>4 DEF Makes
<1>7. \A p \in Ranges(points) :
          /\ p.family = "txn" => p.id \in admitted'
          /\ p.family = "provider_calls" => p.series \in providerPairs' \cup {Other}
  BY <1>2, <1>5
<1> QED
  BY <1>3, <1>6, <1>7, MakesKeeps, MakesNames

LEMMA ProviderKeeps ==
    ASSUME TypeOK, Places, Names, Rooms, NEW c \in Callers, NEW pair \in Pairs,
           RecordProviderCall(c, pair)
    PROVE  Places' /\ Names'
<1> DEFINE call == Point(calls', "provider_calls", PairSeries(pair))
           points == <<call>>
<1>1. calls' \in CallIds /\ calls' = calls + 1 /\ call \in Points
  BY CallNumber, PairSeriesType, PointType, FamilyNames DEF RecordProviderCall
<1>2. call.id = calls' /\ call.family = "provider_calls" /\ call.series = PairSeries(pair)
  BY PointFields
<1>3. pending[c] = <<>> /\ pending' = [pending EXCEPT ![c] = points]
      /\ providerPairs' = PairsAfter(pair)
      /\ UNCHANGED <<metrics, metricOverflow, mtBatch, shipped, lostPoints, fpc, admitted>>
  BY DEF RecordProviderCall, StartCall, flushing, batches, backend, history
<1> HIDE DEF call
<1>4. /\ points \in Seq(Points) /\ Len(points) <= 2
      /\ \A i \in DOMAIN points : points[i].id = calls'
  BY <1>1, <1>2, OnePoint
<1>5. Ranges(points) = {call}
  BY RangesFacts
<1> HIDE DEF points
<1>6. Makes(c, points)
  BY <1>1, <1>3, <1>4 DEF Makes
<1>7. call.series \in providerPairs' \cup {Other} /\ providerPairs \subseteq providerPairs'
  BY <1>2, <1>3, PairsBounded
<1>8. \A p \in Ranges(points) :
          /\ p.family = "txn" => p.id \in admitted'
          /\ p.family = "provider_calls" => p.series \in providerPairs' \cup {Other}
  BY <1>2, <1>5, <1>7
<1> QED
  BY <1>3, <1>6, <1>7, <1>8, MakesKeeps, MakesNames

LEMMA PlacesNamesStep ==
    ASSUME TypeOK, Accounting, Places, Names, Rooms, [Next]_vars
    PROVE  Places' /\ Names'
<1>1. ASSUME NEW c \in Callers, AppendMetrics(c) PROVE Places' /\ Names'
  <2>1. /\ UNCHANGED <<calls, admitted, providerPairs>>
        /\ \A d \in Callers : Len(pending'[d]) <= 2
    BY <1>1 DEF AppendMetrics, history, Names, TypeOK
  <2> QED
    BY <1>1, <2>1, AppendKeeps, SameNames
<1>2. ASSUME NEW f \in Flushers, Swaps(f) PROVE Places' /\ Names'
  <2>1. /\ UNCHANGED <<calls, admitted, providerPairs>>
        /\ \A d \in Callers : Len(pending'[d]) <= 2
    BY <1>2 DEF Swaps, Swap, Names
  <2> QED
    BY <1>2, <2>1, SwapKeeps, SameNames
<1>3. ASSUME NEW f \in Flushers, ExportMetricsOk(f) \/ ExportMetricsFail(f)
      PROVE  Places' /\ Names'
  <2>1. /\ UNCHANGED <<calls, admitted, providerPairs>>
        /\ \A d \in Callers : Len(pending'[d]) <= 2
    BY <1>3 DEF ExportMetricsOk, ExportMetricsFail, Names, buffers, history
  <2> QED
    BY <1>3, <2>1, ExportKeeps, SameNames
<1>4. CASE Still
  <2>1. /\ UNCHANGED <<admitted, providerPairs>> /\ calls' \in {calls, calls + 1}
        /\ \A d \in Callers : Len(pending'[d]) <= 2
    BY <1>4 DEF Still, Names
  <2>2. AllPoints' = AllPoints
    BY <1>4 DEF Still, AllPoints, Ranges
  <2>3. Places'
    <3>1. PointOfferedOnce'
      BY <1>4 DEF Still, Places, PointOfferedOnce
    <3>2. \A f \in Flushers : fpc'[f] \in Quiet => mtBatch'[f] = {}
      BY <1>4 DEF Still, Places
    <3>3. ASSUME NEW c \in Callers, NEW p \in Ranges(pending[c])
          PROVE  /\ p \notin metrics' \cup shipped' \cup lostPoints' \cup metricOverflow'
                 /\ \A f \in Flushers : p \notin mtBatch'[f]
                 /\ \A d \in Callers \ {c} : p \notin Ranges(pending[d])
      BY <1>4 DEF Still, Places
    <3> QED
      BY <1>4, <3>1, <3>2, <3>3 DEF Still, Places, Ranges
  <2> QED
    BY <2>1, <2>2, <2>3, SameNames
<1> QED
  BY <1>1, <1>2, <1>3, <1>4, StepKinds, AdmitKeeps, GaugeKeeps, ProviderKeeps
-----------------------------------------------------------------------------
LEMMA PInvInit == Init => PInv
<1> SUFFICES ASSUME Init PROVE PInv
  OBVIOUS
<1> USE DEF Init
<1>1. \A c \in Callers : pending[c] = <<>> /\ Ranges(pending[c]) = {} /\ Len(pending[c]) = 0
  BY RangesFacts
<1>2. AllPoints = {}
  BY <1>1 DEF AllPoints
<1>3. Places
  BY <1>1 DEF Places, PointOfferedOnce
<1>4. Names
  BY <1>1, <1>2 DEF Names
<1>5. Memory
  BY FS_EmptySet, DedupCapAssumption DEF Memory, NewTwoGenSet
<1>6. Rooms
  BY FS_EmptySet, EmitterAssumption DEF Rooms, MetricsCap
<1> QED
  BY <1>3, <1>4, <1>5, <1>6 DEF PInv

LEMMA PInvStep == TypeOK /\ Accounting /\ PInv /\ [Next]_vars => PInv'
  BY MemoryStep, RoomsStep, PlacesNamesStep DEF PInv

LEMMA PInvAlways == Spec => []PInv
  BY TypeCorrect, BooksBalance, PInvInit, PInvStep, PTL DEF Spec

LEMMA PInvCounts == PInv => OutcomesCountedOnce
<1> SUFFICES ASSUME PInv PROVE OutcomesCountedOnce
  OBVIOUS
<1> DEFINE remembered == dedup.cur \cup dedup.prev
<1>1. PointOfferedOnce
  BY DEF PInv, Places
<1>2. {p.id : p \in {q \in AllPoints : q.family = "txn"}} = admitted
  BY DEF PInv, Names
<1>3. remembered \subseteq emitted
  BY DEF PInv, Memory
<1>4. Cardinality(remembered) > DedupCap \/ remembered = emitted
  <2>1. CASE dedup.prev = {} /\ dedup.cur = emitted
    BY <2>1
  <2>2. CASE /\ Cardinality(dedup.prev) = DedupCap
             /\ dedup.cur # {} /\ dedup.cur \cap dedup.prev = {}
    <3>1. IsFiniteSet(remembered) /\ dedup.prev \in SUBSET remembered
      BY FS_Union DEF PInv, Memory
    <3>2. dedup.prev # remembered
      BY <2>2
    <3>3. /\ IsFiniteSet(dedup.prev)
          /\ Cardinality(dedup.prev) <= Cardinality(remembered)
          /\ Cardinality(dedup.prev) # Cardinality(remembered)
      BY <3>1, <3>2, FS_Subset
    <3>4. Cardinality(remembered) \in Nat /\ Cardinality(dedup.prev) \in Nat
      BY <3>1, <3>3, FS_CardinalityType
    <3> QED
      BY <2>2, <3>3, <3>4
  <2> QED
    BY <2>1, <2>2 DEF PInv, Memory
<1> QED
  BY <1>1, <1>2, <1>3, <1>4 DEF OutcomesCountedOnce

LEMMA PInvBounds == PInv => MemoryBounded
<1> SUFFICES ASSUME PInv PROVE MemoryBounded
  OBVIOUS
<1> DEFINE series == {p.series : p \in {q \in AllPoints : q.family = "provider_calls"}} \ {Other}
<1>1. Cardinality(dedup.cur \cup dedup.prev) <= 2 * DedupCap
  <2>1. /\ IsFiniteSet(dedup.cur) /\ Cardinality(dedup.cur) <= DedupCap
        /\ IsFiniteSet(dedup.prev) /\ Cardinality(dedup.prev) <= DedupCap
    BY DEF PInv, Memory
  <2>2. IsFiniteSet(dedup.cur \cap dedup.prev)
    BY <2>1, FS_Subset
  <2>3. Cardinality(dedup.cur \cup dedup.prev) =
            Cardinality(dedup.cur) + Cardinality(dedup.prev) - Cardinality(dedup.cur \cap dedup.prev)
    BY <2>1, FS_Union
  <2>4. /\ Cardinality(dedup.cur) \in Nat /\ Cardinality(dedup.prev) \in Nat
        /\ Cardinality(dedup.cur \cap dedup.prev) \in Nat /\ DedupCap \in Nat
    BY <2>1, <2>2, FS_CardinalityType, DedupCapAssumption
  <2> QED
    BY <2>1, <2>3, <2>4
<1>2. Cardinality(series) <= PairCap
  <2>1. series \in SUBSET providerPairs
    BY DEF PInv, Names
  <2>2. IsFiniteSet(providerPairs) /\ Cardinality(providerPairs) <= PairCap
    BY DEF PInv, Rooms
  <2>3. IsFiniteSet(series) /\ Cardinality(series) <= Cardinality(providerPairs)
    BY <2>1, <2>2, FS_Subset
  <2>4. Cardinality(series) \in Nat /\ Cardinality(providerPairs) \in Nat /\ PairCap \in Nat
    BY <2>2, <2>3, FS_CardinalityType, EmitterAssumption
  <2> QED
    BY <2>2, <2>3, <2>4
<1> QED
  BY <1>1, <1>2 DEF MemoryBounded, PInv, Rooms

\* Every admitted outcome is counted by one point, offered to the exporter at most
\* once, and nothing else is; the keys remembered are emitted ones, all
\* of them or more than a generation (Record's two critical sections, Flush and twoGenSet).
THEOREM CountedOnce == Spec => []OutcomesCountedOnce
  BY PInvAlways, PInvCounts, PTL

\* Buffers, memory of keys and provider series keep their bounds for every size
\* and every number of callers, although a pair is admitted and its point appended
\* in different critical sections (appendMetrics, providerPairLabels).
THEOREM BoundedMemory == Spec => []MemoryBounded
  BY PInvAlways, PInvBounds, PTL
=============================================================================
