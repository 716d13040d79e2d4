# shortfall in TLA+

Models, model-checking runs and machine-checked proofs for
[shortfall](../src/README.md), the Go library that turns business outcomes into
telemetry and telemetry into the cost of an incident. Every definition is
translated from the source; `PROJECT.json` ("map") names the lines behind each.

    tlasany Emitter.tla                                    # parse
    tlc -workers 2 -config MCEmitter_life.cfg MCEmitter    # model-check
    tlapm EmitterProofs.tla                                # check the proofs

## 1. The system

A request enters a service, is given a *value context* (`biz`), travels with it
over HTTP, Kafka, SQS or AMQP (`propagate`), and ends in an *outcome* that the
*emitter* (`emit`) turns into one event and some metric points. Exporters
(`adapters/export`) bring them to a backend. Later the *engine* queries the
backend (`query`, `adapters/query`) and computes what an incident cost. A payment
adapter (`adapters/payment/stripe`) feeds outcomes in from webhooks and brings the
provider's own books in for reconciliation; incident adapters post the result.

| Component | State | Operations | Interacts with | What is hard | What makes it correct |
|---|---|---|---|---|---|
| Emitter core `emit.Std` | event and metric buffers, drop counters, two-generation de-dup set, admitted provider pairs, all under one mutex; loop goroutine, stop channel | Record, SetInFlight, RecordProviderCall, Flush, Close | request goroutines, tracker, exporter | several critical sections per call, overlapping flushes, failing exports, Close against late calls | every admitted event is exported or counted as dropped, once; event and counts agree; drop counters survive outages; Close drains |
| In-flight tracker `emit.InFlightTracker` | messages in 32 locked shards, atomic counters, pinned exponents, live combos, publishMu | Track, Done, Publish, Start, Close | workers; emitter's SetInFlight | an exact bound and a snapshot over many locks, publishers overtaking, combos that empty | bound exact, no place lost, gauges end at a true snapshot or the omission is counted |
| OTLP exporter | one-slot semaphore, `stopped`, SDK provider and reader | ExportMetrics, ExportEvents, Shutdown | emitter; OpenTelemetry SDK | cancellation while waiting and while chunking, an abandoned Shutdown, SDK batches nobody confirms | nil only for a batch the SDK delivered; nothing runs on after Shutdown |
| Prometheus exporter | latest sample per gauge, counters | ExportMetrics, ExportEvents, Shutdown | emitter, scrapes | out-of-order batches of overlapping flushes | a stale sample never replaces a newer one |
| CloudWatch, Google Cloud exporters | closed flag, buffered writer | ExportEvents, ExportMetrics, Shutdown | emitter; stdout, HTTP API | a buffered write acknowledged before it is flushed | the contract of `emit.Exporter` |
| Stripe adapter | cursor of the page loop | VerifyAndMap, webhook Handler, Backend.Call, Reconcile | Stripe; emitter; coverage | duplicate and late deliveries, retried calls, a list that moves under the walk | a delivery records what happened when it happened; a walk counts an intent once |
| Value context `biz` | none | validation, baggage codec, ledger rows | propagation, emitter | size caps, escapes, deadlines of second resolution | decoding inverts encoding or is refused |
| Propagation | none (headers) | Middleware, Transport, Inject, Extract | services, queues | header and baggage of strangers, precedence of wire and ingress hook, redirects | no value to a host outside the allowlist; the same value at every hop |
| Registry | parsed registry | Parse, durations, HostAllowed, lookups | everything | cross-field rules | what Parse accepts the readers can use |
| Query boundary `query`, `memq` | points and events in memory | QueryMetric, QueryEvents, Combine | engine | counters against levels, buckets | the reference every backend is measured by |
| Engine | none (a computation) | Compute: realized, deferred, unrealized, customers, severity; Coverage | querier, registry | retries and recoveries in any order, gauges or events, legs that fail | no loss counted twice, recoveries cancel, a missing leg is said to be missing |
| Backend queriers | a job being polled and paged | QueryEvents, QueryMetric | Insights, BigQuery, SQL, Prometheus | truncation, broken rows, endless jobs and tokens | the whole answer, or an error |
| Incident adapters, command line, reports | none | one request, one run, one rendering | HTTP, stdout | little: sequential and stateless | - |

## 2. Modules

| Module | Stands for |
|---|---|
| `TwoGenSet` | the de-dup set `twoGenSet` as operators on a pair of generations |
| `Emitter` | `Std`: recording goroutines, flushers, loop, Close, exporter |
| `ObservationLedger` | the abstract promise of the emitter: an observation is taken or refused, delivered or lost, a loss is reported once; `Emitter` refines it |
| `InFlightTracker` | the tracker: workers, publishers, loop, Start and Close, and the gauge series it drives |
| `OtlpExporter` | the OTLP exporter: calls and Shutdowns around the sink's one slot, with the SDK's processor as environment |
| `ExporterContract` | what `emit.Exporter` promises its caller |
| `Exporters` | the Google Cloud, CloudWatch (EMF lines and PutMetricData) and Prometheus exporters; refines `ExporterContract` |
| `ValueContext` | validation and the one-member wire form of a value context |
| `Registry` | Parse's rules, durations, host patterns, lookups; extends `ValueContext` |
| `ValuePropagation` | a transaction through services, clients, redirects and queues; extends `Registry` |
| `MemQuerier` | filters, groups and buckets of the reference querier, and Combine |
| `LogQuerier` | the queriers that read outcomes back from a log or a table; extends `MemQuerier` |
| `ReportLegs` | every leg of a report and Coverage as functions of a store, a registry and a request; extends `MemQuerier` and `Registry` |
| `MoneyPath` | recording, lossy exports, the tracker's gauges, the provider's books and Reconcile, with `ReportLegs` read off what arrived |
| `ImpactLegs` | the event-based legs of one flow and currency over an outcome log |
| `StripePayments` | payments at Stripe (external), the wrapped backend's calls, the webhook handler, each process's de-dup; extends `ImpactLegs` |
| `PaymentImpact` | what the legs must say of those payments |
| `EmitterProofs`, `InFlightTrackerProofs`, `OtlpProofs`, `ExportersProofs`, `PropagationProofs`, `PaymentProofs`, `MoneyPathProofs`, `LogQuerierProofs` | theorems |
| `MC*` | instances for TLC |

`ImpactLegs` and `ReportLegs` share the event-based legs at two grains. The
first is small enough to be explored against every order of deliveries, retries
and lateness of one payment; the second has flows, currencies, metrics, gauges
and the registry, over payments that behave.

### Emitter

A step is one critical section of `Std.mu` or one call of the exporter. Each
call of Record, SetInFlight and RecordProviderCall is numbered; events, metric
points and units of a drop counter carry the number of the call they stem from,
so the counters are sets and "counted twice" is visible. `pending[c]` is what a
call has decided to append after its first critical section: Record buffers the
event and the de-dup key under one lock and its points under another, as
RecordProviderCall admits the pair under one and appends under another. `fpc[f]`
is where a flusher is in Flush: *events* (ExportEvents), *credit* (the failed
batch is counted), *metrics* (ExportMetrics), *recredit* (the drop counters go
back), *return*. The loop, callers of Flush and Close's goroutine share those
actions. Close is `CloseBegin` (stop and cancel), `CloseFlush` (after wg.Wait),
`CloseFlushAgain`, `CloseShutdown`. A failing export delivers nothing, or, with
`PartialDelivery`, any part; after Close an export is refused. Left out: times,
amounts, the text of labels, and the variant without a background loop.

### In-flight tracker

Track is cut where another goroutine can come between: the load of the pinned
exponent and LoadOrStore, the shard's lock, the atomic reservation, its roll-back.
Done is cut between the removal and the release of the place. Publish takes the
shard locks one after the other while it holds publishMu, reads, unlocks, then
emits combo by combo; `live` are the combos the last Publish left non-zero. A
gauge's level is the set of messages it stands for, per age bucket. The
emitter's label fence (flowStageLabels) is `SeriesOf`, so unregistered stages
share a series as they do in the code. The loop picks a tick (`LoopTick`) and
then waits for publishMu (`PublishBegin`), as a caller's Publish does. Left out: int64 overflow of a bucket's
sum (9.2e18 minor units), a second Close.

### Exporters

In `OtlpExporter` a call is a process with a context that may expire whenever
the code could notice. `sem` is the holder of the sink's one-slot channel. Of the
SDK the model has what otlp.go and its tests rely on: a queue that overwrites
its oldest record when full (`Enqueued`), a stopped provider that discards
records and answers nil, a provider stopped with a dead context whose processor
goes on. `Background` is the processor's own export on a timer; it is assumed to
succeed, because the SDK tells nobody when it does not.

In `Exporters` a behaviour is about one exporter (`kind`). The line exporters
write records, line by line under `mu`, into a `bufio.Writer`: a buffer of
`BufLines`, the lines the writer behind it has taken, and the sticky error. The
model lets the buffer overflow at a line's end. The PutMetricData path looks at
`closed` under the lock and sends its chunks without it. Prometheus applies a
batch point by point, without a lock over the batch. The refinement maps a call
to *idle*, *early*, *late* (begun after a Shutdown returned), *nil* or *error*.

### Propagation

A header on the wire is a sequence of lines, a line a sequence of items; a text
is its length, its bytes that need escaping, its shape and whether the PII net
catches it. `Serve`, `Send` and their like are whole calls of Middleware,
Transport, Inject and Extract. The baggage library's parse, limit and encoding
are external, modelled by what httpmw relies on: it refuses a bag whole.

### Queriers

`MemQuerier` answers in a set: the empty set is an error or an unsupported
query. `LogQuerier` is one QueryEvents call against one of three services. The
service's part (a job that completes, fails or never ends; pages of any size; a
token offered twice; a row that arrives meanwhile; a filter that is ignored, as
LocalStack does) is external; the client's part is one action per call and per
decision. A tick is half a store timestamp, a second four ticks, so the ends of a
window fall on and off what the store can hold. "mangled" is a row that
`eventline.Parse` refuses.

### Engine and money path

Legs are operators. `ReportLegs` has the engine's two groundings of the realized
and the deferred leg, the hour-of-week baseline with median and deviation in
scaled integers, the unrealized range, customers, Coverage, and Compute's choice
of what is missing. In `MoneyPath` a service records what happens to payments, an
export may lose the points or the event of a record, the tracker publishes the
in-flight gauges, and Reconcile walks the provider's list page by page while
payments are created and settle. `Backend` is what has arrived, `Store` what the
combined querier of the command line serves of it. `StripePayments` has Stripe
itself in more detail: intents move between its states (external), `Call` is
Backend.Call with or without an answer and with or without effect, `Deliver` is
the webhook handler of some process getting any event sent so far, in any order
and again.

## 3. Runs

| Run | What it shows | Instance |
|---|---|---|
| `emitter_flush` | accounting of events, drops and points; memory bounds; refinement of `ObservationLedger` | 2 recording goroutines, loop and a caller's Flush, buffer of 1 event and 2 points, 1 provider pair, 3 keys over generations of 1, 3 calls |
| `emitter_life` | Close delivers, reports damage and returns; drops are settled while nobody closes | 1 recording goroutine, loop, a caller's Flush and Close, 2 calls |
| `tracker_sets` | exact bound, no leaked place, truthful gauges, no rejuvenated backlog | 2 workers, 2 publishers, 2 shards, 2 messages, 1 place, 2 exponents, 2 instants |
| `tracker_life` | Close ends the loop and returns; messages that left leave the gauges | 2 Starts, Close, a caller's Publish, 1 worker |
| `otlp_export` | nil means delivered whole; a finished Shutdown leaves nothing running; Shutdown returns | 2 event exports of 3 records over a queue of 2, 1 metric export, 2 Shutdowns |
| `exporters` | acknowledged lines are whole and once in the stream; gauges show the newest sample; `ExporterContract` | 2 event and 3 metric exports, 2 Shutdowns, buffer of 2 lines, chunks of 2 |
| `propagation` | no leak; the value arrives unchanged; recognised traffic is stamped; a message has one value | 3 hops, hosts on and off the list, redirects, malformed and oversized neighbours |
| `payment_legs` | the event legs of every window against what became of the payment; redelivery and lateness | 1 payment, 2 processes, 2 amounts, 2 instants, 3 calls, up to 4 outcomes |
| `report` | every leg, the severity and the coverage of four requests against what became of up to four payments; the provider's list walked while it changes | 2 flows and currencies, pages of 2, 3 records and 1 between two pages, at most 1 loss, 2 Publishes, 3 registries, 4 instants |
| `log_querier` | an answer is whole or an error; the call returns once job or context has ended | 6 rows (3 outcomes, a broken one, 2 of others), cap of 2, 5 queries, 3 services |
| `payment_confirm` | finding | as `payment_legs` |
| `estimated_realized` | finding | as `report`, every amount an estimate |

Bounds. `MaxCalls` bounds the calls of a behaviour: three let one call fill the
buffer, one overflow and one follow a flush, with two flushers holding a batch
each. The tracker needs two workers for a race on the bound, two publishers to
overtake one another, two shards for a snapshot that is not one lock, two instants
for an older and a newer timestamp; `MaxRefused` only caps two counters. Two
exports of two chunks contend for the slot between any two chunks, and a second
Shutdown finds the first abandoned. A buffer of two lines is full in the middle of
a record, three metric batches bring the samples of two gauges in opposite orders,
a negative delta and an unknown family. Three hops are an inbound request, a
redirect and a queue. One payment is enough where a leg is a sum over payments;
two processes make a duplicate the de-dup does not catch, two amounts tell largest
from sum. In `report` three intents make two pages, and one more record between
them (`MaxLate`) lets a fourth appear in front of the list or one of the three
settle or decline; `Quiet` keeps the walk from the settled past. Three payments of
one flow give the two weeks of the baseline unequal levels, so that median and
band are not those of one level. One loss at the value stage separates an event
from its points; the instants lie on and off an hour. Three records have room for
one capture, so a coverage is whole or nothing there; for any number the theorem
stands (`LossAlwaysLowersCoverage`). Two keys fit two generations of one; a third
key makes the emitter forget the first. `log_querier` has more outcomes than the
cap, a window that cuts each row off, and a group label no service knows.
What the bounds leave open the theorems of section 4 close, for every safety
property but `ShortfallMatchesDemand`.

Fairness. A goroutine inside a call goes on (WF for each flusher and each
AppendMetrics), exporter calls return, the ticker ticks. Go's select picks at
random among ready cases, so a closed stop channel is picked eventually: SF on
LoopExit. A mutex that is freed again and again goes to whoever waits, because
sync.Mutex hands over after a millisecond (starvation mode): SF on the tracker's
lock steps, the loop's wait for publishMu included. `RecoveringSpec` adds one assumption on the environment: of the
batches with drop counters that a flusher offers again and again the backend
takes one. Callers never have to call anything. In `OtlpExporter` a call that can
take the slot or give up does one of the two, an export that has the slot
starts, and a Shutdown goes on and its deadline passes; the exports themselves
may hang for ever. In `LogQuerier` the calling goroutine runs on (its timers fire,
its HTTP client has a timeout); jobs need not end and contexts not expire, which
is why `QueryReturns` speaks of calls where one of the two has happened. The
command line passes a context that never ends, so for it a job that never
completes is polled for ever.

## 4. Proofs

Each theorem holds for all constants that satisfy the named assumption of its
module; TLC evaluates the assumptions on every instance.

`EmitterProofs` (`EmitterAssumption`):

- `TypeCorrect`: `Spec => []TypeOK`.
- `BooksBalance`: `Spec => []Accounting`, also with partial delivery. The
  conjuncts of interest (EventsAccounted, EventOfferedOnce, DropsNeverForgotten)
  are not inductive: a swap must not overwrite a batch still held, so `Phases`
  ties what a flusher holds to where it is, and a new call's number must be
  unused, which `NumberedSoFar` says.
- `DropsReportedOnce` and `ImplementsLedger` assume `~ PartialDelivery`: a
  failing export delivers nothing. Without it the code does report a drop twice
  (it credits back counters the backend may have taken). The refinement maps
  buffered and held events to the ledger's pending ones and live and held
  counters to its unreported ones.
- `NothingLeftBehind` and `DamageReported`: `Spec => []CloseDelivers`, `Spec =>
  CloseReportsDamage`. `CInv` says who still runs while Close does (after
  `wg.Wait` the loop has exited, and nobody flushes unless `overlapped`), that a
  flusher on a failure path has noted its error, hence that without an error no
  drop counter has an event from before Close, and that until its metrics go out
  the second flush has every earlier drop.
- `CountedOnce` and `BoundedMemory`: `Spec => []OutcomesCountedOnce`, `Spec =>
  []MemoryBounded`. The invariant `PInv` has four parts. `Places`: a point is
  live, with one flusher, or in the hands of the call that will append it, and a
  flusher that may swap holds none. `Names`: a point's call was made (so the
  points of a new call are nowhere yet), the txn points are those of the admitted
  calls, a provider point's series was admitted. `Memory`: the keys remembered
  are all emitted ones, or the older generation is full and the newer one holds
  another key. `Rooms`: the cardinality
  of buffers and pairs. `StepKinds` reduces `Next` to the six kinds of steps that
  touch any of it.

`InFlightTrackerProofs` (`TrackerAssumption`):

- `BoundHolds` and `PlacesReturn`: `Spec => []BoundExact`, `Spec =>
  []NoPlaceLeaked`. Both follow from `Places`: the counter is the size of the
  set plus the workers between counter and map (inserting, releasing) plus those
  about to roll back, and all but the last stay within the bound. It needs that a
  worker with a reservation holds the shard of its message, hence that nobody else
  inserts the same key.
- `TrackerTypes`, `NeverYounger`, `LoopEndsFirst` (`Spec => []LoopEnded`, the
  safety half of Close) and `GaugesTellTheTruth` rest on `IInv`: beside `Places`
  it says who holds which shard and publishMu (`WorkerSide`, `PublishSide`), who
  starts and ends the loop (`LifeInv`), that a message has the exponent pinned
  for its currency, that a publisher that has locked every shard reads the set as
  it is (`SnapshotInv`), and that what is missing was counted.
- `GaugesTellTheTruth` adds `GaugeInv`, every series shows the last snapshot or
  is about to, and has the hypothesis `StagesApart`: no two tracked stages share
  a series. Two unregistered stages do share one and overwrite each other's
  level (section 5); the hypothesis leaves exactly that out.

`OtlpProofs` (`OtlpAssumption`):

- `NilIsDelivered`: `Spec => []NilMeansDelivered`: an export that returned nil
  has every record at the backend. The inductive invariant adds to it `TypeOK`,
  `Roles` (a call is only where calls of its kind go) and `SinkInv`: the holder
  of the slot is unique, only the holder has records in the queue, a chunk fits
  the queue (so nothing is overwritten), and the provider is stopped only under
  the slot and after `stopped` was set. One lemma per action. It rests on the
  SDK's own exports not failing (`Background`).
- `ShutdownIsQuiet`: `Spec => QuietAfterShutdown`. `DownInv` follows the one
  Shutdown that won the Swap: by the time it answers nil both clients are down
  and the processor has ended, and the others do nothing.

`ExportersProofs` (`ExportersAssumption`: a record belongs to one call, a call
exports one signal):

- `LinesKept`: `Spec => []AckedLinesKept`. Written and buffered lines are one
  stream, which a flush does not change, whole or failed half way
  (`DrainKeepsStream`); a write appends to it, and the holder of `mu` has all its
  lines at the end.
- `NewestShown`: `Spec => []GaugeShowsNewest`, with the sample shown among those
  brought.
- `ExportersMeetContract`: `Spec => ContractSpec`, the refinement of
  `ExporterContract`. `ContractInv` has what the mapped steps need: records come
  from calls under way or answered, a call that began after a Shutdown returned
  is refused, what a call without lines has behind it is applied, and a Shutdown
  that answered nil left an empty buffer.

`PropagationProofs` (`PropagationAssumption`):

- `NothingLeaksEver` and `OneValueEver`: `Spec => []NothingLeaks`, `Spec =>
  []MessageUnambiguous`, over `WireInv` (headers are lines of items, a context
  has one member of a key) and lemmas about the codec and the carriers: what
  `Inject` leaves has one holder, what `Strip` leaves has none.
- `ValueArrivesAlways`: `Outside => (Spec => []ValueArrives)`. `Outside` is what
  the world keeps to where the value is claimed to arrive: the bag has room, no
  stranger writes a `biz.vc`, and one that enters was written by the library.
  TLC evaluates it on the instance. `CarryInv` follows the value from hop to hop:
  the context, the headers of a request under way and a queued message decode to
  what the first handler was given.
- `RecognisedIsStampedAlways`: `Spec => []RecognisedIsStamped`. `EstimatorFacts`
  says what `Parse` makes of an estimator it accepts: amounts above 0 in minor
  units, an exponent within 0..4; hence a valid answer of the hook has a valid
  estimate (`EstimateValid`), and the stamp is what the context decodes to
  (`StampReads`). `HookInv` keeps that until the handler calls out: a queue's
  consumer asks no hook, and a later hop that asks one starts anew. An answer
  whose estimate is too long for the wire is left without a value, as in the code.

`PaymentProofs` (`LegsAssumption` and `PaymentsAssumption`), about the engine's
event-based legs over any number of payments, processes, amounts, instants,
windows, stages, deadlines and age floors:

- `LossesAreFailures`, `InFlightIsPending`, `EventsAgeLikeTheGauge`:
  `Spec => []LossIsFailure`, `[]PendingIsInFlight`, `[]BacklogAgesLikeTheGauge`.
  `PayInv` relates Stripe's status of a payment to the events sent (a success is
  the end but for a dispute, a pending payment sent one event for its state, one
  that is pending no more sent the event that ended it) and every recorded outcome
  to the event or the unanswered call it stems from (`Origins`), and says that
  trouble leaves a trace. The proof of the second one showed that the property
  must look no further back than the leg does (`Informed`, section 5).
- `DuplicatesChangeNothing`: `Spec => RedeliveryChangesNothing`. Two logs that
  have the same outcomes, whoever recorded them, give the same figures
  (`AlikeFigures`), one lemma per operator of the legs.
- `LateEventsMoveNothing`: `Spec => LateEventsStayPut`.

`MoneyPathProofs` (`MoneyPathAssumption`, and `FlowsAssumption` for the ratio):

- `WalksCountOnce`: `Spec => []WalkCountsOnce`. The list names a payment once and
  only grows at its new end (`ListInv`), so there is an n such that the walk has
  read the n oldest payments from the newest of them down to its cursor
  (`WalkInv`, `ReadDown`), whatever was created in front of them since; a page
  continues there (`OlderThan`, `PageFacts`), and its cursor always moves.
- `TightestSeverity`: `Spec => []SeverityIsTightest`, from two things. `MoneyInv`:
  every record and every gauge sample is of a payment, so whichever source a leg
  is read from, its currencies are those of payments and none at risk is missed
  (`RealizedMoney`, `GaugeMoney`, `EventMoney`, `DeferredMoney`). And an accepted
  registry's ladder falls from rung to rung (`AcceptedLadder`), hence as a whole
  (`LadderFalls`, by least counterexample): the first rung reached is the one with
  the greatest floor (`TightestLevel`).
- `LossIsBounded`: `Spec => []RealizedBounds`. The section "Sums" shows what
  `SumFunction` computes (`SumIter`, `AddsAny`: in whatever order), and from it,
  by a smallest counterexample among subsets, how sums compare (`SumWithin`,
  `SumSame`, `SumParts`). A query of the counters or of the events answers one
  row per key, at the sum of the points or events that have it (`MetricAnswer`,
  `EventAnswer`); a row of the failures is then the amounts of the failures it is
  about (`FailureRows`, `ValueRows`). All figures are compared with one sum, `Due`
  over the pairs of a query and a failure it matches (`Hits`): the metrics-only
  loss and what the customers hit add up to are that sum (`RowsAddUp`), the loss
  has for each row a pair, and a payment, of its own (`NetIsWithin`). It needs that
  the request names no flow twice (the legs ask once for each name, so a flow
  named twice is counted twice) and is scoped on labels the counters have
  (`Plain`), and finitely many payments.
- `GaugeIsTheSource`: `Spec => []GaugeSettles`, for the same requests. `GaugeInv`
  says what the samples are: Publishes are in order of time and their samples carry
  its time (`TimesInv`), each Publish put every payment it had under one set of
  labels, its samples are what those add up to, and both families have a sample
  where one has (`SamplesInv`), and a level that is not zero is published again at
  the next (`AgainInv`: a combo that empties is sent once more, as zero). Hence the
  last sample of a series before an instant is what the last Publish before it had
  under those labels, zero if it left the series out (`LevelShown`); the rows of
  the queries are one per series (`GaugeRows`), share no payment, and the zeros they
  drop hold none (`GaugeAddsUp`).
- `LossAlwaysLowersCoverage`: `Spec => []LossLowersCoverage`. `CaptureInv` ties the
  books to the telemetry: the emitter has one record per process, payment, stage and
  outcome (`RepeatInv`), the provider's succeeded intents are the recorded captures
  (`BooksInv`), and a walk lists every capture of before it and reads each as a
  success (`CaughtInv`). With `WalksCountOnce` the ledger's row of a flow and a
  currency is then the amount of its captures (`LedgerRows`, `BookedIsCaught`),
  and telemetry's figure is the amount of those the store has (`Telemetry`), so
  that it is less exactly when one is missing (`MoreRecords`, `SliceFacts`); the
  slices are those of the captures (`CoverageIs`), and the worst of finitely many
  ratios is below one exactly when one of them is (`WorstRatio`, `WorstBelowOne`;
  ratios are compared by their cross products). `FlowsAssumption`: the registry has
  the flow of every payment, with the stage the adapter records captures at as its
  value stage. Without the first Coverage answers an error, as it says it does;
  without the second telemetry is asked for a stage with no captures.

`LogQuerierProofs` (`LogQuerierAssumption`):

- `AnswersAreWhole`: `Spec => []AnswerWhole`. A job's result is of one log and
  misses nothing of the window unless it reached the limit (`Job`; the widened
  range includes the window, `WindowInside`); the rows are a prefix of it cut off
  at the token (`Prefix`), the whole of it if they are not taken for truncated
  (`NotTruncated`); the rows of a statement scanned so far are the groups without
  the empty one (`Scan`); and an answer depends on the relevant outcomes only
  (`AnswerFrom`). Entries of one time come in any order.

Only model-checked:

- Liveness (`EventuallySettled`, `CloseReturns`, `LeftMessagesLeaveGauges`,
  `ShutdownReturns`, `QueryReturns`): fairness and ENABLED are beyond the prover.
- `ShortfallMatchesDemand`: medians and roundings over whole stores. It needs an
  order statistic of a sorted sequence.

Where a proof needed an induction it was done by hand, as a least counterexample
(`FiniteHasMax`, `FlattenFacts`, `SmallestSet`), because the induction theorems of
the library take an operator.

## 5. Findings

- `payment_confirm`: a confirm without an answer is said to be an auth failure, but
  the value context is read off a create's parameter type only, and stripe-go's
  confirm has one of its own; a loss no webhook reports is not counted.
- `estimated_realized`: an estimated amount is said never to be reported as
  realized; it rides the outcome event, and the realized leg adds up events
  without looking at the flag.

Behaviour the models keep as the code has it. The properties are worded around it:

*Emitter and tracker.* A failed batch's drop counters are credited back even if the
backend took them (emitter.go:439-441 says re-crediting cannot double-count). An
outcome recorded after Close's last flush stays in the buffer. A full buffer counts
retries of admitted outcomes as overflow drops. At the metric cap the value gauge of
a sample may be kept and its count gauge dropped (emitter.go:480, against 275-276).
Unregistered stages share one gauge series and overwrite each other's level
(emitter.go:498-501 says sums stay complete). A transition failed, success, failed of
one key is suppressed in one process, although "transitions always emit"
(emitter.go:191-194). A Track may be refused below the bound while another worker's
roll-back is outstanding. The zero of an emptied bucket is published once
(inflight.go:321); when the export that carries it fails, the backend keeps the last
level although inflight.go:257-261 says a bucket that empties reads 0.

*Exporters.* A Shutdown of the OTLP exporter whose context has expired may still take
the slot, because select picks at random (otlp.go:117, against 108-109). A repeat
Shutdown answers nil although the first was abandoned and may still run. A repeat
Shutdown of the line exporters answers the sticky error of a failed flush, not nil.
Of two Prometheus samples with one timestamp the last applied wins.

*Stripe and engine.* A create that timed out but was processed is in the realized and
the deferred leg until it succeeds. A decline that one process saw long ago is
suppressed there when it comes again; if the payment was deferred in between, and the
first decline is older than the lookback, the payment stays in flight. The realized leg nets a failure by any success of
the window, also an earlier one and one of the entry stage. A canceled payment intent
stays in flight until it leaves the lookback. A flow named twice in a request is
counted twice; gross sums of the customers leg double with a redelivery to another
process. A pager that alternates between two pages is followed for ever, and a page
it repeats is counted before the walk stops (reconcile.go:108-117, against 44-45).
Reconcile has no upper bound in time while the telemetry window has one. A redelivered
capture can hide a lost one behind Coverage's clamp. The last hour of an unaligned
window is compared with a full baseline hour. Hours without traffic are not in the
history, so the median of a sparse flow is over its busy hours.

*Propagation and registry.* Header lines that together exceed the library's limit make
the middleware refuse the whole bag and stamp anew, a valid biz.vc included
(httpmw.go:137, against 112-113). A flow may be called "unregistered".

*Queriers.* cwinsights skips an outcome whose marker was destroyed, by design.
A table with NULL in a label column is outside the model: the filter `col = ''` of
sql.go:249 misses such rows, where the reference matches a missing label
(gcplogging.go:324 has an IFNULL for the case).

## 6. Not modelled

- Text: query strings and PromQL translation, rendering, CSV, log wording, flags, PII
  patterns, YAML and JSON decoding, signatures. The models say what a text decides,
  never its characters.
- The PromQL querier: one translated request and its decoding; no state, no retry.
- Incident adapters: one HTTP request per report.
- `distinct_count`, ordering and limits of event queries, which no leg asks for.
- Values that wrap: an int64 sum of a bucket or a leg.
- Stripe calls other than Call (CallStreaming, CallRaw, CallMultipart pass through).
- Test kit, examples and repository tools: not part of the running system.
