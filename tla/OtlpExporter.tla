---------------------------- MODULE OtlpExporter ----------------------------
(***************************************************************************)
(* The OTLP exporter (src/adapters/export/otlp/otlp.go): ExportEvents,     *)
(* ExportMetrics and Shutdown called by any number of goroutines, each     *)
(* with a context that may expire at any time.  A call is a process; the   *)
(* records of a call are numbered.                                         *)
(*                                                                         *)
(* The OpenTelemetry SDK is external and modelled by what the comments and *)
(* tests of otlp.go rely on: the queue of the log processor overwrites its *)
(* oldest record when full, a stopped provider discards records and        *)
(* answers ForceFlush with nil, a provider whose Shutdown gets a context   *)
(* that ends too early is stopped but leaves its processor running, and a  *)
(* shut-down metric client answers with an error.                          *)
(***************************************************************************)
EXTENDS Naturals, FiniteSets, Sequences

CONSTANTS
    EventCalls, MetricCalls, ShutdownCalls,   \* the calls of a behaviour
    Free,               \* the holder of an empty semaphore
    QueueSize,          \* eventQueueSize: bound of the queue and of a chunk
    BatchSizes          \* bound of the model: numbers of outcomes in a batch

ExportCalls == EventCalls \cup MetricCalls
Calls       == ExportCalls \cup ShutdownCalls

ASSUME OtlpAssumption ==
    /\ QueueSize \in Nat \ {0} /\ BatchSizes \subseteq Nat \ {0}
    /\ EventCalls \cap MetricCalls = {} /\ ExportCalls \cap ShutdownCalls = {}
    /\ Free \notin Calls

VARIABLES
    shutdown,    \* Exporter.shutdown
    stopped,     \* providerSink.stopped
    sem,         \* who holds the sink's one slot
    pc,          \* call -> where it is
    expired,     \* calls whose context is done
    batch,       \* call -> number of records of its batch
    sent,        \* call -> number of records handed to the provider
    result,      \* call -> what it returned
    latched,     \* the provider is stopped
    processing,  \* its batch processor still runs
    queue,       \* the processor's queue
    metricsDown, \* the metric client is shut down
    delivered,   \* records the backend has
    first        \* history: the Shutdown that won the Swap

sdk  == <<latched, processing, queue, metricsDown, delivered>>
flags == <<shutdown, stopped, first>>
vars == <<flags, sem, pc, expired, batch, sent, result, sdk>>

Records      == Calls \X (Nat \ {0})
RecordsOf(c) == {c} \X (1 .. batch[c])

Init ==
    /\ shutdown = FALSE /\ stopped = FALSE /\ first = Free
    /\ sem = Free
    /\ pc = [c \in Calls |-> "idle"] /\ expired = {}
    /\ batch = [c \in Calls |-> 0] /\ sent = [c \in Calls |-> 0]
    /\ result = [c \in Calls |-> "none"]
    /\ latched = FALSE /\ processing = TRUE /\ queue = <<>>
    /\ metricsDown = FALSE /\ delivered = {}

Goto(c, where) ==
    /\ pc' = [pc EXCEPT ![c] = where]
    /\ UNCHANGED expired

\* The call returns; its context no longer matters.
Return(c, err) ==
    /\ pc' = [pc EXCEPT ![c] = "returned"]
    /\ result' = [result EXCEPT ![c] = err]
    /\ expired' = expired \ {c}

\* The context of a call ends: cancelled, or its deadline has passed.  Nothing
\* looks at it before acquire; a metric client may fail anyway.
Expire(c) ==
    /\ c \notin expired
    /\ pc[c] \in {"acquire", "select", "acquired", "emit", "flush"}
    /\ expired' = expired \cup {c}
    /\ UNCHANGED <<flags, sem, pc, batch, sent, result, sdk>>
-----------------------------------------------------------------------------
(* The sink's slot *)

\* acquire looks at the context first, then selects.
AcquireCheck(c) ==
    /\ pc[c] = "acquire"
    /\ \/ c \in expired /\ Return(c, "ctx")
       \/ c \notin expired /\ Goto(c, "select") /\ UNCHANGED result
    /\ UNCHANGED <<flags, sem, batch, sent, sdk>>

\* Mutant of SlotFree: overlapping calls are not kept apart.
SlotFreeAlways == TRUE

SlotFree == sem = Free

\* select takes the slot, also when the context is done as well.
AcquireTake(c) ==
    /\ pc[c] = "select"
    /\ SlotFree
    /\ sem' = c
    /\ Goto(c, "acquired")
    /\ UNCHANGED <<flags, batch, sent, result, sdk>>

\* Mutant of GiveUp: the wait cannot be cancelled.
GiveUpNever(c) == FALSE

\* select finds the context done.
GiveUp(c) ==
    /\ pc[c] = "select" /\ c \in expired
    /\ Return(c, "ctx")
    /\ UNCHANGED <<flags, sem, batch, sent, sdk>>

Acquire(c) == AcquireCheck(c) \/ AcquireTake(c) \/ GiveUp(c)

Release == sem' = Free
-----------------------------------------------------------------------------
(* ExportEvents *)

\* ExportEvents of a batch that is not empty, before and after Shutdown.
ExportEvents(c) ==
    /\ c \in EventCalls /\ pc[c] = "idle"
    /\ \E n \in BatchSizes : batch' = [batch EXCEPT ![c] = n]
    /\ \/ shutdown /\ Return(c, "shutdown")
       \/ ~ shutdown /\ Goto(c, "acquire") /\ UNCHANGED result
    /\ UNCHANGED <<flags, sem, sent, sdk>>

\* emit holds the slot and looks at stopped.
EmitStart(c) ==
    /\ c \in EventCalls /\ pc[c] = "acquired"
    /\ \/ stopped /\ Return(c, "shutdown") /\ Release
       \/ ~ stopped /\ Goto(c, "emit") /\ UNCHANGED <<sem, result>>
    /\ UNCHANGED <<flags, batch, sent, sdk>>

\* Where the chunk that starts after the records sent so far ends.
ChunkEnd(c) == IF sent[c] + QueueSize < batch[c] THEN sent[c] + QueueSize ELSE batch[c]

\* The queue after more records: when full it overwrites its oldest ones.
Enqueued(records) ==
    LET all == queue \o records
    IN  IF Len(all) <= QueueSize THEN all
        ELSE SubSeq(all, Len(all) - QueueSize + 1, Len(all))

\* emitChunk hands every record of a chunk to the logger.
EmitChunk(c) ==
    /\ pc[c] = "emit"
    /\ sent' = [sent EXCEPT ![c] = ChunkEnd(c)]
    /\ queue' = IF latched THEN queue
                ELSE Enqueued([i \in 1 .. ChunkEnd(c) - sent[c] |-> <<c, sent[c] + i>>])
    /\ Goto(c, "flush")
    /\ UNCHANGED <<flags, sem, batch, result, latched, processing, metricsDown,
                   delivered>>

InQueue == {queue[i] : i \in DOMAIN queue}

\* ForceFlush returns nil: the queue is delivered, or the provider is stopped
\* and nothing happens.
FlushOk(c) ==
    /\ pc[c] = "flush"
    /\ IF latched THEN UNCHANGED <<queue, delivered>>
       ELSE delivered' = delivered \cup InQueue /\ queue' = <<>>
    /\ \/ sent[c] < batch[c] /\ Goto(c, "emit") /\ UNCHANGED <<sem, result>>
       \/ sent[c] = batch[c] /\ Return(c, "nil") /\ Release
    /\ UNCHANGED <<flags, batch, sent, latched, processing, metricsDown>>

\* ForceFlush fails: a part of the queue has been delivered, and what has not
\* is thrown away or, when the context ended first, still queued.  emit returns
\* the error; the chunks behind it are not sent.
FlushFail(c) ==
    /\ pc[c] = "flush" /\ ~ latched
    /\ \E part \in SUBSET InQueue : delivered' = delivered \cup part
    /\ queue' = <<>> \/ (c \in expired /\ UNCHANGED queue)
    /\ Return(c, "export") /\ Release
    /\ UNCHANGED <<flags, batch, sent, latched, processing, metricsDown>>

EmitStep(c) == EmitStart(c) \/ EmitChunk(c) \/ FlushOk(c) \/ FlushFail(c)
-----------------------------------------------------------------------------
(* ExportMetrics *)

\* ExportMetrics of a batch that is not empty, whose points are not told
\* apart; a batch with a family it does not know is refused whole.
ExportMetrics(c) ==
    /\ c \in MetricCalls /\ pc[c] = "idle"
    /\ batch' = [batch EXCEPT ![c] = 1]
    /\ \/ shutdown /\ Return(c, "shutdown")
       \/ ~ shutdown /\ Return(c, "unknownFamily")
       \/ ~ shutdown /\ Goto(c, "export") /\ UNCHANGED result
    /\ UNCHANGED <<flags, sem, sent, sdk>>

\* The metric client answers: it took the batch, or failed after a part of
\* it, as it always does once it is shut down.
MetricsExported(c) ==
    /\ c \in MetricCalls /\ pc[c] = "export"
    /\ \/ /\ ~ metricsDown
          /\ delivered' = delivered \cup RecordsOf(c)
          /\ Return(c, "nil")
       \/ /\ \E part \in SUBSET (IF metricsDown THEN {} ELSE RecordsOf(c)) :
                delivered' = delivered \cup part
          /\ Return(c, "export")
    /\ UNCHANGED <<flags, sem, batch, sent, latched, processing, queue,
                   metricsDown>>
-----------------------------------------------------------------------------
(* Shutdown *)

\* Exporter.Shutdown: only the first call does anything.
ShutdownBegin(c) ==
    /\ c \in ShutdownCalls /\ pc[c] = "idle"
    /\ shutdown' = TRUE
    /\ \/ shutdown /\ Return(c, "nil") /\ UNCHANGED first
       \/ ~ shutdown /\ Goto(c, "metrics") /\ first' = c /\ UNCHANGED result
    /\ UNCHANGED <<stopped, sem, batch, sent, sdk>>

\* The metric leg; its error does not keep the log leg from running.
ShutdownMetrics(c) ==
    /\ pc[c] = "metrics"
    /\ metricsDown' = TRUE
    /\ \E err \in {"none", "metrics"} : result' = [result EXCEPT ![c] = err]
    /\ Goto(c, "mark")
    /\ UNCHANGED <<flags, sem, batch, sent, latched, processing, queue,
                   delivered>>

\* The log leg marks the sink stopped and goes on to wait for the slot.
ShutdownMark(c) ==
    /\ pc[c] = "mark"
    /\ stopped' = TRUE
    /\ Goto(c, "acquire")
    /\ UNCHANGED <<shutdown, first, sem, batch, sent, result, sdk>>

\* errors.Join of both legs.
Joined(c, err) == IF err = "none" /\ result[c] = "none" THEN "nil" ELSE "failed"

\* provider.Shutdown in time: the processor exports what is queued and ends.
ProviderDown(c) ==
    /\ c \in ShutdownCalls /\ pc[c] = "acquired"
    /\ c \notin expired
    /\ latched' = TRUE /\ processing' = FALSE /\ queue' = <<>>
    /\ \/ delivered' = delivered \cup InQueue /\ Return(c, Joined(c, "none"))
       \/ /\ \E part \in SUBSET InQueue : delivered' = delivered \cup part
          /\ Return(c, Joined(c, "logs"))
    /\ Release
    /\ UNCHANGED <<flags, batch, sent, metricsDown>>

\* Mutant of ProviderStranded: the sink drops the provider's error.
ProviderStrandedSilently(c) ==
    /\ c \in ShutdownCalls /\ pc[c] = "acquired"
    /\ c \in expired
    /\ latched' = TRUE
    /\ Return(c, Joined(c, "none"))
    /\ Release
    /\ UNCHANGED <<flags, batch, sent, processing, queue, metricsDown,
                   delivered>>

\* provider.Shutdown with a context that is done: stopped, but not down.
ProviderStranded(c) ==
    /\ c \in ShutdownCalls /\ pc[c] = "acquired"
    /\ c \in expired
    /\ latched' = TRUE
    /\ Return(c, Joined(c, "logs"))
    /\ Release
    /\ UNCHANGED <<flags, batch, sent, processing, queue, metricsDown,
                   delivered>>

ShutdownStep(c) == \/ ShutdownMetrics(c) \/ ShutdownMark(c)
                   \/ ProviderDown(c) \/ ProviderStranded(c)
-----------------------------------------------------------------------------
\* The processor exports on its own.  When that fails the SDK tells neither
\* emit nor ForceFlush; the model has such exports succeed.
Background ==
    /\ processing /\ queue # <<>>
    /\ delivered' = delivered \cup InQueue
    /\ queue' = <<>>
    /\ UNCHANGED <<flags, sem, pc, expired, batch, sent, result, latched, processing,
                   metricsDown>>

Next == \/ \E c \in Calls : \/ Expire(c)
                            \/ ExportEvents(c) \/ Acquire(c) \/ EmitStep(c)
                            \/ ExportMetrics(c) \/ MetricsExported(c)
                            \/ ShutdownBegin(c) \/ ShutdownStep(c)
        \/ Background

Spec == Init /\ [][Next]_vars

\* Goroutines run, and a Shutdown has a deadline; an export may hang for ever.
FairSpec ==
    /\ Spec
    /\ \A c \in Calls : WF_vars(Acquire(c))
    /\ \A c \in EventCalls : WF_vars(EmitStart(c))
    /\ \A c \in ShutdownCalls : WF_vars(Expire(c)) /\ WF_vars(ShutdownStep(c))
-----------------------------------------------------------------------------
(* Properties *)

TypeOK ==
    /\ shutdown \in BOOLEAN /\ stopped \in BOOLEAN /\ first \in ShutdownCalls \cup {Free}
    /\ sem \in Calls \cup {Free}
    /\ pc \in [Calls -> {"idle", "acquire", "select", "acquired", "emit", "flush",
                         "export", "metrics", "mark", "returned"}]
    /\ expired \subseteq Calls
    /\ batch \in [Calls -> BatchSizes \cup {0, 1}]
    /\ sent \in [Calls -> Nat] /\ \A c \in Calls : sent[c] <= batch[c]
    /\ result \in [Calls -> {"none", "nil", "ctx", "shutdown", "export",
                             "unknownFamily", "metrics", "failed"}]
    /\ latched \in BOOLEAN /\ processing \in BOOLEAN /\ metricsDown \in BOOLEAN
    /\ queue \in Seq(Records) /\ Len(queue) <= QueueSize
    /\ delivered \subseteq Records

\* The records of a call that have been handed to the provider.
SentOf(c) == {c} \X (1 .. sent[c])

\* The inductive strengthening of NilMeansDelivered: the slot is held from
\* acquire to the return, the provider is stopped only by a holder and after
\* stopped was set, so an emit that found stopped unset has a live provider to
\* its end, and what it sent is delivered or, before the flush, still queued
\* (providerSink.stopped: "That ordering is the whole point").
SinkInv ==
    /\ \A c \in Calls :
          /\ pc[c] \in {"acquired", "emit", "flush"} => sem = c
          /\ pc[c] \in {"emit", "flush"} => ~ latched
          /\ pc[c] = "emit" => SentOf(c) \subseteq delivered
          /\ pc[c] = "flush" => SentOf(c) \subseteq delivered \cup InQueue
    /\ \A c \in ShutdownCalls : pc[c] \in {"acquire", "select", "acquired"} => stopped
    /\ latched => stopped

\* A nil from an export means the backend has the whole batch: overlapping
\* calls never overflow the queue, and no Shutdown, in time or abandoned,
\* stops the provider under a batch (providerSink.emit: "a dropped outcome
\* must be counted, never silent").
NilMeansDelivered ==
    \A c \in ExportCalls : result[c] = "nil" => RecordsOf(c) \subseteq delivered

\* After a Shutdown that did its work and returned nil nothing moves any more:
\* neither a call that was under way nor the processor delivers anything.
QuietAfterShutdown ==
    [][first # Free /\ pc[first] = "returned" /\ result[first] = "nil"
       => delivered' = delivered]_vars

\* Shutdown returns by its deadline although an export may hang for ever with
\* the slot (sem: "a Shutdown that ignored its ctx could pin a SIGTERM handler").
ShutdownReturns ==
    \A c \in ShutdownCalls : pc[c] = "metrics" ~> pc[c] = "returned"

=============================================================================
