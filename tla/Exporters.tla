------------------------------ MODULE Exporters ------------------------------
(***************************************************************************)
(* Three exporters under concurrent flushes and Shutdowns: Google Cloud    *)
(* Logging and CloudWatch EMF (lines through one bufio.Writer), CloudWatch *)
(* with a metric putter (chunks of an API call), Prometheus (collectors    *)
(* in memory).  A behaviour is about one of them, `kind`.                  *)
(*                                                                         *)
(* A line is the unit of the buffer: bufio may split one, the model moves  *)
(* the boundary to the nearest line.                                       *)
(***************************************************************************)
EXTENDS Integers, Sequences, SequencesExt

CONSTANTS
    EventCalls, MetricCalls, Closers,  \* the calls of a behaviour
    Batch,      \* export call -> sequence of items
    BufLines,   \* lines the writer's buffer holds
    ChunkSize,  \* maxDatums: points per PutMetricData
    Nobody      \* the holder of an unlocked mutex

ExportCalls == EventCalls \cup MetricCalls
Kinds       == {"gcp", "emf", "put", "prometheus"}

ItemsOf(c)  == ToSet(Batch[c])
AllItems    == UNION {ItemsOf(c) : c \in ExportCalls}
Gauges      == {x \in AllItems : x.family = "gauge"}
SeriesNames == {x.series : x \in Gauges}
NoSample    == [series |-> "", at |-> 0]

\* A call exports one signal, and a record belongs to one call.
ASSUME ExportersAssumption ==
    /\ BufLines \in Nat \ {0} /\ ChunkSize \in Nat \ {0}
    /\ Nobody \notin ExportCalls \cup Closers
    /\ EventCalls \cap MetricCalls = {} /\ ExportCalls \cap Closers = {}
    /\ \A c \in ExportCalls :
          /\ Batch[c] \in Seq(AllItems)
          /\ \A d \in ExportCalls \ {c} : ItemsOf(c) \cap ItemsOf(d) = {}
    /\ \A x \in AllItems : x.at \in Nat /\ x.value \in Int

VARIABLES
    kind,    \* which exporter
    pc,      \* export call -> "idle", "write", "put", "apply", "done"
    pos,     \* export call -> items of its batch behind it
    mu,      \* Exporter.mu: who holds it
    closed,  \* Exporter.closed
    buf,     \* lines in the bufio.Writer
    werr,    \* its sticky error
    log,     \* lines the underlying writer has
    taken,   \* items the API or the collectors have
    shown,   \* gauge series -> sample last applied (inflightAt and the gauge)
    result,  \* call -> what it returned
    late     \* history: export calls begun after a Shutdown returned

writer == <<buf, werr, log>>
vars   == <<kind, pc, pos, mu, closed, writer, taken, shown, result, late>>

Down == \E s \in Closers : result[s] # "none"

Init ==
    /\ kind \in Kinds
    /\ pc = [c \in ExportCalls |-> "idle"] /\ pos = [c \in ExportCalls |-> 0]
    /\ mu = Nobody /\ closed = FALSE
    /\ buf = <<>> /\ werr = FALSE /\ log = <<>>
    /\ taken = {} /\ shown = [s \in SeriesNames |-> NoSample]
    /\ result = [c \in ExportCalls \cup Closers |-> "none"] /\ late = {}

Begins(c, place) ==
    /\ pc[c] = "idle"
    /\ pc' = [pc EXCEPT ![c] = place]
    /\ late' = IF Down THEN late \cup {c} ELSE late

Answers(c, answer) ==
    /\ pc' = [pc EXCEPT ![c] = "done"]
    /\ result' = [result EXCEPT ![c] = answer]

\* A signal the exporter does not declare: a no-op that answers nil.
Ignore(c) ==
    /\ Begins(c, "done") /\ result' = [result EXCEPT ![c] = "nil"]
    /\ UNCHANGED <<kind, pos, mu, closed, writer, taken, shown>>

GcpExportMetrics(c) == kind = "gcp" /\ c \in MetricCalls /\ Ignore(c)
PromExportEvents(c) == kind = "prometheus" /\ c \in EventCalls /\ Ignore(c)

\* Mutant of Refuses: Shutdown leaves the exporter open.
RefusesNever == FALSE

\* After Shutdown there is nothing left that would move the buffer.
Refuses == closed

\* Mutant of LockFree: nobody waits for mu.
LockFreeAlways == TRUE

LockFree == mu = Nobody

\* A call that writes lines takes the lock for its whole batch.
OpenLines(c) ==
    /\ LockFree
    /\ \/ Refuses /\ Begins(c, "done") /\ result' = [result EXCEPT ![c] = "refused"] /\ UNCHANGED mu
       \/ ~ Refuses /\ Begins(c, "write") /\ mu' = c /\ UNCHANGED result
    /\ UNCHANGED <<kind, pos, closed, writer, taken, shown>>

GcpExportEvents(c)    == kind = "gcp" /\ c \in EventCalls /\ OpenLines(c)
CwExportEvents(c)     == kind \in {"emf", "put"} /\ c \in EventCalls /\ OpenLines(c)
WriteMetricRecords(c) == kind = "emf" /\ c \in MetricCalls /\ OpenLines(c)

\* The writer under the buffer takes the first n lines, and fails unless
\* these are all.
Drain(n) ==
    /\ log' = log \o SubSeq(buf, 1, n)
    /\ werr' = (n < Len(buf))

\* Families with a dimension set of their own; any other is an error.
Known(x) == x.family # "unknown"

NextItem(c) == Batch[c][pos[c] + 1]
More(c)  == pos[c] < Len(Batch[c])

Room == Len(buf) < BufLines

WriteBuffered(c) ==
    /\ Known(NextItem(c)) /\ ~ werr /\ Room
    /\ buf' = Append(buf, NextItem(c)) /\ pos' = [pos EXCEPT ![c] = @ + 1]
    /\ UNCHANGED <<werr, log, mu, pc, result>>

WriteThrough(c) ==
    /\ Known(NextItem(c)) /\ ~ werr /\ ~ Room
    /\ Drain(Len(buf))
    /\ buf' = <<NextItem(c)>> /\ pos' = [pos EXCEPT ![c] = @ + 1]
    /\ UNCHANGED <<mu, pc, result>>

\* What the writer did not take stays in the buffer, and the error sticks.
WriteFails(c) ==
    /\ Known(NextItem(c)) /\ ~ werr /\ ~ Room
    /\ \E n \in 0 .. Len(buf) - 1 :
           Drain(n) /\ buf' = SubSeq(buf, n + 1, Len(buf))
    /\ mu' = Nobody /\ Answers(c, "error") /\ UNCHANGED pos

WriteRefused(c) ==
    /\ (~ Known(NextItem(c)) \/ werr)
    /\ mu' = Nobody /\ Answers(c, "error") /\ UNCHANGED <<pos, writer>>

WriteLine(c) ==
    /\ pc[c] = "write" /\ More(c)
    /\ (WriteBuffered(c) \/ WriteThrough(c) \/ WriteFails(c) \/ WriteRefused(c))
    /\ UNCHANGED <<kind, closed, taken, shown, late>>

\* ExportEvents answers nil although its lines may only be in the buffer.
WriteEnd(c) ==
    /\ pc[c] = "write" /\ ~ More(c)
    /\ mu' = Nobody /\ Answers(c, "nil")
    /\ UNCHANGED <<kind, pos, closed, writer, taken, shown, late>>

\* The putter path looks at closed under the lock and goes on without it.
\* The whole batch is converted before the first call of the API.
PutMetrics(c) ==
    /\ kind = "put" /\ c \in MetricCalls /\ LockFree
    /\ \/ /\ Refuses /\ Begins(c, "done") /\ result' = [result EXCEPT ![c] = "refused"]
       \/ /\ ~ Refuses /\ \E x \in ItemsOf(c) : ~ Known(x)
          /\ Begins(c, "done") /\ result' = [result EXCEPT ![c] = "error"]
       \/ ~ Refuses /\ (\A x \in ItemsOf(c) : Known(x)) /\ Begins(c, "put") /\ UNCHANGED result
    /\ UNCHANGED <<kind, pos, mu, closed, writer, taken, shown>>

Chunk(c) == ToSet(SubSeq(Batch[c], pos[c] + 1,
                         IF pos[c] + ChunkSize < Len(Batch[c]) THEN pos[c] + ChunkSize
                                                               ELSE Len(Batch[c])))

PutChunk(c) ==
    /\ pc[c] = "put" /\ More(c)
    /\ taken' = taken \cup Chunk(c)
    /\ pos' = [pos EXCEPT ![c] = @ + ChunkSize]
    /\ UNCHANGED <<kind, pc, mu, closed, writer, shown, result, late>>

\* The API takes the chunk and its answer is lost, or takes nothing.
PutFails(c) ==
    /\ pc[c] = "put" /\ More(c)
    /\ taken' \in {taken, taken \cup Chunk(c)}
    /\ Answers(c, "error")
    /\ UNCHANGED <<kind, pos, mu, closed, writer, shown, late>>

PutEnd(c) ==
    /\ pc[c] = "put" /\ ~ More(c) /\ Answers(c, "nil")
    /\ UNCHANGED <<kind, pos, mu, closed, writer, taken, shown, late>>

\* Prometheus applies point by point: no lock across points, no closed flag.
PromExportMetrics(c) ==
    /\ kind = "prometheus" /\ c \in MetricCalls /\ Begins(c, "apply")
    /\ UNCHANGED <<kind, pos, mu, closed, writer, taken, shown, result>>

AddCounter(c) ==
    /\ NextItem(c).family = "counter" /\ NextItem(c).value >= 0
    /\ taken' = taken \cup {NextItem(c)} /\ pos' = [pos EXCEPT ![c] = @ + 1]
    /\ UNCHANGED <<shown, pc, result>>

\* Mutant of Stale: whatever comes last is shown.
StaleNever(x) == FALSE

Stale(x) == x.at < shown[x.series].at

\* A sample older than the one applied last is dropped; a tie applies.
SetInflight(c) ==
    /\ NextItem(c).family = "gauge"
    /\ shown' = IF Stale(NextItem(c)) THEN shown
                ELSE [shown EXCEPT ![NextItem(c).series] = NextItem(c)]
    /\ taken' = taken \cup {NextItem(c)} /\ pos' = [pos EXCEPT ![c] = @ + 1]
    /\ UNCHANGED <<pc, result>>

ApplyFails(c) ==
    /\ \/ ~ Known(NextItem(c))
       \/ NextItem(c).family = "counter" /\ NextItem(c).value < 0
    /\ Answers(c, "error") /\ UNCHANGED <<shown, taken, pos>>

Apply(c) ==
    /\ pc[c] = "apply" /\ More(c)
    /\ (AddCounter(c) \/ SetInflight(c) \/ ApplyFails(c))
    /\ UNCHANGED <<kind, mu, closed, writer, late>>

ApplyEnd(c) ==
    /\ pc[c] = "apply" /\ ~ More(c) /\ Answers(c, "nil")
    /\ UNCHANGED <<kind, pos, mu, closed, writer, taken, shown, late>>

\* Shutdown marks the exporter closed, flush or no flush.
FlushOk ==
    /\ ~ werr /\ Drain(Len(buf)) /\ buf' = <<>>

FlushFails ==
    \/ werr /\ UNCHANGED writer
    \/ /\ ~ werr
       /\ \E n \in 0 .. Len(buf) - 1 : Drain(n) /\ buf' = SubSeq(buf, n + 1, Len(buf))

CloseWriter(s) ==
    /\ result[s] = "none" /\ LockFree
    /\ closed' = TRUE
    /\ \/ FlushOk /\ result' = [result EXCEPT ![s] = "nil"]
       \/ FlushFails /\ result' = [result EXCEPT ![s] = "error"]
    /\ UNCHANGED <<kind, pc, pos, mu, taken, shown, late>>

GcpShutdown(s) == kind = "gcp" /\ CloseWriter(s)
CwShutdown(s)  == kind \in {"emf", "put"} /\ CloseWriter(s)

\* Prometheus is scraped: there is nothing to flush.
PromShutdown(s) ==
    /\ kind = "prometheus" /\ result[s] = "none"
    /\ result' = [result EXCEPT ![s] = "nil"]
    /\ UNCHANGED <<kind, pc, pos, mu, closed, writer, taken, shown, late>>

ExportStep(c) ==
    \/ GcpExportMetrics(c) \/ PromExportEvents(c)
    \/ GcpExportEvents(c) \/ CwExportEvents(c) \/ WriteMetricRecords(c)
    \/ WriteLine(c) \/ WriteEnd(c)
    \/ PutMetrics(c) \/ PutChunk(c) \/ PutFails(c) \/ PutEnd(c)
    \/ PromExportMetrics(c) \/ Apply(c) \/ ApplyEnd(c)

Next == \/ \E c \in ExportCalls : ExportStep(c)
        \/ \E s \in Closers : GcpShutdown(s) \/ CwShutdown(s) \/ PromShutdown(s)

Spec == Init /\ [][Next]_vars
-----------------------------------------------------------------------------
TypeOK ==
    /\ kind \in Kinds /\ closed \in BOOLEAN /\ werr \in BOOLEAN
    /\ pc \in [ExportCalls -> {"idle", "write", "put", "apply", "done"}]
    /\ pos \in [ExportCalls -> Nat]
    /\ mu \in ExportCalls \cup {Nobody}
    /\ buf \in Seq(AllItems) /\ Len(buf) <= BufLines /\ log \in Seq(AllItems)
    /\ taken \subseteq AllItems
    /\ shown \in [SeriesNames -> Gauges \cup {NoSample}]
    /\ result \in [ExportCalls \cup Closers -> {"none", "nil", "error", "refused"}]
    /\ late \subseteq ExportCalls

Declared(c) == /\ kind = "gcp" => c \in EventCalls
               /\ kind = "prometheus" => c \in MetricCalls

Lines(c) == Declared(c) /\ kind # "prometheus" /\ (kind = "put" => c \in EventCalls)

\* A signal that is not declared is none of the contract's calls.
Phase(c) ==
    IF ~ Declared(c) \/ pc[c] = "idle" THEN "idle"
    ELSE CASE result[c] \in {"error", "refused"} -> "error"
           [] result[c] = "nil" -> "nil"
           [] OTHER -> IF c \in late THEN "late" ELSE "early"

Contract == INSTANCE ExporterContract WITH
    Sound <- {c \in ExportCalls : \A x \in ItemsOf(c) : Known(x) /\ x.value >= 0},
    phase <- [c \in ExportCalls |-> Phase(c)],
    backend <- ToSet(log) \cup taken,
    down <- Down, clean <- \E s \in Closers : result[s] = "nil"

\* Each exporter keeps the contract of emit.Exporter on the signals it
\* declares: a Shutdown that answers nil leaves nothing acknowledged behind,
\* also after a failed flush and a second Shutdown; an export that begins
\* after one is refused whole or works; one nil Shutdown is followed by no error.
ContractSpec == Contract!Spec

\* What was acknowledged is never torn, doubled or reordered: the lines of a
\* call that answered nil stand once and side by side in log and buffer,
\* whatever flushes, failures and other calls came between (mu around bufio).
AckedLinesKept ==
    \A c \in ExportCalls :
        result[c] = "nil" /\ Lines(c) =>
            LET lines == log \o buf
            IN  \E i \in 0 .. Len(lines) - Len(Batch[c]) :
                    /\ SubSeq(lines, i + 1, i + Len(Batch[c])) = Batch[c]
                    /\ \A j \in 1 .. Len(lines) :
                           lines[j] \in ItemsOf(c) => j \in i + 1 .. i + Len(Batch[c])

\* The gauge a scrape reads is the newest sample that any flush has brought,
\* in whatever order overlapping flushes brought them (setInflight: "a stale
\* sample from an out-of-order flush must not overwrite a fresher level").
GaugeShowsNewest ==
    kind = "prometheus" =>
        \A x \in taken \cap Gauges : shown[x.series].at >= x.at /\ shown[x.series] \in taken
=============================================================================
