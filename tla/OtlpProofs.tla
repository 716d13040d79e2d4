----------------------------- MODULE OtlpProofs -----------------------------
(***************************************************************************)
(* OtlpExporter keeps its word: a nil from an export means delivered.      *)
(***************************************************************************)
EXTENDS OtlpExporter, TLAPS

\* Which call is where: only event calls emit, a call that has not emitted has
\* sent nothing, and one that has not begun has no result.
Roles ==
    \A c \in Calls :
        /\ pc[c] \in {"emit", "flush"} => c \in EventCalls
        /\ pc[c] \notin {"emit", "flush", "export", "returned"} => sent[c] = 0
        /\ pc[c] = "idle" => result[c] = "none"
        /\ pc[c] = "export" => c \in MetricCalls
        /\ c \in MetricCalls => pc[c] \in {"idle", "export", "returned"}
        /\ c \in EventCalls => pc[c] \notin {"metrics", "mark"}

IInv == TypeOK /\ Roles /\ SinkInv /\ NilMeansDelivered

\* The last records of a queue that takes at most QueueSize new ones are
\* exactly these, so none of them is overwritten.
LEMMA NothingOverwritten ==
    ASSUME NEW R, queue \in Seq(R), Len(queue) <= QueueSize,
           NEW records \in Seq(R), Len(records) <= QueueSize
    PROVE  /\ Enqueued(records) \in Seq(R)
           /\ Len(Enqueued(records)) <= QueueSize
           /\ \A i \in 1 .. Len(records) :
                 \E j \in 1 .. Len(Enqueued(records)) : Enqueued(records)[j] = records[i]
<1> DEFINE all == queue \o records
           cut == Len(all) - QueueSize
<1>1. /\ all \in Seq(R) /\ Len(all) = Len(queue) + Len(records)
      /\ \A i \in 1 .. Len(records) : all[Len(queue) + i] = records[i]
  OBVIOUS
<1>2. QueueSize \in Nat \ {0} /\ Len(queue) \in Nat /\ Len(records) \in Nat
  BY OtlpAssumption
<1>3. CASE Len(all) <= QueueSize
  <2>1. Enqueued(records) = all
    BY <1>3 DEF Enqueued
  <2>2. ASSUME NEW i \in 1 .. Len(records)
        PROVE  \E j \in 1 .. Len(all) : all[j] = records[i]
    <3>1. Len(queue) + i \in 1 .. Len(all)
      BY <1>1, <1>2
    <3> QED
      BY <3>1, <1>1
  <2> QED
    BY <2>1, <2>2, <1>1, <1>3
<1>4. CASE ~ (Len(all) <= QueueSize)
  <2>1. Enqueued(records) = SubSeq(all, cut + 1, Len(all))
    BY <1>4 DEF Enqueued
  <2>2. cut \in Nat /\ cut + 1 \in 1 .. Len(all) + 1 /\ cut + QueueSize = Len(all)
    BY <1>1, <1>2, <1>4
  <2>3. /\ SubSeq(all, cut + 1, Len(all)) \in Seq(R)
        /\ Len(SubSeq(all, cut + 1, Len(all))) = QueueSize
        /\ \A j \in 1 .. QueueSize : SubSeq(all, cut + 1, Len(all))[j] = all[cut + j]
    BY <1>1, <1>2, <2>2
  <2>4. ASSUME NEW i \in 1 .. Len(records)
        PROVE  \E j \in 1 .. QueueSize : all[cut + j] = records[i]
    <3>1. /\ Len(queue) + i - cut \in 1 .. QueueSize
          /\ cut + (Len(queue) + i - cut) = Len(queue) + i
      BY <1>1, <1>2, <1>4
    <3> QED
      BY <3>1, <1>1
  <2> HIDE DEF all, cut
  <2> QED
    BY <2>1, <2>3, <2>4, <1>2
<1> QED
  BY <1>3, <1>4
-----------------------------------------------------------------------------
LEMMA InitIInv == Init => IInv
<1> SUFFICES ASSUME Init PROVE IInv
  OBVIOUS
<1>1. TypeOK
  <2>1. queue = <<>> /\ queue \in Seq(Records) /\ Len(queue) = 0
    BY DEF Init
  <2>2. sent \in [Calls -> Nat] /\ \A c \in Calls : sent[c] <= batch[c]
    BY DEF Init
  <2>3. Len(queue) <= QueueSize
    BY <2>1, OtlpAssumption
  <2> QED
    BY <2>1, <2>2, <2>3 DEF Init, TypeOK
<1>2. Roles /\ SinkInv /\ NilMeansDelivered
  BY OtlpAssumption DEF Init, Roles, SinkInv, NilMeansDelivered, ExportCalls, Calls
<1> QED
  BY <1>1, <1>2 DEF IInv
-----------------------------------------------------------------------------
Places  == {"idle", "acquire", "select", "acquired", "emit", "flush", "export", "metrics",
            "mark", "returned"}
Results == {"none", "nil", "ctx", "shutdown", "export", "unknownFamily", "metrics", "failed"}

\* A call that moves on keeps the types of its place, context and result.
LEMMA GotoTypes ==
    ASSUME TypeOK, NEW c \in Calls, NEW where \in Places, Goto(c, where)
    PROVE  pc' \in [Calls -> Places] /\ expired' \subseteq Calls
  BY DEF TypeOK, Places, Goto

\* So does one that returns.
LEMMA ReturnTypes ==
    ASSUME TypeOK, NEW c \in Calls, NEW err \in Results, Return(c, err)
    PROVE  /\ pc' \in [Calls -> Places] /\ expired' \subseteq Calls
           /\ result' \in [Calls -> Results]
<1>1. pc' \in [Calls -> Places] /\ expired' \subseteq Calls
  BY DEF TypeOK, Places, Return
<1>2. result' \in [Calls -> Results]
  BY DEF TypeOK, Results, Return
<1> QED
  BY <1>1, <1>2

\* The types hold again once they hold of the parts.
LEMMA TypesFromParts ==
    ASSUME shutdown' \in BOOLEAN, stopped' \in BOOLEAN, first' \in ShutdownCalls \cup {Free},
           sem' \in Calls \cup {Free},
           pc' \in [Calls -> Places], expired' \subseteq Calls, result' \in [Calls -> Results],
           batch' \in [Calls -> BatchSizes \cup {0, 1}],
           sent' \in [Calls -> Nat], \A c \in Calls : sent'[c] <= batch'[c],
           latched' \in BOOLEAN, processing' \in BOOLEAN, metricsDown' \in BOOLEAN,
           queue' \in Seq(Records), Len(queue') <= QueueSize, delivered' \subseteq Records
    PROVE  TypeOK'
  BY DEF TypeOK, Places, Results
-----------------------------------------------------------------------------
(* The steps that hand nothing to the backend and take nothing from it *)

LEMMA ExpireKeeps == ASSUME IInv, NEW c \in Calls, Expire(c) PROVE IInv'
<1> USE OtlpAssumption DEF ExportCalls, Calls, flags, sdk, Expire
<1>1. TypeOK'
  <2>1. expired' \subseteq Calls /\ UNCHANGED <<pc, result>>
    BY DEF IInv, TypeOK
  <2>2. /\ UNCHANGED <<shutdown, stopped, first, batch, sent, latched, processing, metricsDown, queue,
                    delivered>>
        /\ sem' \in Calls \cup {Free}
    BY DEF IInv, TypeOK
  <2> QED
    BY <2>1, <2>2, TypesFromParts DEF IInv, TypeOK, Places, Results
<1>2. Roles'
  BY DEF IInv, TypeOK, Roles
<1>3. SinkInv'
  BY DEF IInv, TypeOK, Roles, SinkInv, SentOf, InQueue
<1>4. NilMeansDelivered'
  BY DEF IInv, TypeOK, Roles, NilMeansDelivered, RecordsOf
<1> QED
  BY <1>1, <1>2, <1>3, <1>4 DEF IInv

LEMMA AcquireCheckKeeps == ASSUME IInv, NEW c \in Calls, AcquireCheck(c) PROVE IInv'
<1> USE OtlpAssumption DEF ExportCalls, Calls, flags, sdk, AcquireCheck, Goto, Return
<1>1. TypeOK'
  <2>1. TypeOK /\ "ctx" \in Results /\ "select" \in Places
    BY DEF IInv, Results, Places
  <2> HIDE DEF Goto, Return
  <2>2. Return(c, "ctx") \/ (Goto(c, "select") /\ UNCHANGED result)
    BY DEF AcquireCheck
  <2>3. pc' \in [Calls -> Places] /\ expired' \subseteq Calls
    BY <2>1, <2>2, GotoTypes, ReturnTypes
  <2>4. result' \in [Calls -> Results]
    BY <2>1, <2>2, ReturnTypes DEF TypeOK, Results
  <2>5. /\ UNCHANGED <<shutdown, stopped, first, batch, sent, latched, processing, metricsDown, queue,
                    delivered>>
        /\ sem' \in Calls \cup {Free}
    BY DEF IInv, TypeOK
  <2> QED
    BY <2>1, <2>3, <2>4, <2>5, TypesFromParts DEF IInv, TypeOK, Places, Results
<1>2. Roles'
  <2>1. /\ pc[c] = "acquire" /\ UNCHANGED sent
        /\ pc' = [pc EXCEPT ![c] = "returned"] \/ pc' = [pc EXCEPT ![c] = "select"]
        /\ \A d \in Calls : d # c => result'[d] = result[d]
    BY DEF IInv, TypeOK
  <2>2. \A d \in Calls : pc'[d] = pc[d] \/ (d = c /\ pc'[d] \in {"returned", "select"})
    BY <2>1 DEF IInv, TypeOK
  <2> HIDE DEF AcquireCheck
  <2>3. ASSUME NEW d \in Calls, d # c
        PROVE  pc'[d] = pc[d] /\ sent'[d] = sent[d] /\ result'[d] = result[d]
    BY <2>1, <2>2, <2>3
  <2>4. pc'[c] \in {"returned", "select"} /\ sent'[c] = 0 /\ (c \in MetricCalls => FALSE)
    BY <2>1 DEF IInv, TypeOK, Roles
  <2> QED
    BY <2>3, <2>4 DEF IInv, Roles
<1>3. SinkInv'
  BY DEF IInv, TypeOK, Roles, SinkInv, SentOf, InQueue
<1>4. NilMeansDelivered'
  BY DEF IInv, TypeOK, Roles, NilMeansDelivered, RecordsOf
<1> QED
  BY <1>1, <1>2, <1>3, <1>4 DEF IInv

LEMMA AcquireTakeKeeps == ASSUME IInv, NEW c \in Calls, AcquireTake(c) PROVE IInv'
<1> USE OtlpAssumption DEF ExportCalls, Calls, flags, sdk, AcquireTake, SlotFree, Goto
<1>1. TypeOK'
  <2>1. TypeOK /\ "acquired" \in Places
    BY DEF IInv, Places
  <2> HIDE DEF Goto
  <2>2. pc' \in [Calls -> Places] /\ expired' \subseteq Calls
    BY <2>1, GotoTypes DEF AcquireTake
  <2>3. UNCHANGED result
    BY DEF AcquireTake
  <2>4. /\ UNCHANGED <<shutdown, stopped, first, batch, sent, latched, processing, metricsDown, queue,
                    delivered>>
        /\ sem' \in Calls \cup {Free}
    BY DEF IInv, TypeOK
  <2> QED
    BY <2>1, <2>2, <2>3, <2>4, TypesFromParts DEF IInv, TypeOK, Places, Results
<1>2. Roles'
  BY DEF IInv, TypeOK, Roles
<1>3. SinkInv'
  BY DEF IInv, TypeOK, Roles, SinkInv, SentOf, InQueue
<1>4. NilMeansDelivered'
  BY DEF IInv, TypeOK, Roles, NilMeansDelivered, RecordsOf
<1> QED
  BY <1>1, <1>2, <1>3, <1>4 DEF IInv

LEMMA GiveUpKeeps == ASSUME IInv, NEW c \in Calls, GiveUp(c) PROVE IInv'
<1> USE OtlpAssumption DEF ExportCalls, Calls, flags, sdk, GiveUp, Return
<1>1. TypeOK'
  <2>1. TypeOK /\ "ctx" \in Results
    BY DEF IInv, Results
  <2> HIDE DEF Return
  <2>2. pc' \in [Calls -> Places] /\ expired' \subseteq Calls /\ result' \in [Calls -> Results]
    BY <2>1, ReturnTypes DEF GiveUp
  <2>3. /\ UNCHANGED <<shutdown, stopped, first, batch, sent, latched, processing, metricsDown, queue,
                    delivered>>
        /\ sem' \in Calls \cup {Free}
    BY DEF IInv, TypeOK
  <2> QED
    BY <2>1, <2>2, <2>3, TypesFromParts DEF IInv, TypeOK, Places, Results
<1>2. Roles'
  BY DEF IInv, TypeOK, Roles
<1>3. SinkInv'
  BY DEF IInv, TypeOK, Roles, SinkInv, SentOf, InQueue
<1>4. NilMeansDelivered'
  BY DEF IInv, TypeOK, Roles, NilMeansDelivered, RecordsOf
<1> QED
  BY <1>1, <1>2, <1>3, <1>4 DEF IInv

LEMMA ExportEventsKeeps == ASSUME IInv, NEW c \in Calls, ExportEvents(c) PROVE IInv'
<1> USE OtlpAssumption DEF ExportCalls, Calls, flags, sdk, ExportEvents, Goto, Return
<1>1. TypeOK'
  <2>1. sent[c] = 0
    BY DEF IInv, Roles
  <2>2. sent' \in [Calls -> Nat] /\ \A d \in Calls : sent'[d] <= batch'[d]
    BY <2>1 DEF IInv, TypeOK
  <2>3. /\ pc' \in [Calls -> {"idle", "acquire", "select", "acquired", "emit", "flush",
                            "export", "metrics", "mark", "returned"}]
        /\ batch' \in [Calls -> BatchSizes \cup {0, 1}] /\ expired' \subseteq Calls
    BY DEF IInv, TypeOK
  <2>4. result' \in [Calls -> {"none", "nil", "ctx", "shutdown", "export",
                            "unknownFamily", "metrics", "failed"}]
    BY DEF IInv, TypeOK
  <2> QED
    BY <2>2, <2>3, <2>4 DEF IInv, TypeOK
<1>2. Roles'
  BY DEF IInv, TypeOK, Roles
<1>3. SinkInv'
  BY DEF IInv, TypeOK, Roles, SinkInv, SentOf, InQueue
<1>4. NilMeansDelivered'
  BY DEF IInv, TypeOK, Roles, NilMeansDelivered, RecordsOf
<1> QED
  BY <1>1, <1>2, <1>3, <1>4 DEF IInv

LEMMA EmitStartKeeps == ASSUME IInv, NEW c \in Calls, EmitStart(c) PROVE IInv'
<1> USE OtlpAssumption DEF ExportCalls, Calls, flags, sdk, EmitStart, Release, Goto, Return
<1>1. TypeOK'
  <2>1. TypeOK /\ "shutdown" \in Results /\ "emit" \in Places
    BY DEF IInv, Results, Places
  <2> HIDE DEF Goto, Return
  <2>2. Return(c, "shutdown") \/ (Goto(c, "emit") /\ UNCHANGED result)
    BY DEF EmitStart
  <2>3. pc' \in [Calls -> Places] /\ expired' \subseteq Calls
    BY <2>1, <2>2, GotoTypes, ReturnTypes
  <2>4. result' \in [Calls -> Results]
    BY <2>1, <2>2, ReturnTypes DEF TypeOK, Results
  <2>5. /\ UNCHANGED <<shutdown, stopped, first, batch, sent, latched, processing, metricsDown, queue,
                    delivered>>
        /\ sem' \in Calls \cup {Free}
    BY DEF IInv, TypeOK
  <2> QED
    BY <2>1, <2>3, <2>4, <2>5, TypesFromParts DEF IInv, TypeOK, Places, Results
<1>2. Roles'
  BY DEF IInv, TypeOK, Roles
<1>3. SinkInv'
  BY DEF IInv, TypeOK, Roles, SinkInv, SentOf, InQueue
<1>4. NilMeansDelivered'
  BY DEF IInv, TypeOK, Roles, NilMeansDelivered, RecordsOf
<1> QED
  BY <1>1, <1>2, <1>3, <1>4 DEF IInv

LEMMA ExportMetricsKeeps == ASSUME IInv, NEW c \in Calls, ExportMetrics(c) PROVE IInv'
<1> USE OtlpAssumption DEF ExportCalls, Calls, flags, sdk, ExportMetrics, Goto, Return
<1>1. TypeOK'
  <2>1. sent[c] = 0
    BY DEF IInv, Roles
  <2>2. sent' \in [Calls -> Nat] /\ \A d \in Calls : sent'[d] <= batch'[d]
    BY <2>1 DEF IInv, TypeOK
  <2>3. /\ pc' \in [Calls -> {"idle", "acquire", "select", "acquired", "emit", "flush",
                            "export", "metrics", "mark", "returned"}]
        /\ batch' \in [Calls -> BatchSizes \cup {0, 1}] /\ expired' \subseteq Calls
    BY DEF IInv, TypeOK
  <2>4. result' \in [Calls -> {"none", "nil", "ctx", "shutdown", "export",
                            "unknownFamily", "metrics", "failed"}]
    BY DEF IInv, TypeOK
  <2> QED
    BY <2>2, <2>3, <2>4 DEF IInv, TypeOK
<1>2. Roles'
  BY DEF IInv, TypeOK, Roles
<1>3. SinkInv'
  BY DEF IInv, TypeOK, Roles, SinkInv, SentOf, InQueue
<1>4. NilMeansDelivered'
  BY DEF IInv, TypeOK, Roles, NilMeansDelivered, RecordsOf
<1> QED
  BY <1>1, <1>2, <1>3, <1>4 DEF IInv

LEMMA ShutdownBeginKeeps == ASSUME IInv, NEW c \in Calls, ShutdownBegin(c) PROVE IInv'
<1> USE OtlpAssumption DEF ExportCalls, Calls, flags, sdk, ShutdownBegin, Goto, Return
<1>1. TypeOK'
  <2>1. TypeOK /\ "nil" \in Results /\ "metrics" \in Places
    BY DEF IInv, Results, Places
  <2> HIDE DEF Goto, Return
  <2>2. Return(c, "nil") \/ (Goto(c, "metrics") /\ UNCHANGED result)
    BY DEF ShutdownBegin
  <2>3. pc' \in [Calls -> Places] /\ expired' \subseteq Calls
    BY <2>1, <2>2, GotoTypes, ReturnTypes
  <2>4. result' \in [Calls -> Results]
    BY <2>1, <2>2, ReturnTypes DEF TypeOK, Results
  <2>5. shutdown' \in BOOLEAN /\ first' \in ShutdownCalls \cup {Free}
    BY <2>1 DEF TypeOK
  <2>6. /\ UNCHANGED <<stopped, batch, sent, latched, processing, metricsDown, queue, delivered>>
        /\ sem' \in Calls \cup {Free}
    BY DEF IInv, TypeOK
  <2> QED
    BY <2>1, <2>3, <2>4, <2>5, <2>6, TypesFromParts DEF IInv, TypeOK, Places, Results
<1>2. Roles'
  BY DEF IInv, TypeOK, Roles
<1>3. SinkInv'
  BY DEF IInv, TypeOK, Roles, SinkInv, SentOf, InQueue
<1>4. NilMeansDelivered'
  BY DEF IInv, TypeOK, Roles, NilMeansDelivered, RecordsOf
<1> QED
  BY <1>1, <1>2, <1>3, <1>4 DEF IInv

LEMMA ShutdownMetricsKeeps == ASSUME IInv, NEW c \in Calls, ShutdownMetrics(c) PROVE IInv'
<1> USE OtlpAssumption DEF ExportCalls, Calls, flags, sdk, ShutdownMetrics, Goto
<1>1. TypeOK'
  <2>1. TypeOK /\ "mark" \in Places
    BY DEF IInv, Places
  <2> HIDE DEF Goto
  <2>2. pc' \in [Calls -> Places] /\ expired' \subseteq Calls
    BY <2>1, GotoTypes DEF ShutdownMetrics
  <2>3. result' \in [Calls -> Results] /\ metricsDown' \in BOOLEAN
    BY <2>1 DEF TypeOK, Results
  <2>4. /\ UNCHANGED <<shutdown, stopped, first, batch, sent, latched, processing, queue, delivered>>
        /\ sem' \in Calls \cup {Free}
    BY DEF IInv, TypeOK
  <2> QED
    BY <2>1, <2>2, <2>3, <2>4, TypesFromParts DEF IInv, TypeOK, Places, Results
<1>2. Roles'
  BY DEF IInv, TypeOK, Roles
<1>3. SinkInv'
  BY DEF IInv, TypeOK, Roles, SinkInv, SentOf, InQueue
<1>4. NilMeansDelivered'
  BY DEF IInv, TypeOK, Roles, NilMeansDelivered, RecordsOf
<1> QED
  BY <1>1, <1>2, <1>3, <1>4 DEF IInv

LEMMA ShutdownMarkKeeps == ASSUME IInv, NEW c \in Calls, ShutdownMark(c) PROVE IInv'
<1> USE OtlpAssumption DEF ExportCalls, Calls, flags, sdk, ShutdownMark, Goto
<1>1. TypeOK'
  <2>1. TypeOK /\ "acquire" \in Places
    BY DEF IInv, Places
  <2> HIDE DEF Goto
  <2>2. pc' \in [Calls -> Places] /\ expired' \subseteq Calls
    BY <2>1, GotoTypes DEF ShutdownMark
  <2>3. stopped' \in BOOLEAN /\ UNCHANGED result
    BY DEF ShutdownMark
  <2>4. /\ UNCHANGED <<shutdown, first, batch, sent, latched, processing, metricsDown, queue, delivered>>
        /\ sem' \in Calls \cup {Free}
    BY DEF IInv, TypeOK
  <2> QED
    BY <2>1, <2>2, <2>3, <2>4, TypesFromParts DEF IInv, TypeOK, Places, Results
<1>2. Roles'
  BY DEF IInv, TypeOK, Roles
<1>3. SinkInv'
  BY DEF IInv, TypeOK, Roles, SinkInv, SentOf, InQueue
<1>4. NilMeansDelivered'
  BY DEF IInv, TypeOK, Roles, NilMeansDelivered, RecordsOf
<1> QED
  BY <1>1, <1>2, <1>3, <1>4 DEF IInv
-----------------------------------------------------------------------------
(* The steps that move records *)

\* After a flush that returned nil the backend has what was queued.
LEMMA FlushOkKeeps == ASSUME IInv, NEW c \in Calls, FlushOk(c) PROVE IInv'
<1> USE OtlpAssumption DEF ExportCalls, Calls, flags, FlushOk, Release, Goto, Return
<1>1. ~ latched /\ sem = c /\ c \in EventCalls /\ queue' = <<>>
      /\ delivered' = delivered \cup InQueue /\ SentOf(c) \subseteq delivered'
  BY DEF IInv, Roles, SinkInv
<1>2. InQueue \subseteq Records
  BY DEF IInv, TypeOK, InQueue
<1>3. Len(queue') = 0 /\ queue' \in Seq(Records)
  BY <1>1
<1>4. \A d \in Calls : d # c => pc'[d] = pc[d] /\ pc[d] \notin {"acquired", "emit", "flush"}
  BY <1>1 DEF IInv, TypeOK, SinkInv
<1>5. TypeOK'
  <2>1. TypeOK /\ "nil" \in Results /\ "emit" \in Places
    BY DEF IInv, Results, Places
  <2> HIDE DEF Goto, Return
  <2>2. Return(c, "nil") \/ (Goto(c, "emit") /\ UNCHANGED result)
    BY DEF FlushOk
  <2>3. pc' \in [Calls -> Places] /\ expired' \subseteq Calls
    BY <2>1, <2>2, GotoTypes, ReturnTypes
  <2>4. result' \in [Calls -> Results]
    BY <2>1, <2>2, ReturnTypes DEF TypeOK, Results
  <2>5. /\ UNCHANGED <<shutdown, stopped, first, batch, sent, latched, processing, metricsDown>>
        /\ sem' \in Calls \cup {Free}
    BY <2>1 DEF TypeOK
  <2>6. delivered' \subseteq Records
    BY <1>1, <1>2, <2>1 DEF TypeOK
  <2>7. queue' \in Seq(Records) /\ Len(queue') <= QueueSize
    BY <1>3
  <2> QED
    BY <2>1, <2>3, <2>4, <2>5, <2>6, <2>7, TypesFromParts DEF TypeOK
<1>6. Roles'
  BY <1>1 DEF IInv, TypeOK, Roles
<1>7. SinkInv'
  BY <1>1, <1>4 DEF IInv, TypeOK, SinkInv, SentOf
<1>8. NilMeansDelivered'
  BY <1>1, <1>4 DEF IInv, TypeOK, NilMeansDelivered, RecordsOf, SentOf
<1> QED
  BY <1>5, <1>6, <1>7, <1>8 DEF IInv

LEMMA FlushFailKeeps == ASSUME IInv, NEW c \in Calls, FlushFail(c) PROVE IInv'
<1> USE OtlpAssumption DEF ExportCalls, Calls, flags, Release, Return
<1>1. /\ pc[c] = "flush" /\ sem = c /\ c \in EventCalls /\ ~ latched
      /\ pc' = [pc EXCEPT ![c] = "returned"] /\ result' = [result EXCEPT ![c] = "export"]
      /\ expired' = expired \ {c} /\ sem' = Free
      /\ UNCHANGED <<shutdown, stopped, first, batch, sent, latched, processing, metricsDown>>
  BY DEF IInv, Roles, SinkInv, FlushFail
<1>2. InQueue \subseteq Records
  BY DEF IInv, TypeOK, InQueue
<1>3. <<>> \in Seq(Records) /\ Len(<<>>) <= QueueSize
  OBVIOUS
<1>4. queue' \in Seq(Records) /\ Len(queue') <= QueueSize
  <2>1. queue' = <<>> \/ queue' = queue
    BY DEF FlushFail
  <2> QED
    BY <1>3, <2>1 DEF IInv, TypeOK
<1>5. delivered \subseteq delivered' /\ delivered' \subseteq delivered \cup InQueue
  BY DEF FlushFail
<1>6. \A d \in Calls : d # c => pc'[d] = pc[d] /\ pc[d] \notin {"acquired", "emit", "flush"}
  BY <1>1 DEF IInv, TypeOK, SinkInv
<1>7. TypeOK'
  BY <1>1, <1>2, <1>4, <1>5 DEF IInv, TypeOK
<1>8. Roles'
  BY <1>1 DEF IInv, TypeOK, Roles
<1>9. SinkInv'
  BY <1>1, <1>6 DEF IInv, TypeOK, SinkInv
<1>10. NilMeansDelivered'
  BY <1>1, <1>5 DEF IInv, TypeOK, NilMeansDelivered, RecordsOf
<1> QED
  BY <1>7, <1>8, <1>9, <1>10 DEF IInv

\* The records of a chunk are all in the queue behind the chunk.
LEMMA EmitChunkKeeps == ASSUME IInv, NEW c \in Calls, EmitChunk(c) PROVE IInv'
<1> USE OtlpAssumption DEF ExportCalls, Calls, flags
<1> DEFINE size == ChunkEnd(c) - sent[c]
           records == [i \in 1 .. size |-> <<c, sent[c] + i>>]
<1>1. /\ pc[c] = "emit" /\ sem = c /\ c \in EventCalls /\ ~ latched
      /\ SentOf(c) \subseteq delivered
      /\ sent' = [sent EXCEPT ![c] = ChunkEnd(c)]
      /\ queue' = Enqueued(records)
      /\ pc' = [pc EXCEPT ![c] = "flush"]
      /\ UNCHANGED <<shutdown, stopped, first, sem, expired, batch, result, latched,
                     processing, metricsDown, delivered>>
  BY DEF EmitChunk, Goto, IInv, Roles, SinkInv
<1>2. sent[c] \in Nat /\ batch[c] \in Nat /\ sent[c] <= batch[c] /\ QueueSize \in Nat \ {0}
  <2>1. sent[c] \in Nat /\ sent[c] <= batch[c] /\ batch[c] \in BatchSizes \cup {0, 1}
    BY DEF IInv, TypeOK
  <2>2. BatchSizes \subseteq Nat /\ QueueSize \in Nat \ {0}
    OBVIOUS
  <2>3. 0 \in Nat /\ 1 \in Nat
    OBVIOUS
  <2>4. batch[c] \in Nat
    BY <2>1, <2>2, <2>3, Zenon
  <2> QED
    BY <2>1, <2>2, <2>4
<1>3. /\ ChunkEnd(c) \in Nat /\ sent[c] <= ChunkEnd(c) /\ ChunkEnd(c) <= batch[c]
      /\ size \in Nat /\ size <= QueueSize
  BY <1>2 DEF ChunkEnd
<1>4. \A i \in 1 .. size : <<c, sent[c] + i>> \in Records
  BY <1>2, <1>3 DEF Records
<1>5. records \in Seq(Records) /\ Len(records) = size
  BY <1>3, <1>4
<1>6. queue \in Seq(Records) /\ Len(queue) <= QueueSize
  BY DEF IInv, TypeOK
<1> HIDE DEF records
<1>7. /\ queue' \in Seq(Records) /\ Len(queue') <= QueueSize
      /\ \A i \in 1 .. size : \E j \in 1 .. Len(queue') : queue'[j] = records[i]
  BY <1>1, <1>3, <1>5, <1>6, NothingOverwritten
<1>8. ASSUME NEW i \in 1 .. size
      PROVE  <<c, sent[c] + i>> \in InQueue'
  <2>1. PICK j \in 1 .. Len(queue') : queue'[j] = records[i]
    BY <1>7
  <2>2. j \in DOMAIN queue'
    BY <1>7, <2>1
  <2>3. records[i] = <<c, sent[c] + i>>
    BY DEF records
  <2> QED
    BY <2>1, <2>2, <2>3 DEF InQueue
<1>9. ASSUME NEW k \in 1 .. ChunkEnd(c)
      PROVE  <<c, k>> \in delivered \cup InQueue'
  <2>1. CASE k <= sent[c]
    BY <2>1, <1>1, <1>2 DEF SentOf
  <2>2. CASE k > sent[c]
    <3>1. k - sent[c] \in 1 .. size /\ sent[c] + (k - sent[c]) = k
      BY <2>2, <1>2, <1>3
    <3> QED
      BY <3>1, <1>8
  <2> QED
    BY <2>1, <2>2, <1>2, <1>3
<1>10. SentOf(c)' \subseteq delivered' \cup InQueue'
  <2>1. sent'[c] = ChunkEnd(c)
    BY <1>1 DEF IInv, TypeOK
  <2> QED
    BY <2>1, <1>1, <1>9 DEF SentOf
<1>11. \A d \in Calls : d # c => pc'[d] = pc[d] /\ pc[d] \notin {"acquired", "emit", "flush"}
  BY <1>1 DEF IInv, TypeOK, SinkInv
<1>12. TypeOK'
  BY <1>1, <1>3, <1>7 DEF IInv, TypeOK
<1>13. Roles'
  BY <1>1 DEF IInv, TypeOK, Roles
<1>14. SinkInv'
  BY <1>1, <1>10, <1>11 DEF IInv, TypeOK, SinkInv
<1>15. NilMeansDelivered'
  BY <1>1 DEF IInv, TypeOK, NilMeansDelivered, RecordsOf
<1> QED
  BY <1>12, <1>13, <1>14, <1>15 DEF IInv

LEMMA MetricsExportedKeeps == ASSUME IInv, NEW c \in Calls, MetricsExported(c) PROVE IInv'
<1> USE OtlpAssumption DEF ExportCalls, Calls, flags, Return
<1>1. /\ c \in MetricCalls /\ pc[c] = "export" /\ pc' = [pc EXCEPT ![c] = "returned"]
      /\ expired' = expired \ {c}
      /\ UNCHANGED <<shutdown, stopped, first, sem, batch, sent, latched, processing,
                     queue, metricsDown>>
  BY DEF MetricsExported
<1>2. RecordsOf(c) \subseteq Records
  BY <1>1 DEF IInv, TypeOK, RecordsOf, Records
<1>3. delivered \subseteq delivered' /\ delivered' \subseteq delivered \cup RecordsOf(c)
  BY DEF MetricsExported
<1>4. \/ result' = [result EXCEPT ![c] = "nil"] /\ RecordsOf(c) \subseteq delivered'
      \/ result' = [result EXCEPT ![c] = "export"]
  BY DEF MetricsExported
<1>5. TypeOK'
  BY <1>1, <1>2, <1>3, <1>4 DEF IInv, TypeOK
<1>6. Roles'
  BY <1>1, <1>4 DEF IInv, TypeOK, Roles
<1>7. SinkInv'
  BY <1>1, <1>3 DEF IInv, TypeOK, Roles, SinkInv, SentOf, InQueue
<1>8. NilMeansDelivered'
  BY <1>1, <1>3, <1>4 DEF IInv, TypeOK, NilMeansDelivered, RecordsOf
<1> QED
  BY <1>5, <1>6, <1>7, <1>8 DEF IInv

LEMMA ProviderDownKeeps == ASSUME IInv, NEW c \in Calls, ProviderDown(c) PROVE IInv'
<1> USE OtlpAssumption DEF ExportCalls, Calls, flags, Release, Return, Joined
<1>1. /\ c \in ShutdownCalls /\ pc[c] = "acquired" /\ sem = c /\ stopped
      /\ pc' = [pc EXCEPT ![c] = "returned"] /\ expired' = expired \ {c}
      /\ latched' = TRUE /\ sem' = Free
      /\ UNCHANGED <<shutdown, stopped, first, batch, sent, metricsDown>>
  BY DEF IInv, SinkInv, ProviderDown
<1>2. \E err \in {"nil", "failed"} : result' = [result EXCEPT ![c] = err]
  BY DEF ProviderDown
<1>3. InQueue \subseteq Records
  BY DEF IInv, TypeOK, InQueue
<1>4. delivered \subseteq delivered' /\ delivered' \subseteq delivered \cup InQueue
  BY DEF ProviderDown
<1>5. <<>> \in Seq(Records) /\ Len(<<>>) <= QueueSize
  OBVIOUS
<1>6. queue' \in Seq(Records) /\ Len(queue') <= QueueSize /\ processing' \in BOOLEAN
  <2>1. (queue' = <<>> \/ queue' = queue) /\ (processing' = FALSE \/ processing' = processing)
    BY DEF ProviderDown
  <2> QED
    BY <1>5, <2>1 DEF IInv, TypeOK
<1>7. \A d \in Calls : d # c => pc'[d] = pc[d] /\ pc[d] \notin {"acquired", "emit", "flush"}
  BY <1>1 DEF IInv, TypeOK, SinkInv
<1>8. TypeOK'
  BY <1>1, <1>2, <1>3, <1>4, <1>6 DEF IInv, TypeOK
<1>9. Roles'
  BY <1>1, <1>2 DEF IInv, TypeOK, Roles
<1>10. SinkInv'
  BY <1>1, <1>7 DEF IInv, TypeOK, SinkInv
<1>11. NilMeansDelivered'
  BY <1>1, <1>2, <1>4 DEF IInv, TypeOK, NilMeansDelivered, RecordsOf
<1> QED
  BY <1>8, <1>9, <1>10, <1>11 DEF IInv

LEMMA ProviderStrandedKeeps == ASSUME IInv, NEW c \in Calls, ProviderStranded(c) PROVE IInv'
<1> USE OtlpAssumption DEF ExportCalls, Calls, flags, Release, Return, Joined
<1>1. /\ c \in ShutdownCalls /\ pc[c] = "acquired" /\ sem = c /\ stopped
      /\ pc' = [pc EXCEPT ![c] = "returned"] /\ expired' = expired \ {c}
      /\ latched' = TRUE /\ sem' = Free
      /\ UNCHANGED <<shutdown, stopped, first, batch, sent, metricsDown>>
  BY DEF IInv, SinkInv, ProviderStranded
<1>2. \E err \in {"nil", "failed"} : result' = [result EXCEPT ![c] = err]
  BY DEF ProviderStranded
<1>3. InQueue \subseteq Records
  BY DEF IInv, TypeOK, InQueue
<1>4. delivered \subseteq delivered' /\ delivered' \subseteq delivered \cup InQueue
  BY DEF ProviderStranded
<1>5. <<>> \in Seq(Records) /\ Len(<<>>) <= QueueSize
  OBVIOUS
<1>6. queue' \in Seq(Records) /\ Len(queue') <= QueueSize /\ processing' \in BOOLEAN
  <2>1. (queue' = <<>> \/ queue' = queue) /\ (processing' = FALSE \/ processing' = processing)
    BY DEF ProviderStranded
  <2> QED
    BY <1>5, <2>1 DEF IInv, TypeOK
<1>7. \A d \in Calls : d # c => pc'[d] = pc[d] /\ pc[d] \notin {"acquired", "emit", "flush"}
  BY <1>1 DEF IInv, TypeOK, SinkInv
<1>8. TypeOK'
  BY <1>1, <1>2, <1>3, <1>4, <1>6 DEF IInv, TypeOK
<1>9. Roles'
  BY <1>1, <1>2 DEF IInv, TypeOK, Roles
<1>10. SinkInv'
  BY <1>1, <1>7 DEF IInv, TypeOK, SinkInv
<1>11. NilMeansDelivered'
  BY <1>1, <1>2, <1>4 DEF IInv, TypeOK, NilMeansDelivered, RecordsOf
<1> QED
  BY <1>8, <1>9, <1>10, <1>11 DEF IInv

LEMMA BackgroundKeeps == ASSUME IInv, Background PROVE IInv'
<1> USE DEF flags, Background
<1>1. InQueue \subseteq Records /\ Len(<<>>) = 0 /\ <<>> \in Seq(Records)
  BY DEF IInv, TypeOK, InQueue
<1>2. TypeOK'
  BY <1>1, OtlpAssumption DEF IInv, TypeOK
<1>3. Roles' /\ SinkInv' /\ NilMeansDelivered'
  BY DEF IInv, Roles, SinkInv, SentOf, NilMeansDelivered, RecordsOf
<1> QED
  BY <1>2, <1>3 DEF IInv
-----------------------------------------------------------------------------
LEMMA StepIInv == IInv /\ [Next]_vars => IInv'
<1> SUFFICES ASSUME IInv, [Next]_vars PROVE IInv'
  OBVIOUS
<1>1. ASSUME NEW c \in Calls, Acquire(c) PROVE IInv'
  BY <1>1, AcquireCheckKeeps, AcquireTakeKeeps, GiveUpKeeps DEF Acquire
<1>2. ASSUME NEW c \in Calls, EmitStep(c) PROVE IInv'
  BY <1>2, EmitStartKeeps, EmitChunkKeeps, FlushOkKeeps, FlushFailKeeps DEF EmitStep
<1>3. ASSUME NEW c \in Calls, ShutdownStep(c) PROVE IInv'
  BY <1>3, ShutdownMetricsKeeps, ShutdownMarkKeeps, ProviderDownKeeps,
     ProviderStrandedKeeps DEF ShutdownStep
<1>4. ASSUME NEW c \in Calls,
             Expire(c) \/ ExportEvents(c) \/ ExportMetrics(c) \/ MetricsExported(c) \/ ShutdownBegin(c)
      PROVE  IInv'
  BY <1>4, ExpireKeeps, ExportEventsKeeps, ExportMetricsKeeps, MetricsExportedKeeps,
     ShutdownBeginKeeps
<1>5. CASE UNCHANGED vars
  BY <1>5 DEF IInv, TypeOK, Roles, SinkInv, NilMeansDelivered, vars, flags, sdk, RecordsOf,
              SentOf, InQueue
<1> QED
  BY <1>1, <1>2, <1>3, <1>4, <1>5, BackgroundKeeps DEF Next

\* For any numbers of exports and Shutdowns, any sizes of queue and batches and
\* any expiry of contexts: an export that returned nil has been delivered whole.
THEOREM NilIsDelivered == Spec => []NilMeansDelivered
<1>1. IInv => NilMeansDelivered
  BY DEF IInv
<1> QED
  BY InitIInv, StepIInv, <1>1, PTL DEF Spec
-----------------------------------------------------------------------------
(* Shutdown *)

\* Only the Shutdown that won the Swap does anything.  It has shut the metric
\* client down when its first leg is over, and a nil says that the provider is
\* stopped and its processor has ended, too.
DownInv ==
    /\ ~ shutdown => first = Free
    /\ first # Free => pc[first] # "idle"
    /\ \A c \in ShutdownCalls :
          /\ pc[c] \notin {"idle", "returned"} => c = first
          /\ pc[c] = "metrics" => result[c] = "none"
          /\ pc[c] \in {"mark", "acquire", "select", "acquired"} =>
                metricsDown /\ result[c] \in {"none", "metrics"}
    /\ first # Free /\ pc[first] = "returned" /\ result[first] = "nil" =>
          metricsDown /\ latched /\ ~ processing

\* Steps of exports, and of contexts that end, leave it alone.
LEMMA ExportsKeepDown ==
    ASSUME IInv, DownInv, NEW c \in Calls, Expire(c) \/ ExportEvents(c) \/ EmitStep(c)
                                         \/ ExportMetrics(c) \/ MetricsExported(c)
    PROVE  DownInv'
<1>1. UNCHANGED <<shutdown, first, metricsDown, latched, processing>>
  BY DEF Expire, ExportEvents, EmitStep, EmitStart, EmitChunk, FlushOk, FlushFail, ExportMetrics,
     MetricsExported, flags, sdk
<1>2. c \in ExportCalls \/ UNCHANGED <<pc, result>>
  BY DEF Expire, ExportEvents, EmitStep, EmitStart, EmitChunk, FlushOk, FlushFail, ExportMetrics,
     MetricsExported, ExportCalls, IInv, Roles
<1>3. \A d \in Calls : d # c => pc'[d] = pc[d] /\ result'[d] = result[d]
  BY DEF Expire, ExportEvents, EmitStep, EmitStart, EmitChunk, FlushOk, FlushFail, ExportMetrics,
     MetricsExported, Goto, Return, IInv, TypeOK
<1>4. \A d \in ShutdownCalls : pc'[d] = pc[d] /\ result'[d] = result[d]
  BY <1>2, <1>3, OtlpAssumption DEF Calls
<1>5. first # Free => first \in ShutdownCalls
  BY DEF IInv, TypeOK
<1> QED
  BY <1>1, <1>4, <1>5 DEF DownInv

LEMMA AcquireKeepsDown ==
    ASSUME IInv, DownInv, NEW c \in Calls, Acquire(c)
    PROVE  DownInv'
<1>1. UNCHANGED <<shutdown, first, metricsDown, latched, processing>>
  BY DEF Acquire, AcquireCheck, AcquireTake, GiveUp, flags, sdk
<1>2. \A d \in Calls : d # c => pc'[d] = pc[d] /\ result'[d] = result[d]
  BY DEF Acquire, AcquireCheck, AcquireTake, GiveUp, Goto, Return, IInv, TypeOK
<1>3. /\ pc[c] \in {"acquire", "select"}
      /\ \/ pc'[c] \in {"select", "acquired"} /\ result'[c] = result[c]
         \/ pc'[c] = "returned" /\ result'[c] = "ctx"
  BY DEF Acquire, AcquireCheck, AcquireTake, GiveUp, Goto, Return, IInv, TypeOK
<1>4. first # Free => first \in ShutdownCalls
  BY DEF IInv, TypeOK
<1> QED
  BY <1>1, <1>2, <1>3, <1>4 DEF DownInv, Calls

LEMMA ShutdownKeepsDown ==
    ASSUME IInv, DownInv, NEW c \in Calls, ShutdownBegin(c) \/ ShutdownStep(c)
    PROVE  DownInv'
<1>0. /\ c \in ShutdownCalls
      /\ \A d \in Calls : d # c => pc'[d] = pc[d] /\ result'[d] = result[d]
      /\ first # Free => first \in ShutdownCalls
      /\ Free \notin ShutdownCalls
  BY OtlpAssumption DEF ShutdownBegin, ShutdownStep, ShutdownMetrics, ShutdownMark, ProviderDown, ProviderStranded,
     Goto, Return, IInv, TypeOK, Roles, Calls, ExportCalls
<1>1. CASE ShutdownBegin(c)
  <2>1. /\ pc[c] = "idle" /\ result[c] = "none" /\ shutdown' = TRUE
        /\ UNCHANGED <<metricsDown, latched, processing>>
    BY <1>0, <1>1 DEF ShutdownBegin, sdk, IInv, Roles
  <2>2. CASE shutdown /\ first' = first /\ pc'[c] = "returned"
    BY <1>0, <2>1, <2>2 DEF DownInv, Calls
  <2>3. CASE ~ shutdown /\ first' = c /\ pc'[c] = "metrics" /\ result' = result
    BY <1>0, <2>1, <2>3 DEF DownInv, Calls
  <2> QED
    BY <1>1, <2>2, <2>3 DEF ShutdownBegin, Goto, Return, IInv, TypeOK
<1>2. CASE ShutdownMetrics(c)
  <2>1. /\ pc[c] = "metrics" /\ pc'[c] = "mark" /\ metricsDown' = TRUE
        /\ result'[c] \in {"none", "metrics"}
        /\ UNCHANGED <<shutdown, first, latched, processing>>
    BY <1>2 DEF ShutdownMetrics, Goto, flags, IInv, TypeOK
  <2> QED
    BY <1>0, <2>1 DEF DownInv, Calls
<1>3. CASE ShutdownMark(c)
  <2>1. /\ pc[c] = "mark" /\ pc'[c] = "acquire" /\ result'[c] = result[c]
        /\ UNCHANGED <<shutdown, first, metricsDown, latched, processing>>
    BY <1>3 DEF ShutdownMark, Goto, sdk, IInv, TypeOK
  <2> QED
    BY <1>0, <2>1 DEF DownInv, Calls
<1>4. CASE ProviderDown(c) \/ ProviderStranded(c)
  <2>1. /\ pc[c] = "acquired" /\ pc'[c] = "returned" /\ latched' = TRUE
        /\ result'[c] = "nil" => processing' = FALSE
        /\ UNCHANGED <<shutdown, first, metricsDown>>
    BY <1>4 DEF ProviderDown, ProviderStranded, Return, Joined, flags, IInv, TypeOK
  <2> QED
    BY <1>0, <2>1 DEF DownInv, Calls
<1> QED
  BY <1>1, <1>2, <1>3, <1>4 DEF ShutdownStep

LEMMA StepDownInv == IInv /\ DownInv /\ [Next]_vars => DownInv'
<1>1. ASSUME DownInv, Background \/ UNCHANGED vars PROVE DownInv'
  BY <1>1 DEF DownInv, Background, vars, flags, sdk
<1> QED
  BY <1>1, ExportsKeepDown, AcquireKeepsDown, ShutdownKeepsDown DEF Next

\* After a Shutdown that returned nil nothing more is delivered: not by an
\* export that was under way, not by another Shutdown, not by the processor.
THEOREM ShutdownIsQuiet == Spec => QuietAfterShutdown
<1>1. Init => DownInv
  BY OtlpAssumption DEF Init, DownInv, Calls
<1>2. ASSUME IInv, DownInv, [Next]_vars,
             first # Free /\ pc[first] = "returned" /\ result[first] = "nil"
      PROVE  delivered' = delivered
  <2>1. metricsDown /\ latched /\ ~ processing
    BY <1>2 DEF DownInv
  <2>2. ASSUME NEW c \in Calls, MetricsExported(c) PROVE delivered' = delivered
    BY <2>1, <2>2 DEF MetricsExported
  <2>3. ASSUME NEW c \in Calls, EmitStep(c) PROVE delivered' = delivered
    BY <2>1, <2>3 DEF EmitStep, EmitStart, EmitChunk, FlushOk, FlushFail, sdk
  <2>4. ASSUME NEW c \in Calls, ShutdownBegin(c) \/ ShutdownStep(c) PROVE delivered' = delivered
    <3>1. pc[c] # "acquired" \/ c \notin ShutdownCalls
      BY <1>2 DEF DownInv
    <3> QED
      BY <2>4, <3>1 DEF ShutdownBegin, ShutdownStep, ShutdownMetrics, ShutdownMark, ProviderDown, ProviderStranded, sdk
  <2>5. ASSUME NEW c \in Calls, Expire(c) \/ ExportEvents(c) \/ Acquire(c) \/ ExportMetrics(c)
        PROVE  delivered' = delivered
    BY <2>5 DEF Expire, ExportEvents, Acquire, AcquireCheck, AcquireTake, GiveUp, ExportMetrics, sdk
  <2>6. CASE Background \/ UNCHANGED vars
    BY <2>1, <2>6 DEF Background, vars, sdk
  <2> QED
    BY <1>2, <2>2, <2>3, <2>4, <2>5, <2>6 DEF Next
<1> QED
  BY <1>1, <1>2, InitIInv, StepIInv, StepDownInv, PTL DEF Spec, QuietAfterShutdown

=============================================================================
