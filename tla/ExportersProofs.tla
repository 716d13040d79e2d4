--------------------------- MODULE ExportersProofs ---------------------------
(***************************************************************************)
(* The exporters under concurrent flushes: what was acknowledged stands    *)
(* whole in the stream of lines, and a gauge shows its newest sample.      *)
(***************************************************************************)
EXTENDS Exporters, SequenceTheorems, TLAPS

\* What has been written, flushed or not: a flush moves the border only.
stream == log \o buf

\* The first n items of c's batch stand at i + 1 .. i + n, and nowhere else.
Stands(c, i, n) ==
    /\ \A k \in 1 .. n : stream[i + k] = Batch[c][k]
    /\ \A j \in 1 .. Len(stream) : stream[j] \in ItemsOf(c) => j \in i + 1 .. i + n

\* Who is where, and what an answer says about it.
Roles ==
    \A c \in ExportCalls :
        /\ pc[c] = "idle" => pos[c] = 0
        /\ pc[c] # "done" => result[c] = "none"
        /\ pc[c] = "put" => kind = "put" /\ c \in MetricCalls
        /\ pc[c] = "apply" => kind = "prometheus"
        /\ mu = c <=> pc[c] = "write"

\* An idle call has written nothing; the holder of mu has its lines at the end;
\* an acknowledged call has them all.
LinesOfCall(c) ==
    /\ pc[c] = "idle" => \A j \in 1 .. Len(stream) : stream[j] \notin ItemsOf(c)
    /\ pc[c] = "write" => /\ pos[c] <= Len(Batch[c]) /\ pos[c] <= Len(stream)
                          /\ Stands(c, Len(stream) - pos[c], pos[c])
    /\ (result[c] = "nil" /\ Lines(c)) =>
           \E i \in 0 .. Len(stream) - Len(Batch[c]) : Stands(c, i, Len(Batch[c]))

LinesInv == \A c \in ExportCalls : LinesOfCall(c)

\* A series shows what somebody brought, or nothing yet.
ShownTaken == \A s \in SeriesNames : shown[s] \in taken \cup {NoSample}

GaugeInv == ShownTaken /\ GaugeShowsNewest

IInv == TypeOK /\ Roles /\ LinesInv /\ GaugeInv
-----------------------------------------------------------------------------
LEMMA BatchFacts ==
    ASSUME NEW c \in ExportCalls
    PROVE  /\ Batch[c] \in Seq(AllItems) /\ Len(Batch[c]) \in Nat
           /\ \A k \in 1 .. Len(Batch[c]) : Batch[c][k] \in ItemsOf(c)
           /\ ItemsOf(c) \subseteq AllItems
<1>1. Batch[c] \in Seq(AllItems)
  BY ExportersAssumption
<1>2. \A k \in 1 .. Len(Batch[c]) : Batch[c][k] \in ItemsOf(c)
  BY <1>1 DEF ItemsOf, ToSet
<1> QED
  BY <1>1, <1>2 DEF AllItems

LEMMA NextItemFacts ==
    ASSUME IInv, NEW c \in ExportCalls, More(c)
    PROVE  /\ NextItem(c) \in ItemsOf(c) /\ NextItem(c) \in AllItems
           /\ NextItem(c).at \in Nat
           /\ pos[c] + 1 \in 1 .. Len(Batch[c]) /\ NextItem(c) = Batch[c][pos[c] + 1]
<1>1. pos[c] + 1 \in 1 .. Len(Batch[c])
  BY BatchFacts DEF More, IInv, TypeOK
<1> QED
  BY <1>1, BatchFacts, ExportersAssumption DEF NextItem

LEMMA ChunkFacts ==
    ASSUME IInv, NEW c \in ExportCalls, More(c)
    PROVE  Chunk(c) \subseteq AllItems
<1> DEFINE end == IF pos[c] + ChunkSize < Len(Batch[c]) THEN pos[c] + ChunkSize
                                                         ELSE Len(Batch[c])
<1>1. Batch[c] \in Seq(AllItems) /\ pos[c] \in Nat /\ pos[c] < Len(Batch[c])
  BY BatchFacts DEF More, IInv, TypeOK
<1>2. pos[c] + 1 \in 1 .. Len(Batch[c]) /\ end \in pos[c] + 1 .. Len(Batch[c])
  BY <1>1, ExportersAssumption
<1> HIDE DEF end
<1>3. SubSeq(Batch[c], pos[c] + 1, end) \in Seq(AllItems)
  BY <1>1, <1>2
<1>4. ToSet(SubSeq(Batch[c], pos[c] + 1, end)) \subseteq AllItems
  BY <1>3 DEF ToSet
<1> QED
  BY <1>4 DEF Chunk, end

\* What Drain takes off the front of the buffer it puts at the end of the log.
LEMMA DrainKeepsStream ==
    ASSUME IInv, NEW n \in 0 .. Len(buf), Drain(n), buf' = SubSeq(buf, n + 1, Len(buf))
    PROVE  /\ stream' = stream /\ werr' \in BOOLEAN
           /\ log' \in Seq(AllItems) /\ buf' \in Seq(AllItems) /\ Len(buf') <= BufLines
<1>1. log \in Seq(AllItems) /\ buf \in Seq(AllItems) /\ Len(buf) <= BufLines /\ BufLines \in Nat
  BY ExportersAssumption DEF IInv, TypeOK
<1>2. log' = log \o SubSeq(buf, 1, n) /\ werr' \in BOOLEAN
  BY DEF Drain
<1> DEFINE front == SubSeq(buf, 1, n)
           rest  == SubSeq(buf, n + 1, Len(buf))
<1>3. front \in Seq(AllItems) /\ rest \in Seq(AllItems) /\ Len(rest) <= Len(buf)
  BY <1>1
<1>4. front \o rest = buf
  <2>1. 1 \in 1 .. Len(buf) + 1 /\ n \in 1 - 1 .. Len(buf) /\ Len(buf) \in n .. Len(buf)
    BY <1>1
  <2>2. front \o rest = SubSeq(buf, 1, Len(buf))
    BY <1>1, <2>1, ConcatAdjacentSubSeq, Zenon
  <2> QED
    BY <2>2, <1>1, SubSeqFull, Zenon
<1> HIDE DEF front, rest
<1>5. (log \o front) \o rest = log \o (front \o rest)
  <2> DEFINE left  == (log \o front) \o rest
             right == log \o (front \o rest)
  <2>1. log \o front \in Seq(AllItems) /\ front \o rest \in Seq(AllItems)
    BY <1>1, <1>3
  <2>2. left \in Seq(AllItems) /\ right \in Seq(AllItems)
    BY <1>1, <1>3, <2>1
  <2>3. Len(left) = Len(right)
    BY <1>1, <1>3, <2>1
  <2>4. \A k \in 1 .. Len(left) : left[k] = right[k]
    BY <1>1, <1>3, <2>1
  <2> HIDE DEF left, right
  <2>5. left = right
    BY <2>2, <2>3, <2>4
  <2> QED
    BY <2>5 DEF left, right
<1>6. log' = log \o front /\ buf' = rest
  BY <1>2 DEF front, rest
<1>7. stream' = log' \o buf'
  BY DEF stream
<1>8. stream' = stream
  BY <1>4, <1>5, <1>6, <1>7 DEF stream
<1>9. log' \in Seq(AllItems) /\ buf' \in Seq(AllItems) /\ Len(buf') <= BufLines
  BY <1>1, <1>3, <1>6
<1> QED
  BY <1>2, <1>8, <1>9

\* Roles and lines of a step that writes nothing: a call may leave "idle" or end,
\* with a nil only where its answer says nothing about lines.
LEMMA SameStreamKeepsLines ==
    ASSUME IInv, stream' = stream, kind' = kind,
           \A c \in ExportCalls :
               /\ pc'[c] = "idle" => pc[c] = "idle"
               /\ pc'[c] = "write" => pc[c] \in {"idle", "write"} /\ pos'[c] = pos[c]
               /\ (result'[c] = "nil" /\ Lines(c)) =>
                      \/ result[c] = "nil"
                      \/ pc[c] = "write" /\ pos[c] = Len(Batch[c])
    PROVE  LinesInv'
<1> SUFFICES ASSUME NEW c \in ExportCalls PROVE LinesOfCall(c)'
  BY DEF LinesInv
<1>1. pos[c] \in Nat /\ Len(stream) \in Nat /\ Len(Batch[c]) \in Nat /\ LinesOfCall(c)
  <2>1. log \o buf \in Seq(AllItems)
    BY DEF IInv, TypeOK
  <2> QED
    BY <2>1, BatchFacts DEF IInv, LinesInv, TypeOK, stream
<1>2. Lines(c)' = Lines(c)
  BY DEF Lines, Declared
<1>3. \A i, n : Stands(c, i, n)' = Stands(c, i, n)
  BY DEF Stands, ItemsOf
<1>4. pc'[c] = "idle" => \A j \in 1 .. Len(stream) : stream[j] \notin ItemsOf(c)
  BY <1>1 DEF LinesOfCall
<1>5. ASSUME pc'[c] = "write"
      PROVE  /\ pos[c] <= Len(Batch[c]) /\ pos[c] <= Len(stream)
             /\ Stands(c, Len(stream) - pos[c], pos[c])
  <2>1. CASE pc[c] = "idle"
    <3>1. pos[c] = 0 /\ \A j \in 1 .. Len(stream) : stream[j] \notin ItemsOf(c)
      BY <2>1, <1>1 DEF IInv, Roles, LinesOfCall
    <3>2. Len(stream) - pos[c] = Len(stream)
      BY <3>1, <1>1
    <3>3. Stands(c, Len(stream), 0)
      BY <3>1, <1>1 DEF Stands
    <3> QED
      BY <3>1, <3>2, <3>3, <1>1
  <2>2. CASE pc[c] = "write"
    BY <2>2, <1>1 DEF LinesOfCall
  <2> QED
    BY <1>5, <2>1, <2>2
<1>6. ASSUME result'[c] = "nil", Lines(c)
      PROVE  \E i \in 0 .. Len(stream) - Len(Batch[c]) : Stands(c, i, Len(Batch[c]))
  <2>1. CASE result[c] = "nil"
    BY <2>1, <1>1, <1>6 DEF LinesOfCall
  <2>2. CASE pc[c] = "write" /\ pos[c] = Len(Batch[c])
    <3>1. pos[c] <= Len(stream) /\ Stands(c, Len(stream) - pos[c], Len(Batch[c]))
      BY <2>2, <1>1 DEF LinesOfCall
    <3>2. Len(stream) - pos[c] \in 0 .. Len(stream) - Len(Batch[c])
      BY <3>1, <2>2, <1>1
    <3> QED
      BY <3>1, <3>2
  <2> QED
    BY <1>6, <2>1, <2>2
<1>7. (pc[c] = "idle" => \A j \in 1 .. Len(stream) : stream[j] \notin ItemsOf(c))'
  BY <1>4 DEF ItemsOf
<1>8. (pc[c] = "write" => /\ pos[c] <= Len(Batch[c]) /\ pos[c] <= Len(stream)
                          /\ Stands(c, Len(stream) - pos[c], pos[c]))'
  BY <1>3, <1>5
<1>9. ((result[c] = "nil" /\ Lines(c)) =>
           \E i \in 0 .. Len(stream) - Len(Batch[c]) : Stands(c, i, Len(Batch[c])))'
  BY <1>2, <1>3, <1>6
<1> QED
  BY <1>7, <1>8, <1>9 DEF LinesOfCall

\* A line goes to the end of the stream, where its call's other lines are.
LEMMA AppendKeepsLines ==
    ASSUME IInv, NEW c \in ExportCalls, pc[c] = "write", More(c),
           stream' = Append(stream, NextItem(c)), pos' = [pos EXCEPT ![c] = @ + 1],
           pc' = pc, result' = result, kind' = kind
    PROVE  LinesInv'
<1> DEFINE x == NextItem(c)
           N == Len(stream)
<1>1. N \in Nat /\ stream \in Seq(AllItems) /\ x \in AllItems /\ x \in ItemsOf(c)
  <2>1. log \o buf \in Seq(AllItems)
    BY DEF IInv, TypeOK
  <2> QED
    BY <2>1, NextItemFacts DEF stream
<1>2. /\ Len(stream') = N + 1 /\ stream'[N + 1] = x
      /\ \A j \in 1 .. N : stream'[j] = stream[j]
  BY <1>1
<1> HIDE DEF x, N
<1> SUFFICES ASSUME NEW d \in ExportCalls PROVE LinesOfCall(d)'
  BY DEF LinesInv
<1>3. /\ pos[d] \in Nat /\ pos'[d] \in Nat /\ Len(Batch[d]) \in Nat /\ LinesOfCall(d)
      /\ pos \in [ExportCalls -> Nat]
  BY BatchFacts DEF IInv, TypeOK, LinesInv
<1>4. Lines(d)' = Lines(d)
  BY DEF Lines, Declared
<1>5. CASE d # c
  <2>1. x \notin ItemsOf(d)
    BY <1>1, <1>5, ExportersAssumption
  <2>2. pc'[d] # "write"
    BY <1>5 DEF IInv, Roles
  <2>3. (pc[d] = "idle" => \A j \in 1 .. Len(stream) : stream[j] \notin ItemsOf(d))'
    BY <2>1, <1>1, <1>2, <1>3 DEF LinesOfCall, ItemsOf, N
  <2>4. ASSUME NEW i \in 0 .. N - Len(Batch[d]), Stands(d, i, Len(Batch[d]))
        PROVE  i \in 0 .. Len(stream') - Len(Batch[d]) /\ Stands(d, i, Len(Batch[d]))'
    <3>1. i \in 0 .. Len(stream') - Len(Batch[d])
      BY <1>1, <1>2, <1>3
    <3>2. \A k \in 1 .. Len(Batch[d]) : i + k \in 1 .. N
      BY <1>1, <1>3
    <3>3. \A k \in 1 .. Len(Batch[d]) : stream'[i + k] = Batch[d][k]
      BY <3>2, <2>4, <1>2 DEF Stands
    <3>4. \A j \in 1 .. N + 1 : stream'[j] \in ItemsOf(d) => j \in i + 1 .. i + Len(Batch[d])
      <4>1. ASSUME NEW j \in 1 .. N + 1, stream'[j] \in ItemsOf(d) PROVE j \in 1 .. N
        <5>1. j # N + 1
          BY <4>1, <2>1, <1>2
        <5> QED
          BY <5>1, <1>1
      <4> QED
        BY <4>1, <2>4, <1>2 DEF Stands, N
    <3> QED
      BY <3>1, <3>3, <3>4, <1>2 DEF Stands, ItemsOf
  <2>5. ((result[d] = "nil" /\ Lines(d)) =>
           \E i \in 0 .. Len(stream) - Len(Batch[d]) : Stands(d, i, Len(Batch[d])))'
    BY <2>4, <1>3, <1>4 DEF LinesOfCall, N
  <2> QED
    BY <2>2, <2>3, <2>5 DEF LinesOfCall
<1>6. CASE d = c
  <2>1. /\ pos[c] <= N /\ Stands(c, N - pos[c], pos[c])
        /\ pos'[c] = pos[c] + 1 /\ pos[c] + 1 <= Len(Batch[c]) /\ x = Batch[c][pos[c] + 1]
    BY <1>3, <1>6, NextItemFacts DEF LinesOfCall, N, x
  <2> DEFINE i == N - pos[c]
  <2>2. i \in 0 .. N /\ Len(stream') - pos'[c] = i /\ i + pos[c] = N
    BY <2>1, <1>1, <1>2, <1>3, <1>6
  <2>3. Stands(c, i, pos[c])
    BY <2>1
  <2>9. N \in Nat /\ i \in Nat /\ pos[c] \in Nat /\ i + pos[c] = N
    BY <2>1, <2>2, <1>1, <1>3, <1>6
  <2> HIDE DEF i
  <2>4. \A k \in 1 .. pos[c] + 1 : stream'[i + k] = Batch[c][k]
    <3>1. ASSUME NEW k \in 1 .. pos[c] PROVE stream'[i + k] = Batch[c][k]
      <4>1. i + k \in 1 .. N
        BY <2>9
      <4> QED
        BY <4>1, <2>3, <1>2 DEF Stands
    <3>2. stream'[i + (pos[c] + 1)] = Batch[c][pos[c] + 1]
      <4>1. i + (pos[c] + 1) = N + 1
        <5>1. \A a, b \in Nat : a + b = N => a + (b + 1) = N + 1
          OBVIOUS
        <5> QED
          BY <5>1, <2>9
      <4>2. stream'[N + 1] = Batch[c][pos[c] + 1]
        BY <1>2, <2>1
      <4> QED
        BY <4>1, <4>2
    <3>3. \A k \in 1 .. pos[c] + 1 : k \in 1 .. pos[c] \/ k = pos[c] + 1
      BY <2>9
    <3> QED
      BY <3>1, <3>2, <3>3
  <2>5. \A j \in 1 .. N + 1 : stream'[j] \in ItemsOf(c) => j \in i + 1 .. i + (pos[c] + 1)
    <3>1. ASSUME NEW j \in 1 .. N, stream[j] \in ItemsOf(c) PROVE j \in i + 1 .. i + pos[c]
      BY <3>1, <2>3 DEF Stands, N
    <3>2. N + 1 \in i + 1 .. i + (pos[c] + 1)
      BY <2>9
    <3>3. i + 1 .. i + pos[c] \subseteq i + 1 .. i + (pos[c] + 1)
      BY <2>9
    <3>4. \A j \in 1 .. N + 1 : j \in 1 .. N \/ j = N + 1
      BY <2>9
    <3> QED
      BY <3>1, <3>2, <3>3, <3>4, <1>2
  <2>6. Stands(c, Len(stream) - pos[c], pos[c])'
    BY <2>1, <2>2, <2>4, <2>5, <1>2 DEF Stands, ItemsOf
  <2>7. pos'[c] <= Len(Batch[c]) /\ pos'[c] <= Len(stream')
    BY <2>1, <1>1, <1>2, <1>3, <1>6
  <2>8. pc'[c] = "write" /\ result'[c] # "nil"
    BY DEF IInv, Roles
  <2> QED
    BY <2>6, <2>7, <2>8, <1>6 DEF LinesOfCall
<1> QED
  BY <1>5, <1>6
-----------------------------------------------------------------------------
(* The steps that write no line *)

LEMMA IgnoreKeeps == ASSUME IInv, NEW c \in ExportCalls, GcpExportMetrics(c) \/ PromExportEvents(c) PROVE IInv'
<1> USE DEF GcpExportMetrics, PromExportEvents, Ignore, Begins, writer
<1>1. TypeOK'
  BY DEF IInv, TypeOK
<1>2. Roles'
  BY ExportersAssumption DEF IInv, TypeOK, Roles
<1>3. LinesInv'
  <2>1. stream' = stream
    BY DEF stream
  <2>2. ~ Lines(c)
    BY ExportersAssumption DEF IInv, Roles, Lines, Declared
  <2> QED
    BY <2>1, <2>2, SameStreamKeepsLines DEF IInv, TypeOK, Roles
<1>4. GaugeInv'
  BY DEF IInv, GaugeInv, ShownTaken, GaugeShowsNewest
<1> QED
  BY <1>1, <1>2, <1>3, <1>4 DEF IInv

LEMMA OpenLinesKeeps == ASSUME IInv, NEW c \in ExportCalls, OpenLines(c) PROVE IInv'
<1> USE DEF OpenLines, Begins, LockFree, Refuses, writer
<1>1. TypeOK'
  BY DEF IInv, TypeOK
<1>2. Roles'
  BY ExportersAssumption DEF IInv, TypeOK, Roles
<1>3. LinesInv'
  <2>1. stream' = stream
    BY DEF stream
  <2> QED
    BY <2>1, SameStreamKeepsLines DEF IInv, TypeOK, Roles
<1>4. GaugeInv'
  BY DEF IInv, GaugeInv, ShownTaken, GaugeShowsNewest
<1> QED
  BY <1>1, <1>2, <1>3, <1>4 DEF IInv

LEMMA WriteEndKeeps == ASSUME IInv, NEW c \in ExportCalls, WriteEnd(c) PROVE IInv'
<1> USE DEF WriteEnd, Answers, writer
<1>1. TypeOK'
  BY DEF IInv, TypeOK
<1>2. Roles'
  BY ExportersAssumption DEF IInv, TypeOK, Roles
<1>3. LinesInv'
  <2>1. stream' = stream
    BY DEF stream
  <2>2. pos[c] = Len(Batch[c])
    BY BatchFacts DEF More, IInv, TypeOK, LinesInv, LinesOfCall
  <2> QED
    BY <2>1, <2>2, SameStreamKeepsLines DEF IInv, TypeOK, Roles
<1>4. GaugeInv'
  BY DEF IInv, GaugeInv, ShownTaken, GaugeShowsNewest
<1> QED
  BY <1>1, <1>2, <1>3, <1>4 DEF IInv

LEMMA PutMetricsKeeps == ASSUME IInv, NEW c \in ExportCalls, PutMetrics(c) PROVE IInv'
<1> USE DEF PutMetrics, Begins, writer
<1>1. TypeOK'
  BY DEF IInv, TypeOK
<1>2. Roles'
  BY ExportersAssumption DEF IInv, TypeOK, Roles
<1>3. LinesInv'
  <2>1. stream' = stream
    BY DEF stream
  <2> QED
    BY <2>1, SameStreamKeepsLines DEF IInv, TypeOK, Roles
<1>4. GaugeInv'
  BY DEF IInv, GaugeInv, ShownTaken, GaugeShowsNewest
<1> QED
  BY <1>1, <1>2, <1>3, <1>4 DEF IInv

LEMMA PutChunkKeeps == ASSUME IInv, NEW c \in ExportCalls, PutChunk(c) PROVE IInv'
<1> USE DEF PutChunk, writer
<1>1. TypeOK'
  BY ChunkFacts, ExportersAssumption DEF IInv, TypeOK
<1>2. Roles'
  BY ExportersAssumption DEF IInv, TypeOK, Roles
<1>3. LinesInv'
  <2>1. stream' = stream
    BY DEF stream
  <2> QED
    BY <2>1, SameStreamKeepsLines DEF IInv, TypeOK, Roles
<1>4. GaugeInv'
  BY DEF IInv, Roles, GaugeInv, ShownTaken, GaugeShowsNewest
<1> QED
  BY <1>1, <1>2, <1>3, <1>4 DEF IInv

LEMMA PutFailsKeeps == ASSUME IInv, NEW c \in ExportCalls, PutFails(c) PROVE IInv'
<1> USE DEF PutFails, Answers, writer
<1>1. TypeOK'
  BY ChunkFacts DEF IInv, TypeOK
<1>2. Roles'
  BY ExportersAssumption DEF IInv, TypeOK, Roles
<1>3. LinesInv'
  <2>1. stream' = stream
    BY DEF stream
  <2> QED
    BY <2>1, SameStreamKeepsLines DEF IInv, TypeOK, Roles
<1>4. GaugeInv'
  BY DEF IInv, Roles, GaugeInv, ShownTaken, GaugeShowsNewest
<1> QED
  BY <1>1, <1>2, <1>3, <1>4 DEF IInv

LEMMA PutEndKeeps == ASSUME IInv, NEW c \in ExportCalls, PutEnd(c) PROVE IInv'
<1> USE DEF PutEnd, Answers, writer
<1>1. TypeOK'
  BY DEF IInv, TypeOK
<1>2. Roles'
  BY ExportersAssumption DEF IInv, TypeOK, Roles
<1>3. LinesInv'
  <2>1. stream' = stream
    BY DEF stream
  <2>2. ~ Lines(c)
    BY ExportersAssumption DEF IInv, Roles, Lines, Declared
  <2> QED
    BY <2>1, <2>2, SameStreamKeepsLines DEF IInv, TypeOK, Roles
<1>4. GaugeInv'
  BY DEF IInv, GaugeInv, ShownTaken, GaugeShowsNewest
<1> QED
  BY <1>1, <1>2, <1>3, <1>4 DEF IInv

LEMMA PromExportMetricsKeeps == ASSUME IInv, NEW c \in ExportCalls, PromExportMetrics(c) PROVE IInv'
<1> USE DEF PromExportMetrics, Begins, writer
<1>1. TypeOK'
  BY DEF IInv, TypeOK
<1>2. Roles'
  BY ExportersAssumption DEF IInv, TypeOK, Roles
<1>3. LinesInv'
  <2>1. stream' = stream
    BY DEF stream
  <2> QED
    BY <2>1, SameStreamKeepsLines DEF IInv, TypeOK, Roles
<1>4. GaugeInv'
  BY DEF IInv, GaugeInv, ShownTaken, GaugeShowsNewest
<1> QED
  BY <1>1, <1>2, <1>3, <1>4 DEF IInv

LEMMA ApplyKeeps == ASSUME IInv, NEW c \in ExportCalls, Apply(c) PROVE IInv'
<1> USE DEF Apply, Answers, writer
<1>1. TypeOK'
  <2>1. NextItem(c) \in AllItems
    BY NextItemFacts
  <2>2. CASE SetInflight(c)
    <3>1. NextItem(c) \in Gauges /\ NextItem(c).series \in SeriesNames
      BY <2>1, <2>2 DEF SetInflight, Gauges, SeriesNames
    <3>2. shown' \in [SeriesNames -> Gauges \cup {NoSample}]
      BY <3>1, <2>2 DEF SetInflight, IInv, TypeOK
    <3> QED
      BY <2>1, <2>2, <3>2 DEF SetInflight, IInv, TypeOK
  <2>3. CASE AddCounter(c)
    BY <2>1, <2>3 DEF AddCounter, IInv, TypeOK
  <2>4. CASE ApplyFails(c)
    BY <2>4 DEF ApplyFails, IInv, TypeOK
  <2> QED
    BY <2>2, <2>3, <2>4
<1>2. Roles'
  BY DEF IInv, TypeOK, Roles, SetInflight, AddCounter, ApplyFails
<1>3. LinesInv'
  <2>1. stream' = stream
    BY DEF stream
  <2> QED
    BY <2>1, SameStreamKeepsLines DEF IInv, TypeOK, Roles, SetInflight, AddCounter, ApplyFails
<1>4. GaugeInv'
  <2>1. NextItem(c) \in AllItems /\ NextItem(c).at \in Nat
    BY NextItemFacts
  <2>2. CASE SetInflight(c)
    <3> DEFINE x == NextItem(c)
    <3>1. x \in Gauges /\ x.series \in SeriesNames
      BY <2>1, <2>2 DEF SetInflight, Gauges, SeriesNames
    <3>2. ASSUME NEW y \in taken' \cap Gauges, kind = "prometheus"
          PROVE  shown'[y.series].at >= y.at /\ shown'[y.series] \in taken'
      <4>1. y.series \in SeriesNames /\ y.at \in Nat
        BY ExportersAssumption DEF Gauges, SeriesNames
      <4>2. \A s \in SeriesNames : shown[s].at \in Nat
        <5>1. \A s \in SeriesNames : shown[s] \in AllItems \/ shown[s] = NoSample
          BY DEF IInv, TypeOK, Gauges
        <5>2. NoSample.at = 0
          BY DEF NoSample
        <5> QED
          BY <5>1, <5>2, ExportersAssumption
      <4>3. y \in taken => shown[y.series].at >= y.at /\ shown[y.series] \in taken
        BY <3>2 DEF IInv, GaugeInv, ShownTaken, GaugeShowsNewest
      <4>4. taken' = taken \cup {x}
        BY <2>2 DEF SetInflight
      <4>5. CASE Stale(x)
        <5>1. shown' = shown /\ x.at < shown[x.series].at
          BY <4>5, <2>2 DEF SetInflight, Stale
        <5>2. shown[x.series] \in taken
          <6>1. NoSample.at = 0
            BY DEF NoSample
          <6>2. shown[x.series] # NoSample
            BY <5>1, <6>1, <2>1
          <6> QED
            BY <6>2, <3>1 DEF IInv, GaugeInv, ShownTaken
        <5> QED
          BY <5>1, <5>2, <4>2, <4>3, <4>4, <3>1, <2>1
      <4>6. CASE ~ Stale(x)
        <5>1. shown' = [shown EXCEPT ![x.series] = x] /\ x.at >= shown[x.series].at
          BY <4>6, <4>2, <3>1, <2>1, <2>2 DEF SetInflight, Stale
        <5>2. CASE y.series = x.series
          BY <5>1, <5>2, <4>1, <4>2, <4>3, <4>4, <3>1, <2>1 DEF IInv, TypeOK
        <5>3. CASE y.series # x.series
          BY <5>1, <5>3, <4>1, <4>3, <4>4 DEF IInv, TypeOK
        <5> QED
          BY <5>2, <5>3
      <4> QED
        BY <4>5, <4>6
    <3>3. ShownTaken'
      BY <2>2, <3>1 DEF SetInflight, ShownTaken, IInv, GaugeInv, TypeOK
    <3> QED
      BY <3>2, <3>3 DEF GaugeInv, GaugeShowsNewest
  <2>3. CASE AddCounter(c)
    BY <2>3 DEF AddCounter, IInv, GaugeInv, ShownTaken, GaugeShowsNewest, Gauges
  <2>4. CASE ApplyFails(c)
    BY <2>4 DEF ApplyFails, IInv, GaugeInv, ShownTaken, GaugeShowsNewest
  <2> QED
    BY <2>2, <2>3, <2>4
<1> QED
  BY <1>1, <1>2, <1>3, <1>4 DEF IInv

LEMMA ApplyEndKeeps == ASSUME IInv, NEW c \in ExportCalls, ApplyEnd(c) PROVE IInv'
<1> USE DEF ApplyEnd, Answers, writer
<1>1. TypeOK'
  BY DEF IInv, TypeOK
<1>2. Roles'
  BY ExportersAssumption DEF IInv, TypeOK, Roles
<1>3. LinesInv'
  <2>1. stream' = stream
    BY DEF stream
  <2> QED
    BY <2>1, SameStreamKeepsLines DEF IInv, TypeOK, Roles, Lines
<1>4. GaugeInv'
  BY DEF IInv, GaugeInv, ShownTaken, GaugeShowsNewest
<1> QED
  BY <1>1, <1>2, <1>3, <1>4 DEF IInv

LEMMA PromShutdownKeeps == ASSUME IInv, NEW s \in Closers, PromShutdown(s) PROVE IInv'
<1> USE DEF PromShutdown, writer
<1>1. TypeOK'
  BY DEF IInv, TypeOK
<1>2. Roles'
  BY ExportersAssumption DEF IInv, TypeOK, Roles
<1>3. LinesInv'
  <2>1. stream' = stream
    BY DEF stream
  <2> QED
    BY <2>1, SameStreamKeepsLines, ExportersAssumption DEF IInv, TypeOK, Roles
<1>4. GaugeInv'
  BY DEF IInv, GaugeInv, ShownTaken, GaugeShowsNewest
<1> QED
  BY <1>1, <1>2, <1>3, <1>4 DEF IInv

LEMMA CloseWriterKeeps == ASSUME IInv, NEW s \in Closers, CloseWriter(s) PROVE IInv'
<1> USE DEF CloseWriter
<1>1. /\ stream' = stream /\ werr' \in BOOLEAN
      /\ log' \in Seq(AllItems) /\ buf' \in Seq(AllItems) /\ Len(buf') <= BufLines
  <2>1. log \in Seq(AllItems) /\ buf \in Seq(AllItems) /\ Len(buf) \in Nat
        /\ Len(buf) <= BufLines /\ werr \in BOOLEAN
    BY DEF IInv, TypeOK
  <2>2. CASE FlushOk
    <3>1. Len(buf) \in 0 .. Len(buf) /\ buf' = SubSeq(buf, Len(buf) + 1, Len(buf))
      BY <2>1, <2>2 DEF FlushOk
    <3> QED
      BY <3>1, <2>2, DrainKeepsStream DEF FlushOk
  <2>3. CASE werr /\ UNCHANGED writer
    BY <2>1, <2>3 DEF writer, stream
  <2>4. CASE \E n \in 0 .. Len(buf) - 1 : Drain(n) /\ buf' = SubSeq(buf, n + 1, Len(buf))
    <3>1. PICK n \in 0 .. Len(buf) - 1 : Drain(n) /\ buf' = SubSeq(buf, n + 1, Len(buf))
      BY <2>4
    <3>2. n \in 0 .. Len(buf)
      BY <2>1
    <3> QED
      BY <3>1, <3>2, DrainKeepsStream
  <2> QED
    BY <2>2, <2>3, <2>4 DEF FlushFails
<1>2. TypeOK'
  BY <1>1 DEF IInv, TypeOK
<1>3. Roles'
  BY ExportersAssumption DEF IInv, TypeOK, Roles
<1>4. LinesInv'
  BY <1>1, SameStreamKeepsLines, ExportersAssumption DEF IInv, TypeOK, Roles
<1>5. GaugeInv'
  BY DEF IInv, GaugeInv, ShownTaken, GaugeShowsNewest
<1> QED
  BY <1>2, <1>3, <1>4, <1>5 DEF IInv
-----------------------------------------------------------------------------
LEMMA WriteLineKeeps == ASSUME IInv, NEW c \in ExportCalls, WriteLine(c) PROVE IInv'
<1> USE DEF WriteLine
<1>1. /\ NextItem(c) \in AllItems /\ log \in Seq(AllItems) /\ buf \in Seq(AllItems)
      /\ Len(buf) \in Nat /\ Len(buf) <= BufLines /\ BufLines \in Nat \ {0}
  BY NextItemFacts, ExportersAssumption DEF IInv, TypeOK
<1>2. GaugeInv'
  BY DEF IInv, GaugeInv, ShownTaken, GaugeShowsNewest
<1>3. CASE WriteBuffered(c)
  <2>1. stream' = Append(stream, NextItem(c))
    BY <1>1, <1>3 DEF WriteBuffered, stream
  <2>2. TypeOK'
    BY <1>1, <1>3 DEF WriteBuffered, Room, IInv, TypeOK
  <2>3. Roles'
    BY <1>3 DEF WriteBuffered, IInv, TypeOK, Roles
  <2>4. LinesInv'
    BY <2>1, <1>3, AppendKeepsLines DEF WriteBuffered
  <2> QED
    BY <2>2, <2>3, <2>4, <1>2 DEF IInv
<1>4. CASE WriteThrough(c)
  <2>1. log' = log \o buf /\ buf' = <<NextItem(c)>> /\ werr' \in BOOLEAN
    BY <1>1, <1>4 DEF WriteThrough, Drain
  <2>2. stream' = Append(stream, NextItem(c))
    BY <1>1, <2>1 DEF stream
  <2>3. log' \in Seq(AllItems) /\ buf' \in Seq(AllItems) /\ Len(buf') <= BufLines
    BY <1>1, <2>1
  <2>4. TypeOK'
    BY <2>1, <2>3, <1>4 DEF WriteThrough, IInv, TypeOK
  <2>5. Roles'
    BY <1>4 DEF WriteThrough, IInv, TypeOK, Roles
  <2>6. LinesInv'
    BY <2>2, <1>4, AppendKeepsLines DEF WriteThrough
  <2> QED
    BY <2>4, <2>5, <2>6, <1>2 DEF IInv
<1>5. CASE WriteFails(c) \/ WriteRefused(c)
  <2>1. /\ stream' = stream /\ werr' \in BOOLEAN
        /\ log' \in Seq(AllItems) /\ buf' \in Seq(AllItems) /\ Len(buf') <= BufLines
    <3>1. CASE WriteFails(c)
      <4>1. PICK n \in 0 .. Len(buf) - 1 : Drain(n) /\ buf' = SubSeq(buf, n + 1, Len(buf))
        BY <3>1 DEF WriteFails
      <4>2. n \in 0 .. Len(buf)
        BY <1>1
      <4> QED
        BY <4>1, <4>2, DrainKeepsStream
    <3>2. CASE WriteRefused(c)
      BY <3>2, <1>1 DEF WriteRefused, writer, stream, IInv, TypeOK
    <3> QED
      BY <1>5, <3>1, <3>2
  <2>2. mu' = Nobody /\ Answers(c, "error") /\ pos' = pos
    BY <1>5 DEF WriteFails, WriteRefused
  <2>3. TypeOK'
    BY <2>1, <2>2 DEF Answers, IInv, TypeOK
  <2>4. Roles'
    BY <2>2, ExportersAssumption DEF Answers, IInv, TypeOK, Roles
  <2>5. LinesInv'
    BY <2>1, <2>2, SameStreamKeepsLines DEF Answers, IInv, TypeOK, Roles
  <2> QED
    BY <2>3, <2>4, <2>5, <1>2 DEF IInv
<1> QED
  BY <1>3, <1>4, <1>5
-----------------------------------------------------------------------------
LEMMA InitIInv == Init => IInv
<1> SUFFICES ASSUME Init PROVE IInv
  OBVIOUS
<1> USE DEF Init
<1>1. /\ stream = <<>> /\ Len(stream) = 0
      /\ buf \in Seq(AllItems) /\ log \in Seq(AllItems) /\ Len(buf) <= BufLines
  BY ExportersAssumption DEF stream
<1>2. TypeOK
  <2>1. shown \in [SeriesNames -> Gauges \cup {NoSample}] /\ pos \in [ExportCalls -> Nat]
    OBVIOUS
  <2> QED
    BY <1>1, <2>1 DEF TypeOK
<1>3. Roles
  BY ExportersAssumption DEF Roles
<1>4. LinesInv
  BY <1>1 DEF LinesInv, LinesOfCall
<1>5. GaugeInv
  BY DEF GaugeInv, ShownTaken, GaugeShowsNewest
<1> QED
  BY <1>2, <1>3, <1>4, <1>5 DEF IInv

LEMMA NextIInv == IInv /\ [Next]_vars => IInv'
<1> SUFFICES ASSUME IInv, [Next]_vars PROVE IInv'
  OBVIOUS
<1>1. ASSUME NEW c \in ExportCalls, ExportStep(c) PROVE IInv'
  <2>1. CASE GcpExportMetrics(c) \/ PromExportEvents(c)
    BY <2>1, IgnoreKeeps
  <2>2. CASE GcpExportEvents(c) \/ CwExportEvents(c) \/ WriteMetricRecords(c)
    BY <2>2, OpenLinesKeeps DEF GcpExportEvents, CwExportEvents, WriteMetricRecords
  <2>3. CASE WriteLine(c)
    BY <2>3, WriteLineKeeps
  <2>4. CASE WriteEnd(c)
    BY <2>4, WriteEndKeeps
  <2>5. CASE PutMetrics(c)
    BY <2>5, PutMetricsKeeps
  <2>6. CASE PutChunk(c)
    BY <2>6, PutChunkKeeps
  <2>7. CASE PutFails(c)
    BY <2>7, PutFailsKeeps
  <2>8. CASE PutEnd(c)
    BY <2>8, PutEndKeeps
  <2>9. CASE PromExportMetrics(c)
    BY <2>9, PromExportMetricsKeeps
  <2>10. CASE Apply(c)
    BY <2>10, ApplyKeeps
  <2>11. CASE ApplyEnd(c)
    BY <2>11, ApplyEndKeeps
  <2> QED
    BY <1>1, <2>1, <2>2, <2>3, <2>4, <2>5, <2>6, <2>7, <2>8, <2>9, <2>10, <2>11
       DEF ExportStep
<1>2. ASSUME NEW s \in Closers, GcpShutdown(s) \/ CwShutdown(s) \/ PromShutdown(s) PROVE IInv'
  BY <1>2, CloseWriterKeeps, PromShutdownKeeps DEF GcpShutdown, CwShutdown
<1>3. CASE UNCHANGED vars
  <2>1. stream' = stream
    BY <1>3 DEF vars, writer, stream
  <2>2. TypeOK' /\ Roles'
    BY <1>3 DEF vars, writer, IInv, TypeOK, Roles
  <2>3. LinesInv'
    BY <1>3, <2>1, SameStreamKeepsLines DEF vars, IInv, TypeOK
  <2>4. GaugeInv'
    BY <1>3 DEF vars, IInv, GaugeInv, ShownTaken, GaugeShowsNewest
  <2> QED
    BY <2>2, <2>3, <2>4 DEF IInv
<1> QED
  BY <1>1, <1>2, <1>3 DEF Next

LEMMA IInvAlways == Spec => []IInv
<1> QED
  BY InitIInv, NextIInv, PTL DEF Spec

\* The pointwise view of the proofs is the property's: SubSeq(stream) = Batch.
LEMMA LinesAreKept == IInv => AckedLinesKept
<1> SUFFICES ASSUME IInv, NEW c \in ExportCalls, result[c] = "nil", Lines(c)
             PROVE  LET lines == log \o buf
                    IN  \E i \in 0 .. Len(lines) - Len(Batch[c]) :
                            /\ SubSeq(lines, i + 1, i + Len(Batch[c])) = Batch[c]
                            /\ \A j \in 1 .. Len(lines) :
                                   lines[j] \in ItemsOf(c) => j \in i + 1 .. i + Len(Batch[c])
  BY DEF AckedLinesKept
<1> DEFINE n == Len(Batch[c])
<1>1. stream \in Seq(AllItems) /\ n \in Nat /\ Batch[c] \in Seq(AllItems)
  BY BatchFacts DEF IInv, TypeOK, stream
<1>2. PICK i \in 0 .. Len(stream) - n : Stands(c, i, n)
  BY DEF IInv, LinesInv, LinesOfCall
<1> HIDE DEF n
<1>3. SubSeq(stream, i + 1, i + n) = Batch[c]
  <2>1. /\ SubSeq(stream, i + 1, i + n) \in Seq(AllItems)
        /\ Len(SubSeq(stream, i + 1, i + n)) = n
        /\ \A k \in 1 .. n : SubSeq(stream, i + 1, i + n)[k] = stream[i + k]
    <3>1. i \in Nat /\ i + n <= Len(stream) /\ Len(stream) \in Nat
      BY <1>1, <1>2
    <3>2. \A j \in i + 1 .. i + n : stream[j] \in AllItems
      BY <3>1, <1>1
    <3> QED
      BY <3>1, <3>2, <1>1
  <2>2. \A k \in 1 .. n : stream[i + k] = Batch[c][k]
    BY <1>2 DEF Stands
  <2>3. Len(SubSeq(stream, i + 1, i + n)) = Len(Batch[c])
    BY <2>1 DEF n
  <2>4. \A k \in 1 .. Len(Batch[c]) : SubSeq(stream, i + 1, i + n)[k] = Batch[c][k]
    BY <2>1, <2>2 DEF n
  <2> DEFINE block == SubSeq(stream, i + 1, i + n)
  <2>5. block \in Seq(AllItems) /\ Len(block) = Len(Batch[c])
        /\ \A k \in 1 .. Len(Batch[c]) : block[k] = Batch[c][k]
    BY <2>1, <2>3, <2>4
  <2> HIDE DEF block
  <2>6. block = Batch[c]
    BY <2>5, <1>1
  <2> QED
    BY <2>6 DEF block
<1>4. \A j \in 1 .. Len(stream) : stream[j] \in ItemsOf(c) => j \in i + 1 .. i + n
  BY <1>2 DEF Stands
<1> QED
  BY <1>2, <1>3, <1>4 DEF stream, n

\* Whatever flushes, failures and other exports come between, the lines of an
\* acknowledged export stand once and side by side in what was written or is
\* buffered: mu covers the whole batch, and bufio keeps what it could not write.
THEOREM LinesKept == Spec => []AckedLinesKept
<1> QED
  BY IInvAlways, LinesAreKept, PTL

\* The Prometheus gauge never goes back: of all samples any flush has brought of
\* a series, the one shown is among the newest (the stale guard of setInflight).
THEOREM NewestShown == Spec => []GaugeShowsNewest
<1>1. IInv => GaugeShowsNewest
  BY DEF IInv, GaugeInv
<1> QED
  BY <1>1, IInvAlways, PTL
-----------------------------------------------------------------------------
(* The contract *)

Backend == ToSet(log) \cup taken
Written == ToSet(stream) \cup taken
Clean   == \E s \in Closers : result[s] = "nil"

\* What the contract's steps need to know: records come from calls under way or
\* answered; a call that began after a Shutdown returned is refused, unless the
\* exporter has no Shutdown to speak of; a call without lines has applied what
\* is behind it; and a Shutdown that answered nil left an empty buffer.
ContractInv ==
    /\ \A x \in Written : \E c \in ExportCalls : x \in ItemsOf(c) /\ Declared(c) /\ pc[c] # "idle"
    /\ \A c \in ExportCalls :
          /\ ~ Declared(c) => pc[c] \in {"idle", "done"}
          /\ pc[c] = "write" => Lines(c)
          /\ pc[c] \in {"idle", "write", "put"} => c \notin late
          /\ pc[c] \in {"put", "apply"} =>
                \A k \in 1 .. Len(Batch[c]) : k <= pos[c] => Batch[c][k] \in taken
          /\ result[c] = "nil" /\ Declared(c) /\ ~ Lines(c) => ItemsOf(c) \subseteq taken
    /\ closed => mu = Nobody
    /\ kind # "prometheus" /\ Down => closed
    /\ kind # "prometheus" /\ Clean => ~ werr /\ buf = <<>>

LEMMA ConcatSet ==
    ASSUME NEW R, NEW s \in Seq(R), NEW t \in Seq(R)
    PROVE  ToSet(s \o t) = ToSet(s) \cup ToSet(t)
<1> DEFINE u == s \o t
<1>1. /\ Len(s) \in Nat /\ Len(t) \in Nat /\ u \in Seq(R)
      /\ Len(u) = Len(s) + Len(t)
      /\ \A j \in 1 .. Len(s) : u[j] = s[j]
      /\ \A j \in 1 .. Len(t) : u[Len(s) + j] = t[j]
  OBVIOUS
<1> HIDE DEF u
<1>2. ASSUME NEW j \in 1 .. Len(u) PROVE u[j] \in ToSet(s) \cup ToSet(t)
  <2>1. CASE j <= Len(s)
    BY <1>1, <2>1 DEF ToSet
  <2>2. CASE ~ (j <= Len(s))
    <3>1. j - Len(s) \in 1 .. Len(t) /\ Len(s) + (j - Len(s)) = j
      BY <1>1, <2>2
    <3>2. u[j] = t[j - Len(s)]
      BY <1>1, <3>1
    <3>3. \A i \in 1 .. Len(t) : t[i] \in ToSet(t)
      BY DEF ToSet
    <3> QED
      BY <3>1, <3>2, <3>3
  <2> QED
    BY <2>1, <2>2
<1>3. ToSet(s) \subseteq ToSet(u)
  BY <1>1 DEF ToSet
<1>4. ASSUME NEW j \in 1 .. Len(t) PROVE t[j] \in ToSet(u)
  <2>1. Len(s) + j \in 1 .. Len(u)
    BY <1>1
  <2> QED
    BY <1>1, <2>1 DEF ToSet
<1>5. /\ \A x \in ToSet(u) : \E j \in 1 .. Len(u) : x = u[j]
      /\ \A x \in ToSet(t) : \E j \in 1 .. Len(t) : x = t[j]
  BY <1>1 DEF ToSet
<1>6. ToSet(u) \subseteq ToSet(s) \cup ToSet(t)
  BY <1>2, <1>5
<1>7. ToSet(t) \subseteq ToSet(u)
  BY <1>4, <1>5
<1>8. ToSet(u) = ToSet(s) \cup ToSet(t)
  BY <1>3, <1>6, <1>7
<1> QED
  BY <1>8 DEF u

LEMMA AppendSet ==
    ASSUME NEW R, NEW s \in Seq(R), NEW x \in R
    PROVE  ToSet(Append(s, x)) = ToSet(s) \cup {x}
<1>1. Append(s, x) = s \o <<x>> /\ <<x>> \in Seq(R)
  OBVIOUS
<1>2. ToSet(<<x>>) = {x}
  BY DEF ToSet
<1> DEFINE t == <<x>>
<1>3. t \in Seq(R) /\ ToSet(t) = {x} /\ Append(s, x) = s \o t
  BY <1>1, <1>2
<1> HIDE DEF t
<1>4. ToSet(s \o t) = ToSet(s) \cup ToSet(t)
  BY <1>3, ConcatSet
<1> QED
  BY <1>3, <1>4

\* What the backend has has been written, before a step and after it.
LEMMA BackendWritten ==
    /\ IInv => Backend \subseteq Written /\ Written = Backend \cup ToSet(buf)
    /\ IInv' => Backend' \subseteq Written' /\ Written' = Backend' \cup ToSet(buf')
<1>1. IInv => ToSet(stream) = ToSet(log) \cup ToSet(buf)
  BY ConcatSet DEF IInv, TypeOK, stream
<1>2. IInv' => ToSet(stream)' = ToSet(log)' \cup ToSet(buf)'
  BY ConcatSet DEF IInv, TypeOK, stream
<1> QED
  BY <1>1, <1>2 DEF Backend, Written

\* The phase of a call that a step leaves alone stays.
LEMMA PhaseStays ==
    ASSUME NEW d, kind' = kind, pc'[d] = pc[d], result'[d] = result[d], d \in late' <=> d \in late
    PROVE  Phase(d)' = Phase(d) /\ Declared(d)' = Declared(d)
  BY DEF Phase, Declared

\* Answers and places of Shutdowns and of exports are apart.
LEMMA ExportAnswers ==
    ASSUME NEW c \in ExportCalls, \A s \in Closers : s # c => result'[s] = result[s]
    PROVE  Down' = Down /\ Clean' = Clean
  BY ExportersAssumption DEF Down, Clean

\* A step of one export call that does what its place allows.
LEMMA CallKeepsContract ==
    ASSUME IInv, ContractInv, NEW c \in ExportCalls, kind' = kind, closed' = closed,
           Down' = Down, Clean' = Clean,
           \A d \in ExportCalls : d # c =>
               pc'[d] = pc[d] /\ pos'[d] = pos[d] /\ result'[d] = result[d] /\ (d \in late' <=> d \in late),
           taken \subseteq taken', pc'[c] # "idle",
           Written' \subseteq Written \cup (IF Declared(c) THEN ItemsOf(c) ELSE {}),
           ~ Declared(c) => pc'[c] = "done",
           pc'[c] = "write" => Lines(c),
           pc'[c] \in {"write", "put"} => c \notin late',
           pc'[c] \in {"put", "apply"} => \A k \in 1 .. Len(Batch[c]) : k <= pos'[c] => Batch[c][k] \in taken',
           result'[c] = "nil" /\ Declared(c) /\ ~ Lines(c) => ItemsOf(c) \subseteq taken',
           closed => mu' = Nobody,
           kind # "prometheus" /\ Clean => ~ werr' /\ buf' = <<>>
    PROVE  ContractInv'
<1>1. \A d \in ExportCalls : Declared(d)' = Declared(d) /\ Lines(d)' = Lines(d)
  BY DEF Declared, Lines
<1>2. ASSUME NEW x \in Written'
      PROVE  \E d \in ExportCalls : x \in ItemsOf(d) /\ Declared(d) /\ pc'[d] # "idle"
  <2>1. CASE x \in Written
    <3>1. PICK d \in ExportCalls : x \in ItemsOf(d) /\ Declared(d) /\ pc[d] # "idle"
      BY <2>1 DEF ContractInv
    <3>2. pc'[d] # "idle"
      BY <3>1
    <3> QED
      BY <3>1, <3>2
  <2>2. CASE Declared(c) /\ x \in ItemsOf(c)
    BY <2>2
  <2> QED
    BY <2>1, <2>2
<1>3. \A x \in Written' : \E d \in ExportCalls : x \in ItemsOf(d)' /\ Declared(d)' /\ pc'[d] # "idle"
  BY <1>1, <1>2 DEF ItemsOf
<1>4. ASSUME NEW d \in ExportCalls
      PROVE  /\ ~ Declared(d) => pc'[d] \in {"idle", "done"}
             /\ pc'[d] = "write" => Lines(d)
             /\ pc'[d] \in {"idle", "write", "put"} => d \notin late'
             /\ pc'[d] \in {"put", "apply"} =>
                   \A k \in 1 .. Len(Batch[d]) : k <= pos'[d] => Batch[d][k] \in taken'
             /\ result'[d] = "nil" /\ Declared(d) /\ ~ Lines(d) => ItemsOf(d) \subseteq taken'
  <2>1. CASE d = c
    BY <2>1
  <2>2. CASE d # c
    <3>1. pc'[d] = pc[d] /\ pos'[d] = pos[d] /\ result'[d] = result[d] /\ (d \in late' <=> d \in late)
      BY <2>2
    <3> QED
      BY <3>1 DEF ContractInv
  <2> QED
    BY <2>1, <2>2
<1>5. \A d \in ExportCalls : ItemsOf(d)' = ItemsOf(d)
  BY DEF ItemsOf
<1>6. /\ closed' => mu' = Nobody
      /\ kind' # "prometheus" /\ Down' => closed'
      /\ kind' # "prometheus" /\ Clean' => ~ werr' /\ buf' = <<>>
  BY DEF ContractInv
<1> QED
  BY <1>1, <1>3, <1>4, <1>5, <1>6 DEF ContractInv
-----------------------------------------------------------------------------
(* The contract's steps *)

LEMMA ContractTake ==
    ASSUME Down' = Down, Clean' = Clean, Backend \subseteq Backend',
           \A x \in Backend' : \E d \in ExportCalls : x \in ItemsOf(d) /\ Phase(d) # "idle",
           \A d \in ExportCalls : Phase(d)' # Phase(d) => Phase(d) = "early" /\ Phase(d)' = "error"
    PROVE  Contract!Next
  BY DEF Contract!Next, Contract!Take, Backend, Clean

LEMMA ContractAnswer ==
    ASSUME NEW c \in ExportCalls, Down' = Down, Clean' = Clean, Backend' = Backend,
           \A d \in ExportCalls \ {c} : Phase(d)' = Phase(d),
           \/ /\ Phase(c) = "idle" /\ Phase(c)' = IF Down THEN "late" ELSE "early"
           \/ /\ Phase(c) \in {"idle", "early", "late"} /\ Phase(c)' = "nil"
              /\ Phase(c) = "late" \/ (Phase(c) = "idle" /\ Down) => ItemsOf(c) \subseteq Backend
           \/ /\ Phase(c) \in {"idle", "early", "late"} /\ Phase(c)' = "error"
              /\ (Phase(c) = "late" \/ (Phase(c) = "idle" /\ Down))
                    /\ (\A x \in ItemsOf(c) : Known(x) /\ x.value >= 0) => ItemsOf(c) \cap Backend = {}
    PROVE  Contract!Next
<1> DEFINE old == [d \in ExportCalls |-> Phase(d)]
           new == [d \in ExportCalls |-> Phase(d)']
<1>1. new = [old EXCEPT ![c] = Phase(c)']
  OBVIOUS
<1>2. old[c] = Phase(c)
  OBVIOUS
<1> QED
  BY <1>1, <1>2 DEF Contract!Next, Contract!Begin, Contract!AnswerNil, Contract!AnswerError,
     Contract!Late, Backend, Clean

ContractVars == <<[c \in ExportCalls |-> Phase(c)], Backend, Down, Clean>>

ContractStep == Contract!Next \/ UNCHANGED ContractVars

LEMMA ContractStutter ==
    ASSUME Down' = Down, Clean' = Clean, Backend' = Backend,
           \A d \in ExportCalls : Phase(d)' = Phase(d)
    PROVE  ContractStep
  BY DEF ContractStep, ContractVars

LEMMA PhaseFacts ==
    ASSUME IInv, NEW c \in ExportCalls
    PROVE  /\ ~ Declared(c) \/ pc[c] = "idle" => Phase(c) = "idle"
           /\ Declared(c) /\ pc[c] # "idle" => Phase(c) # "idle"
           /\ Declared(c) /\ pc[c] \notin {"idle", "done"} =>
                 Phase(c) = IF c \in late THEN "late" ELSE "early"
  BY DEF Phase, IInv, Roles

LEMMA WrittenOwned ==
    ASSUME IInv, ContractInv, NEW x \in Written
    PROVE  \E d \in ExportCalls : x \in ItemsOf(d) /\ Phase(d) # "idle"
  BY PhaseFacts DEF ContractInv

\* An idle call has written nothing.
LEMMA IdleWroteNothing ==
    ASSUME ContractInv, NEW c \in ExportCalls, pc[c] = "idle"
    PROVE  ItemsOf(c) \cap Written = {}
  BY ExportersAssumption DEF ContractInv

\* Before the first Shutdown returns, nothing is closed or clean.
LEMMA OpenIsUp ==
    ASSUME ContractInv, kind # "prometheus", ~ closed
    PROVE  ~ Down /\ ~ Clean
  BY DEF ContractInv, Down, Clean
-----------------------------------------------------------------------------
(* Exports that write lines *)

LEMMA IgnoreMeets ==
    ASSUME IInv, IInv', ContractInv, NEW c \in ExportCalls, GcpExportMetrics(c) \/ PromExportEvents(c)
    PROVE  ContractInv' /\ ContractStep
<1>1. /\ pc[c] = "idle" /\ pc' = [pc EXCEPT ![c] = "done"] /\ result' = [result EXCEPT ![c] = "nil"]
      /\ late' = IF Down THEN late \cup {c} ELSE late
      /\ UNCHANGED <<kind, pos, mu, closed, buf, werr, log, taken, shown>>
  BY DEF GcpExportMetrics, PromExportEvents, Ignore, Begins, writer
<1>2. ~ Declared(c)
  BY ExportersAssumption DEF GcpExportMetrics, PromExportEvents, Declared
<1>3. Down' = Down /\ Clean' = Clean
  BY <1>1, ExportAnswers DEF IInv, TypeOK
<1>4. \A d \in ExportCalls : d # c =>
         pc'[d] = pc[d] /\ pos'[d] = pos[d] /\ result'[d] = result[d] /\ (d \in late' <=> d \in late)
  BY <1>1 DEF IInv, TypeOK
<1>5. Written' = Written /\ Backend' = Backend
  BY <1>1 DEF Written, Backend, stream
<1>6. pc'[c] = "done"
  BY <1>1 DEF IInv, TypeOK
<1>7. ContractInv'
  BY <1>1, <1>2, <1>3, <1>4, <1>5, <1>6, CallKeepsContract DEF ContractInv
<1>8. \A d \in ExportCalls : Phase(d)' = Phase(d)
  <2>1. Phase(c) = "idle" /\ Phase(c)' = "idle"
    BY <1>1, <1>2 DEF Phase, Declared
  <2> QED
    BY <1>1, <1>4, <2>1, PhaseStays
<1> QED
  BY <1>3, <1>5, <1>7, <1>8, ContractStutter

LEMMA OpenLinesMeets ==
    ASSUME IInv, IInv', ContractInv, NEW c \in ExportCalls, OpenLines(c), Lines(c)
    PROVE  ContractInv' /\ ContractStep
<1>1. /\ pc[c] = "idle" /\ Declared(c) /\ kind # "prometheus" /\ c \notin late
      /\ UNCHANGED <<kind, pos, closed, buf, werr, log, taken, shown>>
  BY DEF OpenLines, Begins, Lines, ContractInv, writer
<1>2. Down' = Down /\ Clean' = Clean
  BY ExportAnswers, ExportersAssumption DEF OpenLines, IInv, TypeOK
<1>3. \A d \in ExportCalls : d # c =>
         pc'[d] = pc[d] /\ pos'[d] = pos[d] /\ result'[d] = result[d] /\ (d \in late' <=> d \in late)
  BY <1>1 DEF OpenLines, Begins, IInv, TypeOK
<1>4. Written' = Written /\ Backend' = Backend
  BY <1>1 DEF Written, Backend, stream
<1>5. \A d \in ExportCalls \ {c} : Phase(d)' = Phase(d)
  BY <1>1, <1>3, PhaseStays
<1>6. Phase(c) = "idle" /\ Declared(c)'
  BY <1>1 DEF Phase, Declared
<1>7. CASE closed /\ pc'[c] = "done" /\ result'[c] = "refused" /\ mu' = mu
  <2>1. ContractInv'
    BY <1>1, <1>2, <1>3, <1>4, <1>7, CallKeepsContract DEF ContractInv
  <2>2. Phase(c)' = "error"
    BY <1>6, <1>7 DEF Phase
  <2>3. ItemsOf(c) \cap Backend = {}
    BY <1>1, IdleWroteNothing, BackendWritten
  <2> QED
    BY <1>2, <1>4, <1>5, <1>6, <2>1, <2>2, <2>3, ContractAnswer DEF ContractStep
<1>8. CASE ~ closed /\ pc'[c] = "write" /\ result'[c] = result[c] /\ (~ Down => late' = late)
  <2>1. ~ Down /\ ~ Clean
    BY <1>1, <1>8, OpenIsUp
  <2>2. result[c] = "none" /\ c \notin late'
    BY <1>1, <1>8, <2>1 DEF IInv, Roles
  <2>3. ContractInv'
    BY <1>1, <1>2, <1>3, <1>4, <1>8, <2>1, <2>2, CallKeepsContract DEF ContractInv
  <2>4. Phase(c)' = "early"
    BY <1>6, <1>8, <2>2 DEF Phase
  <2> QED
    BY <1>2, <1>4, <1>5, <1>6, <2>1, <2>3, <2>4, ContractAnswer DEF ContractStep
<1> QED
  BY <1>7, <1>8 DEF OpenLines, Begins, Refuses, IInv, TypeOK

\* While a call holds mu the exporter is open, and the call began before any
\* Shutdown returned.
LEMMA WriterIsEarly ==
    ASSUME IInv, ContractInv, NEW c \in ExportCalls, pc[c] = "write"
    PROVE  /\ Lines(c) /\ Declared(c) /\ kind # "prometheus" /\ ~ closed
           /\ ~ Down /\ ~ Clean /\ c \notin late /\ Phase(c) = "early" /\ result[c] = "none"
<1>1. Lines(c) /\ Declared(c) /\ kind # "prometheus" /\ c \notin late
  BY DEF ContractInv, Lines
<1>2. mu = c /\ result[c] = "none"
  BY DEF IInv, Roles
<1>3. ~ closed
  BY <1>2, ExportersAssumption DEF ContractInv
<1> QED
  BY <1>1, <1>2, <1>3, OpenIsUp, PhaseFacts

LEMMA WriteLineMeets ==
    ASSUME IInv, IInv', ContractInv, NEW c \in ExportCalls, WriteLine(c)
    PROVE  ContractInv' /\ ContractStep
<1>1. pc[c] = "write" /\ More(c) /\ UNCHANGED <<kind, closed, taken, shown, late>>
  BY DEF WriteLine
<1>2. /\ Lines(c) /\ Declared(c) /\ kind # "prometheus" /\ ~ closed
      /\ ~ Down /\ ~ Clean /\ c \notin late /\ Phase(c) = "early" /\ result[c] = "none"
  BY <1>1, WriterIsEarly
<1>3. /\ log \in Seq(AllItems) /\ buf \in Seq(AllItems) /\ Len(buf) \in Nat
      /\ NextItem(c) \in ItemsOf(c) /\ NextItem(c) \in AllItems
  BY <1>1, NextItemFacts DEF IInv, TypeOK
<1>4. \A d \in ExportCalls : d # c =>
         pc'[d] = pc[d] /\ pos'[d] = pos[d] /\ result'[d] = result[d] /\ (d \in late' <=> d \in late)
  BY <1>1 DEF WriteLine, WriteBuffered, WriteThrough, WriteFails, WriteRefused, Answers, IInv, TypeOK
<1>5. Down' = Down /\ Clean' = Clean
  BY ExportAnswers, ExportersAssumption DEF WriteLine, WriteBuffered, WriteThrough, WriteFails, WriteRefused,
     Answers, IInv, TypeOK
<1>6. \A d \in ExportCalls \ {c} : Phase(d)' = Phase(d)
  BY <1>1, <1>4, PhaseStays
<1>7. ASSUME Written' \subseteq Written \cup ItemsOf(c), pc'[c] \in {"write", "done"}, result'[c] # "nil"
      PROVE  ContractInv'
  BY <1>1, <1>2, <1>4, <1>5, <1>7, CallKeepsContract
<1>8. CASE WriteBuffered(c) \/ WriteThrough(c)
  <2>1. /\ UNCHANGED <<mu, pc, result>>
        /\ \/ buf' = Append(buf, NextItem(c)) /\ log' = log
           \/ buf' = <<NextItem(c)>> /\ log' = log \o buf
    BY <1>3, <1>8 DEF WriteBuffered, WriteThrough, Drain
  <2>2. stream' = Append(stream, NextItem(c)) /\ stream \in Seq(AllItems)
    <3>1. stream \in Seq(AllItems)
      BY <1>3 DEF stream
    <3>2. CASE buf' = Append(buf, NextItem(c)) /\ log' = log
      BY <1>3, <3>2 DEF stream
    <3>3. CASE buf' = <<NextItem(c)>> /\ log' = log \o buf
      BY <1>3, <3>3 DEF stream
    <3> QED
      BY <2>1, <3>1, <3>2, <3>3
  <2>3. ToSet(stream') = ToSet(stream) \cup {NextItem(c)}
    BY <1>3, <2>2, AppendSet
  <2>4. Written' \subseteq Written \cup ItemsOf(c)
    BY <1>1, <1>3, <2>3 DEF Written
  <2>5. ToSet(log') = ToSet(log) \/ ToSet(log') = ToSet(stream)
    BY <2>1 DEF stream
  <2>6. Backend \subseteq Backend' /\ Backend' \subseteq Written
    BY <1>1, <2>5, BackendWritten DEF Backend, Written
  <2>7. Phase(c)' = Phase(c)
    BY <1>1, <2>1, PhaseStays
  <2>8. ContractInv'
    BY <1>1, <1>2, <1>7, <2>1, <2>4
  <2>9. \A d \in ExportCalls : Phase(d)' = Phase(d)
    BY <1>6, <2>7
  <2> QED
    BY <1>5, <2>6, <2>8, <2>9, WrittenOwned, ContractTake DEF ContractStep
<1>9. CASE WriteFails(c) \/ WriteRefused(c)
  <2>1. pc'[c] = "done" /\ result'[c] = "error"
    BY <1>9 DEF WriteFails, WriteRefused, Answers, IInv, TypeOK
  <2>2. stream' = stream /\ ToSet(log) \subseteq ToSet(log')
    <3>1. CASE WriteRefused(c)
      BY <3>1 DEF WriteRefused, writer, stream
    <3>2. CASE WriteFails(c)
      <4>1. PICK n \in 0 .. Len(buf) - 1 : Drain(n) /\ buf' = SubSeq(buf, n + 1, Len(buf))
        BY <3>2 DEF WriteFails
      <4>2. n \in 0 .. Len(buf) /\ SubSeq(buf, 1, n) \in Seq(AllItems)
        BY <1>3
      <4> DEFINE front == SubSeq(buf, 1, n)
      <4>3. front \in Seq(AllItems) /\ log \in Seq(AllItems)
        BY <1>3, <4>2
      <4> HIDE DEF front
      <4>4. ToSet(log \o front) = ToSet(log) \cup ToSet(front)
        BY <4>3, ConcatSet
      <4>5. log' = log \o front
        BY <4>1 DEF Drain, front
      <4> QED
        BY <4>1, <4>2, <4>4, <4>5, DrainKeepsStream
    <3> QED
      BY <1>9, <3>1, <3>2
  <2>3. Written' = Written
    BY <1>1, <2>2 DEF Written
  <2>4. Backend \subseteq Backend' /\ Backend' \subseteq Written
    BY <1>1, <2>2, <2>3, BackendWritten DEF Backend
  <2>5. Phase(c)' = "error"
    BY <1>1, <1>2, <2>1 DEF Phase, Declared
  <2>6. ContractInv'
    BY <1>7, <2>1, <2>3
  <2>7. \A d \in ExportCalls : Phase(d)' # Phase(d) => Phase(d) = "early" /\ Phase(d)' = "error"
    BY <1>2, <1>6, <2>5
  <2> QED
    BY <1>5, <2>4, <2>6, <2>7, WrittenOwned, ContractTake DEF ContractStep
<1> QED
  BY <1>8, <1>9 DEF WriteLine

LEMMA WriteEndMeets ==
    ASSUME IInv, IInv', ContractInv, NEW c \in ExportCalls, WriteEnd(c)
    PROVE  ContractInv' /\ ContractStep
<1>1. /\ pc[c] = "write" /\ mu' = Nobody /\ pc' = [pc EXCEPT ![c] = "done"]
      /\ result' = [result EXCEPT ![c] = "nil"]
      /\ UNCHANGED <<kind, pos, closed, buf, werr, log, taken, shown, late>>
  BY DEF WriteEnd, Answers, writer
<1>2. /\ Lines(c) /\ Declared(c) /\ kind # "prometheus" /\ ~ closed
      /\ ~ Down /\ ~ Clean /\ c \notin late /\ Phase(c) = "early" /\ result[c] = "none"
  BY <1>1, WriterIsEarly
<1>3. \A d \in ExportCalls : d # c =>
         pc'[d] = pc[d] /\ pos'[d] = pos[d] /\ result'[d] = result[d] /\ (d \in late' <=> d \in late)
  BY <1>1 DEF IInv, TypeOK
<1>4. Down' = Down /\ Clean' = Clean
  BY <1>1, ExportAnswers DEF IInv, TypeOK
<1>5. Written' = Written /\ Backend' = Backend
  BY <1>1 DEF Written, Backend, stream
<1>6. pc'[c] = "done"
  BY <1>1 DEF IInv, TypeOK
<1>7. ContractInv'
  BY <1>1, <1>2, <1>3, <1>4, <1>5, <1>6, CallKeepsContract
<1>8. \A d \in ExportCalls \ {c} : Phase(d)' = Phase(d)
  BY <1>1, <1>3, PhaseStays
<1>9. Phase(c)' = "nil"
  BY <1>1, <1>2 DEF Phase, Declared, IInv, TypeOK
<1> QED
  BY <1>2, <1>4, <1>5, <1>7, <1>8, <1>9, ContractAnswer DEF ContractStep
-----------------------------------------------------------------------------
(* Exports through an API and to collectors *)

\* A chunk is what is next in its batch.
LEMMA ChunkCovers ==
    ASSUME IInv, NEW c \in ExportCalls, More(c)
    PROVE  /\ Chunk(c) \subseteq ItemsOf(c)
           /\ \A k \in 1 .. Len(Batch[c]) : pos[c] < k /\ k <= pos[c] + ChunkSize => Batch[c][k] \in Chunk(c)
<1> DEFINE end == IF pos[c] + ChunkSize < Len(Batch[c]) THEN pos[c] + ChunkSize
                                                         ELSE Len(Batch[c])
           chunk == SubSeq(Batch[c], pos[c] + 1, end)
<1>1. Batch[c] \in Seq(AllItems) /\ pos[c] \in Nat /\ pos[c] < Len(Batch[c]) /\ Len(Batch[c]) \in Nat
  BY BatchFacts DEF More, IInv, TypeOK
<1>2. pos[c] + 1 \in 1 .. Len(Batch[c]) /\ end \in pos[c] + 1 .. Len(Batch[c])
  BY <1>1, ExportersAssumption
<1>3. \A k \in 1 .. Len(Batch[c]) : pos[c] < k /\ k <= pos[c] + ChunkSize => k \in pos[c] + 1 .. end
  BY <1>1, ExportersAssumption
<1> HIDE DEF end
<1>4. /\ Len(chunk) = end - pos[c]
      /\ \A i \in 1 .. end - pos[c] : chunk[i] = Batch[c][pos[c] + i]
      /\ DOMAIN chunk = 1 .. end - pos[c]
  <2>1. PICK p \in Nat : p = pos[c]
    BY <1>1
  <2>2. PICK e \in Nat : e = end
    BY <1>1, <1>2
  <2>3. PICK s \in Seq(AllItems) : s = Batch[c]
    BY <1>1
  <2>4. p + 1 \in 1 .. Len(s) /\ e \in p + 1 .. Len(s) /\ p + 1 <= e
    BY <1>2, <2>1, <2>2, <2>3
  <2>5. \A i \in p + 1 .. e : s[i] \in AllItems
    BY <2>4
  <2>6. /\ SubSeq(s, p + 1, e) \in Seq(AllItems) /\ Len(SubSeq(s, p + 1, e)) = e - (p + 1) + 1
        /\ \A i \in 1 .. e - (p + 1) + 1 : SubSeq(s, p + 1, e)[i] = s[(p + 1) + i - 1]
    BY <2>4, <2>5, SubSeqProperties
  <2>7. e - (p + 1) + 1 = e - p /\ \A i \in 1 .. e - p : (p + 1) + i - 1 = p + i
    OBVIOUS
  <2>8. /\ Len(SubSeq(s, p + 1, e)) = e - p /\ DOMAIN SubSeq(s, p + 1, e) = 1 .. e - p
        /\ \A i \in 1 .. e - p : SubSeq(s, p + 1, e)[i] = s[p + i]
    BY <2>6, <2>7
  <2>9. chunk = SubSeq(s, p + 1, e)
    BY <2>1, <2>2, <2>3
  <2> HIDE DEF chunk
  <2> QED
    BY <2>1, <2>2, <2>3, <2>8, <2>9
<1> HIDE DEF chunk
<1>5. ASSUME NEW i \in DOMAIN chunk PROVE chunk[i] \in ItemsOf(c)
  <2>1. pos[c] + i \in 1 .. Len(Batch[c])
    BY <1>1, <1>2, <1>4
  <2> QED
    BY <1>4, <2>1, BatchFacts
<1>6. ASSUME NEW k \in pos[c] + 1 .. end PROVE Batch[c][k] \in ToSet(chunk)
  <2>1. k - pos[c] \in 1 .. end - pos[c] /\ pos[c] + (k - pos[c]) = k
    BY <1>1, <1>2
  <2>2. chunk[k - pos[c]] = Batch[c][k]
    BY <1>4, <2>1
  <2> QED
    BY <1>4, <2>1, <2>2 DEF ToSet
<1>7. Chunk(c) = ToSet(chunk)
  BY DEF Chunk, chunk, end
<1>8. ToSet(chunk) \subseteq ItemsOf(c)
  BY <1>5 DEF ToSet
<1> QED
  BY <1>3, <1>6, <1>7, <1>8

\* A metric call of the putter began before any Shutdown returned.
LEMMA PutterIsEarly ==
    ASSUME IInv, ContractInv, NEW c \in ExportCalls, pc[c] = "put"
    PROVE  /\ Declared(c) /\ ~ Lines(c) /\ kind = "put" /\ c \notin late
           /\ Phase(c) = "early" /\ result[c] = "none"
<1>1. kind = "put" /\ c \in MetricCalls /\ c \notin late /\ result[c] = "none"
  BY DEF IInv, Roles, ContractInv
<1>2. Declared(c) /\ ~ Lines(c)
  BY <1>1, ExportersAssumption DEF Declared, Lines
<1> QED
  BY <1>1, <1>2, PhaseFacts

LEMMA PutMetricsMeets ==
    ASSUME IInv, IInv', ContractInv, NEW c \in ExportCalls, PutMetrics(c)
    PROVE  ContractInv' /\ ContractStep
<1>1. /\ pc[c] = "idle" /\ kind = "put" /\ c \in MetricCalls /\ c \notin late
      /\ UNCHANGED <<kind, pos, mu, closed, buf, werr, log, taken, shown>>
  BY DEF PutMetrics, Begins, ContractInv, writer
<1>2. Declared(c) /\ Declared(c)' /\ ~ Lines(c) /\ Phase(c) = "idle" /\ pos[c] = 0
  BY <1>1, ExportersAssumption DEF Declared, Lines, Phase, IInv, Roles
<1>3. Down' = Down /\ Clean' = Clean
  BY ExportAnswers, ExportersAssumption DEF PutMetrics, IInv, TypeOK
<1>4. \A d \in ExportCalls : d # c =>
         pc'[d] = pc[d] /\ pos'[d] = pos[d] /\ result'[d] = result[d] /\ (d \in late' <=> d \in late)
  BY <1>1 DEF PutMetrics, Begins, IInv, TypeOK
<1>5. Written' = Written /\ Backend' = Backend
  BY <1>1 DEF Written, Backend, stream
<1>6. \A d \in ExportCalls \ {c} : Phase(d)' = Phase(d)
  BY <1>1, <1>4, PhaseStays
<1>7. CASE pc'[c] = "done" /\ result'[c] \in {"refused", "error"}
  <2>1. ContractInv'
    BY <1>1, <1>2, <1>3, <1>4, <1>5, <1>7, CallKeepsContract DEF ContractInv
  <2>2. Phase(c)' = "error"
    BY <1>2, <1>7 DEF Phase
  <2>3. ItemsOf(c) \cap Backend = {}
    BY <1>1, IdleWroteNothing, BackendWritten
  <2> QED
    BY <1>2, <1>3, <1>5, <1>6, <2>1, <2>2, <2>3, ContractAnswer DEF ContractStep
<1>8. CASE ~ closed /\ pc'[c] = "put" /\ result'[c] = result[c] /\ (~ Down => late' = late)
  <2>1. ~ Down /\ ~ Clean
    BY <1>1, <1>8, OpenIsUp
  <2>2. result[c] = "none" /\ c \notin late'
    BY <1>1, <1>8, <2>1 DEF IInv, Roles
  <2>3. \A k \in 1 .. Len(Batch[c]) : ~ (k <= pos'[c])
    BY <1>1, <1>2, BatchFacts
  <2>4. ContractInv'
    BY <1>1, <1>2, <1>3, <1>4, <1>5, <1>8, <2>1, <2>2, <2>3, CallKeepsContract
  <2>5. Phase(c)' = "early"
    BY <1>2, <1>8, <2>2 DEF Phase
  <2> QED
    BY <1>2, <1>3, <1>5, <1>6, <2>1, <2>4, <2>5, ContractAnswer DEF ContractStep
<1> QED
  BY <1>7, <1>8 DEF PutMetrics, Begins, Refuses, IInv, TypeOK

LEMMA PutChunkMeets ==
    ASSUME IInv, IInv', ContractInv, NEW c \in ExportCalls, PutChunk(c) \/ PutFails(c)
    PROVE  ContractInv' /\ ContractStep
<1>1. /\ pc[c] = "put" /\ More(c) /\ taken' \in {taken, taken \cup Chunk(c)}
      /\ UNCHANGED <<kind, mu, closed, buf, werr, log, shown, late>>
  BY DEF PutChunk, PutFails, writer
<1>2. /\ Declared(c) /\ ~ Lines(c) /\ kind = "put" /\ c \notin late
      /\ Phase(c) = "early" /\ result[c] = "none"
  BY <1>1, PutterIsEarly
<1>3. /\ Chunk(c) \subseteq ItemsOf(c)
      /\ \A k \in 1 .. Len(Batch[c]) : pos[c] < k /\ k <= pos[c] + ChunkSize => Batch[c][k] \in Chunk(c)
  BY <1>1, ChunkCovers
<1>4. \A d \in ExportCalls : d # c =>
         pc'[d] = pc[d] /\ pos'[d] = pos[d] /\ result'[d] = result[d] /\ (d \in late' <=> d \in late)
  BY <1>1 DEF PutChunk, PutFails, Answers, IInv, TypeOK
<1>5. Down' = Down /\ Clean' = Clean
  BY ExportAnswers, ExportersAssumption DEF PutChunk, PutFails, Answers, IInv, TypeOK
<1>6. /\ taken \subseteq taken' /\ Written' \subseteq Written \cup ItemsOf(c)
      /\ Backend \subseteq Backend' /\ Backend' \subseteq Backend \cup ItemsOf(c)
  BY <1>1, <1>3 DEF Written, Backend, stream
<1>7. \A x \in Backend' : \E d \in ExportCalls : x \in ItemsOf(d) /\ Phase(d) # "idle"
  BY <1>2, <1>6, WrittenOwned, BackendWritten
<1>8. \A d \in ExportCalls \ {c} : Phase(d)' = Phase(d)
  BY <1>1, <1>4, PhaseStays
<1>9. kind # "prometheus" /\ Clean => ~ werr' /\ buf' = <<>>
  BY <1>1 DEF ContractInv
<1>10. closed => mu' = Nobody
  BY <1>1 DEF ContractInv
<1>11. CASE PutChunk(c)
  <2>1. taken' = taken \cup Chunk(c) /\ pos'[c] = pos[c] + ChunkSize /\ pc' = pc /\ result' = result
    BY <1>11 DEF PutChunk, IInv, TypeOK
  <2>2. ASSUME NEW k \in 1 .. Len(Batch[c]), k <= pos'[c] PROVE Batch[c][k] \in taken'
    <3>1. pos[c] \in Nat
      BY DEF IInv, TypeOK
    <3>2. CASE k <= pos[c]
      BY <1>1, <2>1, <3>2 DEF ContractInv
    <3>3. CASE pos[c] < k
      BY <1>3, <2>1, <2>2, <3>3
    <3> QED
      BY <3>1, <3>2, <3>3
  <2>3. ContractInv'
    BY <1>1, <1>2, <1>4, <1>5, <1>6, <1>9, <1>10, <2>1, <2>2, CallKeepsContract
  <2>4. Phase(c)' = Phase(c)
    BY <1>1, <2>1, PhaseStays
  <2> QED
    BY <1>5, <1>6, <1>7, <1>8, <2>3, <2>4, ContractTake DEF ContractStep
<1>12. CASE PutFails(c)
  <2>1. pc'[c] = "done" /\ result'[c] = "error"
    BY <1>12 DEF PutFails, Answers, IInv, TypeOK
  <2>2. ContractInv'
    BY <1>1, <1>2, <1>4, <1>5, <1>6, <1>9, <1>10, <2>1, CallKeepsContract
  <2>3. Phase(c)' = "error"
    BY <1>1, <1>2, <2>1 DEF Phase, Declared
  <2> QED
    BY <1>2, <1>5, <1>6, <1>7, <1>8, <2>2, <2>3, ContractTake DEF ContractStep
<1> QED
  BY <1>11, <1>12

\* A call that has applied all its items and ends with a nil.
LEMMA EndMeets ==
    ASSUME IInv, IInv', ContractInv, NEW c \in ExportCalls, PutEnd(c) \/ ApplyEnd(c)
    PROVE  ContractInv' /\ ContractStep
<1>1. /\ pc[c] \in {"put", "apply"} /\ ~ More(c)
      /\ pc' = [pc EXCEPT ![c] = "done"] /\ result' = [result EXCEPT ![c] = "nil"]
      /\ UNCHANGED <<kind, pos, mu, closed, buf, werr, log, taken, shown, late>>
  BY DEF PutEnd, ApplyEnd, Answers, writer
<1>2. Declared(c) /\ Phase(c) \in {"early", "late"}
  BY <1>1, PhaseFacts DEF ContractInv
<1>3. ItemsOf(c) \subseteq taken
  <2>1. pos[c] \in Nat /\ Batch[c] \in Seq(AllItems) /\ Len(Batch[c]) \in Nat
    BY BatchFacts DEF IInv, TypeOK
  <2>2. \A k \in 1 .. Len(Batch[c]) : k <= pos[c]
    BY <1>1, <2>1 DEF More
  <2>3. \A k \in 1 .. Len(Batch[c]) : Batch[c][k] \in taken
    BY <1>1, <2>2 DEF ContractInv
  <2> QED
    BY <2>1, <2>3 DEF ItemsOf, ToSet
<1>4. \A d \in ExportCalls : d # c =>
         pc'[d] = pc[d] /\ pos'[d] = pos[d] /\ result'[d] = result[d] /\ (d \in late' <=> d \in late)
  BY <1>1 DEF IInv, TypeOK
<1>5. Down' = Down /\ Clean' = Clean
  BY <1>1, ExportAnswers DEF IInv, TypeOK
<1>6. Written' = Written /\ Backend' = Backend
  BY <1>1 DEF Written, Backend, stream
<1>7. pc'[c] = "done"
  BY <1>1 DEF IInv, TypeOK
<1>8. ContractInv'
  BY <1>1, <1>2, <1>3, <1>4, <1>5, <1>6, <1>7, CallKeepsContract DEF ContractInv
<1>9. \A d \in ExportCalls \ {c} : Phase(d)' = Phase(d)
  BY <1>1, <1>4, PhaseStays
<1>10. Phase(c)' = "nil"
  BY <1>1, <1>2 DEF Phase, Declared, IInv, TypeOK
<1>11. ItemsOf(c) \subseteq Backend
  BY <1>3 DEF Backend
<1> QED
  BY <1>2, <1>5, <1>6, <1>8, <1>9, <1>10, <1>11, ContractAnswer DEF ContractStep

LEMMA PromExportMetricsMeets ==
    ASSUME IInv, IInv', ContractInv, NEW c \in ExportCalls, PromExportMetrics(c)
    PROVE  ContractInv' /\ ContractStep
<1>1. /\ pc[c] = "idle" /\ pc' = [pc EXCEPT ![c] = "apply"] /\ kind = "prometheus" /\ c \in MetricCalls
      /\ late' = IF Down THEN late \cup {c} ELSE late
      /\ UNCHANGED <<kind, pos, mu, closed, buf, werr, log, taken, shown, result>>
  BY DEF PromExportMetrics, Begins, writer
<1>2. /\ Declared(c) /\ Declared(c)' /\ Phase(c) = "idle" /\ pos[c] = 0 /\ result[c] = "none"
      /\ c \notin late
  BY <1>1, ExportersAssumption DEF Declared, Phase, IInv, Roles, ContractInv
<1>3. Down' = Down /\ Clean' = Clean
  BY <1>1 DEF Down, Clean
<1>4. \A d \in ExportCalls : d # c =>
         pc'[d] = pc[d] /\ pos'[d] = pos[d] /\ result'[d] = result[d] /\ (d \in late' <=> d \in late)
  BY <1>1 DEF IInv, TypeOK
<1>5. Written' = Written /\ Backend' = Backend
  BY <1>1 DEF Written, Backend, stream
<1>6. pc'[c] = "apply" /\ (c \in late' <=> Down)
  BY <1>1, <1>2 DEF IInv, TypeOK
<1>7. \A k \in 1 .. Len(Batch[c]) : ~ (k <= pos'[c])
  BY <1>1, <1>2, BatchFacts
<1>8. ContractInv'
  BY <1>1, <1>2, <1>3, <1>4, <1>5, <1>6, <1>7, CallKeepsContract DEF ContractInv
<1>9. \A d \in ExportCalls \ {c} : Phase(d)' = Phase(d)
  BY <1>1, <1>4, PhaseStays
<1>10. Phase(c)' = IF Down THEN "late" ELSE "early"
  BY <1>1, <1>2, <1>6 DEF Phase
<1> QED
  BY <1>2, <1>3, <1>5, <1>8, <1>9, <1>10, ContractAnswer DEF ContractStep

\* Prometheus applies a point, or refuses one that is malformed.
LEMMA ApplyMeets ==
    ASSUME IInv, IInv', ContractInv, NEW c \in ExportCalls, Apply(c)
    PROVE  ContractInv' /\ ContractStep
<1>1. /\ pc[c] = "apply" /\ More(c) /\ kind = "prometheus"
      /\ UNCHANGED <<kind, mu, closed, buf, werr, log, late>>
  BY DEF Apply, writer, IInv, Roles
<1>2. /\ Declared(c) /\ ~ Lines(c) /\ Phase(c) \in {"early", "late"} /\ result[c] = "none"
  BY <1>1, PhaseFacts DEF ContractInv, Lines, IInv, Roles
<1>3. /\ NextItem(c) \in ItemsOf(c) /\ NextItem(c) = Batch[c][pos[c] + 1] /\ NextItem(c).value \in Int
      /\ pos[c] \in Nat
  BY <1>1, NextItemFacts, ExportersAssumption DEF IInv, TypeOK
<1>4. \A d \in ExportCalls : d # c =>
         pc'[d] = pc[d] /\ pos'[d] = pos[d] /\ result'[d] = result[d] /\ (d \in late' <=> d \in late)
  BY <1>1 DEF Apply, AddCounter, SetInflight, ApplyFails, Answers, IInv, TypeOK
<1>5. Down' = Down /\ Clean' = Clean
  BY ExportAnswers, ExportersAssumption DEF Apply, AddCounter, SetInflight, ApplyFails, Answers, IInv, TypeOK
<1>6. \A d \in ExportCalls \ {c} : Phase(d)' = Phase(d)
  BY <1>1, <1>4, PhaseStays
<1>7. closed => mu' = Nobody
  BY <1>1 DEF ContractInv
<1>8. CASE AddCounter(c) \/ SetInflight(c)
  <2>1. /\ taken' = taken \cup {NextItem(c)} /\ pos'[c] = pos[c] + 1 /\ pc' = pc /\ result' = result
    BY <1>8 DEF AddCounter, SetInflight, IInv, TypeOK
  <2>2. ASSUME NEW k \in 1 .. Len(Batch[c]), k <= pos'[c] PROVE Batch[c][k] \in taken'
    <3>1. CASE k <= pos[c]
      BY <1>1, <2>1, <3>1 DEF ContractInv
    <3>2. CASE k = pos[c] + 1
      BY <1>3, <2>1, <3>2
    <3> QED
      BY <1>3, <2>1, <2>2, <3>1, <3>2
  <2>3. /\ Written' \subseteq Written \cup ItemsOf(c)
        /\ Backend \subseteq Backend' /\ Backend' \subseteq Backend \cup ItemsOf(c)
    BY <1>1, <1>3, <2>1 DEF Written, Backend, stream
  <2>4. \A x \in Backend' : \E d \in ExportCalls : x \in ItemsOf(d) /\ Phase(d) # "idle"
    BY <1>2, <2>3, WrittenOwned, BackendWritten
  <2>5. ContractInv'
    BY <1>1, <1>2, <1>4, <1>5, <1>7, <2>1, <2>2, <2>3, CallKeepsContract
  <2>6. Phase(c)' = Phase(c)
    BY <1>1, <2>1, PhaseStays
  <2> QED
    BY <1>5, <1>6, <2>3, <2>4, <2>5, <2>6, ContractTake DEF ContractStep
<1>9. CASE ApplyFails(c)
  <2>1. pc'[c] = "done" /\ result'[c] = "error" /\ UNCHANGED <<taken, pos>>
    BY <1>9 DEF ApplyFails, Answers, IInv, TypeOK
  <2>2. Written' = Written /\ Backend' = Backend
    BY <1>1, <2>1 DEF Written, Backend, stream
  <2>3. ContractInv'
    BY <1>1, <1>2, <1>4, <1>5, <1>7, <2>1, <2>2, CallKeepsContract
  <2>4. Phase(c)' = "error"
    BY <1>1, <1>2, <2>1 DEF Phase, Declared
  <2>5. ~ (\A x \in ItemsOf(c) : Known(x) /\ x.value >= 0)
    BY <1>3, <1>9 DEF ApplyFails
  <2> QED
    BY <1>2, <1>5, <1>6, <2>2, <2>3, <2>4, <2>5, ContractAnswer DEF ContractStep
<1> QED
  BY <1>8, <1>9 DEF Apply
-----------------------------------------------------------------------------
(* Shutdowns *)

LEMMA ContractShutdown ==
    ASSUME NEW ok \in BOOLEAN, Clean => ok, Down' = TRUE, Clean' = (Clean \/ ok),
           Backend \subseteq Backend',
           \A x \in Backend' : \E d \in ExportCalls : x \in ItemsOf(d) /\ Phase(d) # "idle",
           ok => \A d \in ExportCalls : Phase(d) = "nil" => ItemsOf(d) \subseteq Backend',
           \A d \in ExportCalls : Phase(d)' = Phase(d)
    PROVE  Contract!Next
<1>1. Contract!Shutdown(ok)
  BY DEF Contract!Shutdown, Contract!Owed, Backend, Clean
<1> QED
  BY <1>1 DEF Contract!Next

LEMMA NilPhase ==
    ASSUME NEW c \in ExportCalls, Phase(c) = "nil"
    PROVE  result[c] = "nil" /\ Declared(c)
<1>1. Declared(c) /\ pc[c] # "idle"
  BY DEF Phase
<1>2. result[c] = "nil"
  <2> SUFFICES ASSUME result[c] # "nil" PROVE FALSE
    OBVIOUS
  <2>1. CASE result[c] \in {"error", "refused"}
    BY <1>1, <2>1 DEF Phase
  <2>2. CASE result[c] \notin {"error", "refused", "nil"}
    BY <1>1, <2>2 DEF Phase
  <2> QED
    BY <2>1, <2>2
<1> QED
  BY <1>1, <1>2

\* Whatever was acknowledged has been written.
LEMMA AckedIsWritten ==
    ASSUME IInv, ContractInv, NEW c \in ExportCalls, Phase(c) = "nil"
    PROVE  /\ ItemsOf(c) \subseteq Written
           /\ kind = "prometheus" => ItemsOf(c) \subseteq Backend
<1>1. result[c] = "nil" /\ Declared(c)
  BY NilPhase
<1>2. CASE ~ Lines(c)
  BY <1>1, <1>2 DEF ContractInv, Written, Backend
<1>3. CASE Lines(c)
  <2>1. kind # "prometheus"
    BY <1>3 DEF Lines
  <2>2. stream \in Seq(AllItems) /\ Batch[c] \in Seq(AllItems) /\ Len(Batch[c]) \in Nat
    BY BatchFacts DEF IInv, TypeOK, stream
  <2>3. PICK i \in 0 .. Len(stream) - Len(Batch[c]) : Stands(c, i, Len(Batch[c]))
    BY <1>1, <1>3 DEF IInv, LinesInv, LinesOfCall
  <2>4. ASSUME NEW k \in 1 .. Len(Batch[c]) PROVE Batch[c][k] \in ToSet(stream)
    <3>1. i + k \in DOMAIN stream /\ stream[i + k] = Batch[c][k]
      BY <2>2, <2>3 DEF Stands
    <3> QED
      BY <3>1 DEF ToSet
  <2>5. ItemsOf(c) \subseteq ToSet(stream)
    BY <2>2, <2>4 DEF ItemsOf, ToSet
  <2> QED
    BY <2>1, <2>5 DEF Written
<1> QED
  BY <1>2, <1>3

\* A Shutdown leaves the calls alone.
LEMMA ShutdownKeepsContract ==
    ASSUME IInv, ContractInv, Written' = Written, UNCHANGED <<kind, pc, pos, taken, late>>,
           \A c \in ExportCalls : result'[c] = result[c],
           closed' => mu' = Nobody,
           kind # "prometheus" => closed',
           kind # "prometheus" /\ Clean' => ~ werr' /\ buf' = <<>>
    PROVE  ContractInv'
<1>1. \A d \in ExportCalls : Declared(d)' = Declared(d) /\ Lines(d)' = Lines(d) /\ ItemsOf(d)' = ItemsOf(d)
  BY DEF Declared, Lines, ItemsOf
<1> QED
  BY <1>1 DEF ContractInv

LEMMA CloseWriterMeets ==
    ASSUME IInv, IInv', ContractInv, NEW s \in Closers, CloseWriter(s), kind # "prometheus"
    PROVE  ContractInv' /\ ContractStep
<1>1. /\ mu = Nobody /\ closed' = TRUE
      /\ UNCHANGED <<kind, pc, pos, mu, taken, shown, late>>
  BY DEF CloseWriter, LockFree
<1>2. /\ log \in Seq(AllItems) /\ buf \in Seq(AllItems) /\ Len(buf) \in Nat /\ werr \in BOOLEAN
      /\ result'[s] # "none"
      /\ \A c \in ExportCalls \cup Closers : c # s => result'[c] = result[c]
      /\ \A c \in ExportCalls : c # s
  BY ExportersAssumption DEF CloseWriter, IInv, TypeOK
<1>3. stream' = stream /\ ToSet(log) \subseteq ToSet(log')
  <2>1. ASSUME NEW n \in 0 .. Len(buf), Drain(n), buf' = SubSeq(buf, n + 1, Len(buf))
        PROVE  stream' = stream /\ ToSet(log) \subseteq ToSet(log')
    <3>1. SubSeq(buf, 1, n) \in Seq(AllItems)
      BY <1>2
    <3> DEFINE front == SubSeq(buf, 1, n)
    <3>2. front \in Seq(AllItems) /\ log \in Seq(AllItems)
      BY <1>2, <3>1
    <3> HIDE DEF front
    <3>3. ToSet(log \o front) = ToSet(log) \cup ToSet(front)
      BY <3>2, ConcatSet
    <3>4. log' = log \o front
      BY <2>1 DEF Drain, front
    <3> QED
      BY <2>1, <3>3, <3>4, DrainKeepsStream
  <2>2. CASE FlushOk
    <3>1. Len(buf) \in 0 .. Len(buf) /\ buf' = SubSeq(buf, Len(buf) + 1, Len(buf))
      BY <1>2, <2>2 DEF FlushOk
    <3> QED
      BY <2>1, <2>2, <3>1 DEF FlushOk
  <2>3. CASE UNCHANGED writer
    BY <2>3 DEF writer, stream
  <2>4. ASSUME NEW n \in 0 .. Len(buf) - 1, Drain(n), buf' = SubSeq(buf, n + 1, Len(buf))
        PROVE  stream' = stream /\ ToSet(log) \subseteq ToSet(log')
    BY <1>2, <2>1, <2>4
  <2> QED
    BY <2>2, <2>3, <2>4 DEF CloseWriter, FlushFails
<1>4. Written' = Written
  BY <1>1, <1>3 DEF Written
<1>5. Backend \subseteq Backend' /\ \A x \in Backend' : \E d \in ExportCalls : x \in ItemsOf(d) /\ Phase(d) # "idle"
  BY <1>1, <1>3, <1>4, BackendWritten, WrittenOwned DEF Backend
<1>6. \A d \in ExportCalls : Phase(d)' = Phase(d)
  BY <1>1, <1>2, PhaseStays
<1>7. Down' = TRUE
  BY <1>2 DEF Down
<1>8. CASE FlushOk /\ result' = [result EXCEPT ![s] = "nil"]
  <2>1. ~ werr' /\ buf' = <<>>
    BY <1>2, <1>8 DEF FlushOk, Drain
  <2>2. Clean' = TRUE
    BY <1>8 DEF Clean, IInv, TypeOK
  <2>3. Backend' = Written
    <3>1. ToSet(<<>>) = {}
      BY DEF ToSet
    <3> QED
      BY <1>4, <2>1, <3>1, BackendWritten
  <2>4. \A d \in ExportCalls : Phase(d) = "nil" => ItemsOf(d) \subseteq Backend'
    BY <2>3, AckedIsWritten
  <2>5. ContractInv'
    BY <1>1, <1>2, <1>4, <2>1, ShutdownKeepsContract
  <2> QED
    BY <1>5, <1>6, <1>7, <2>2, <2>4, <2>5, ContractShutdown DEF ContractStep
<1>9. CASE FlushFails /\ result' = [result EXCEPT ![s] = "error"]
  <2>1. ~ Clean
    <3> SUFFICES ASSUME Clean PROVE FALSE
      OBVIOUS
    <3>1. ~ werr /\ Len(buf) = 0
      BY DEF ContractInv
    <3> QED
      BY <1>9, <3>1 DEF FlushFails
  <2>2. ~ Clean'
    BY <1>9, <2>1 DEF Clean, IInv, TypeOK
  <2>3. ContractInv'
    BY <1>1, <1>2, <1>4, <2>2, ShutdownKeepsContract
  <2>4. Clean = FALSE /\ Clean' = FALSE
    BY <2>1, <2>2 DEF Clean
  <2>5. Contract!Shutdown(FALSE)
    BY <1>5, <1>6, <1>7, <2>4 DEF Contract!Shutdown, Contract!Owed, Backend, Clean
  <2>6. Contract!Next
    BY <2>5 DEF Contract!Next
  <2> QED
    BY <2>3, <2>6 DEF ContractStep
<1> QED
  BY <1>8, <1>9 DEF CloseWriter

LEMMA PromShutdownMeets ==
    ASSUME IInv, IInv', ContractInv, NEW s \in Closers, PromShutdown(s)
    PROVE  ContractInv' /\ ContractStep
<1>1. /\ kind = "prometheus" /\ result' = [result EXCEPT ![s] = "nil"]
      /\ UNCHANGED <<kind, pc, pos, mu, closed, buf, werr, log, taken, shown, late>>
  BY DEF PromShutdown, writer
<1>2. /\ result'[s] = "nil" /\ \A c \in ExportCalls : result'[c] = result[c]
  BY <1>1, ExportersAssumption DEF IInv, TypeOK
<1>3. Written' = Written /\ Backend' = Backend
  BY <1>1 DEF Written, Backend, stream
<1>4. \A d \in ExportCalls : Phase(d)' = Phase(d)
  BY <1>1, <1>2, PhaseStays
<1>5. Down' = TRUE /\ Clean' = TRUE
  BY <1>2 DEF Down, Clean
<1>6. ContractInv'
  BY <1>1, <1>2, <1>3, ShutdownKeepsContract DEF ContractInv
<1>7. \A d \in ExportCalls : Phase(d) = "nil" => ItemsOf(d) \subseteq Backend'
  BY <1>1, <1>3, AckedIsWritten
<1>8. \A x \in Backend' : \E d \in ExportCalls : x \in ItemsOf(d) /\ Phase(d) # "idle"
  BY <1>3, WrittenOwned, BackendWritten
<1> QED
  BY <1>3, <1>4, <1>5, <1>6, <1>7, <1>8, ContractShutdown DEF ContractStep
-----------------------------------------------------------------------------
LEMMA InitMeets == Init => ContractInv /\ Contract!Init
<1> SUFFICES ASSUME Init PROVE ContractInv /\ Contract!Init
  OBVIOUS
<1>1. ToSet(log) = {} /\ ToSet(stream) = {}
  BY DEF Init, stream, ToSet
<1>2. ~ Down /\ ~ Clean
  BY DEF Init, Down, Clean
<1>3. ContractInv
  BY <1>1, <1>2, BatchFacts DEF Init, ContractInv, Written
<1>4. Contract!Init
  BY <1>1, <1>2 DEF Init, Contract!Init, Phase, Clean
<1> QED
  BY <1>3, <1>4

LEMMA NextMeets == IInv /\ IInv' /\ ContractInv /\ [Next]_vars => ContractInv' /\ ContractStep
<1> SUFFICES ASSUME IInv, IInv', ContractInv, [Next]_vars PROVE ContractInv' /\ ContractStep
  OBVIOUS
<1>1. ASSUME NEW c \in ExportCalls, ExportStep(c) PROVE ContractInv' /\ ContractStep
  <2>1. CASE GcpExportEvents(c) \/ CwExportEvents(c) \/ WriteMetricRecords(c)
    <3>1. OpenLines(c) /\ Lines(c)
      BY <2>1 DEF GcpExportEvents, CwExportEvents, WriteMetricRecords, Lines, Declared
    <3> QED
      BY <3>1, OpenLinesMeets
  <2> QED
    BY <1>1, <2>1, IgnoreMeets, WriteLineMeets, WriteEndMeets, PutMetricsMeets, PutChunkMeets,
       EndMeets, PromExportMetricsMeets, ApplyMeets DEF ExportStep
<1>2. ASSUME NEW s \in Closers, GcpShutdown(s) \/ CwShutdown(s) \/ PromShutdown(s)
      PROVE  ContractInv' /\ ContractStep
  BY <1>2, CloseWriterMeets, PromShutdownMeets DEF GcpShutdown, CwShutdown
<1>3. CASE UNCHANGED vars
  <2>1. UNCHANGED <<kind, pc, pos, mu, closed, buf, werr, log, taken, shown, result, late>>
    BY <1>3 DEF vars, writer
  <2>2. Written' = Written /\ Backend' = Backend /\ Down' = Down /\ Clean' = Clean
    BY <2>1 DEF Written, Backend, stream, Down, Clean
  <2>3. \A d \in ExportCalls : /\ Phase(d)' = Phase(d) /\ Declared(d)' = Declared(d)
                               /\ Lines(d)' = Lines(d) /\ ItemsOf(d)' = ItemsOf(d)
    BY <2>1 DEF Phase, Declared, Lines, ItemsOf
  <2>4. ContractInv'
    BY <2>1, <2>2, <2>3 DEF ContractInv
  <2> QED
    BY <2>2, <2>3, <2>4, ContractStutter
<1> QED
  BY <1>1, <1>2, <1>3 DEF Next

\* All three exporters implement the contract of emit.Exporter, for any batches,
\* buffer and chunk sizes and any interleaving of exports and Shutdowns: what is
\* acknowledged is with the backend once a Shutdown answers nil, later Shutdowns
\* answer nil, too, and an export that begins after one is refused whole or works.
THEOREM ExportersMeetContract == Spec => ContractSpec
<1>1. ContractStep => [Contract!Next]_<<[c \in ExportCalls |-> Phase(c)], ToSet(log) \cup taken, Down,
                                        \E s \in Closers : result[s] = "nil">>
  BY DEF ContractStep, ContractVars, Backend, Clean
<1> QED
  BY <1>1, InitMeets, NextMeets, IInvAlways, PTL DEF Spec, ContractSpec, Contract!Spec
=============================================================================
