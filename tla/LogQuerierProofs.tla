-------------------------- MODULE LogQuerierProofs --------------------------
(***************************************************************************)
(* Proofs about the queriers of the log stores, for any store, any query,  *)
(* any cap and any pages, failures and late entries.                       *)
(***************************************************************************)
EXTENDS LogQuerier, FiniteSetTheorems, TLAPS

\* Outcomes the query is about, and entries an answer may not miss.
Relevant(X) == {n \in X : Entries[n].form = "outcome" /\ Asked(n)}
Wanted(X)   == {n \in X : Marked(Entries[n]) /\ Asked(n)}

Types ==
    /\ backend \in {"cwinsights", "gcplogging", "sql"} /\ query \in Queries
    /\ quoted \in BOOLEAN /\ (quoted => backend = "gcplogging")
    /\ log \subseteq DOMAIN Entries /\ asOf \subseteq DOMAIN Entries
    /\ job \in {"none", "running", "complete", "failed"}

\* A table has outcomes only, and a statement is not a job.
Table == backend = "sql" => job = "none" /\ \A n \in log \cup asOf : Entries[n].form = "outcome"

\* What a job has for the client is of one log, and misses nothing of it
\* unless it reached the limit.
Job == job = "complete" =>
    /\ result \in Seq(asOf)
    /\ Len(result) < Limit => Wanted(asOf) \subseteq ToSet(result)

\* The rows are a prefix of the result, cut off at the token.
Prefix(k) ==
    /\ k \in 0 .. Len(result) /\ rows = SubSeq(result, 1, k)
    /\ phase = "paging" => token = (IF k = Len(result) THEN 0 ELSE k) /\ (k = 0 => Len(result) = 0)
    /\ phase = "decoding" => k = Len(result) \/ k > MaxRows

Arrived ==
    /\ phase \in {"idle", "polling", "waiting", "paging", "decoding", "scanning", "answered", "failed"}
    /\ phase = "idle" => rows = NoRows /\ token = 0 /\ job = "none"
    /\ phase \in {"paging", "decoding"} => job = "complete" /\ \E k \in Nat : Prefix(k)

Empty(row) == query.groupBy = {} /\ row.count = 0

\* A statement's rows are the groups the reference has, or the one row of a
\* statement over nothing, and those scanned are the rows but for that one.
Scan == phase = "scanning" =>
    /\ backend = "sql"
    /\ \E groups :
         /\ QueryEvents(StoreOf(Outcomes(asOf)), query) = {groups}
         /\ result \in Seq(ToSet(result)) /\ token \in 0 .. Len(result)
         /\ {row \in ToSet(result) : ~ Empty(row)} = groups
    /\ rows \in Seq(ToSet(result))
    /\ ToSet(rows) = {row \in {result[i] : i \in 1 .. token} : ~ Empty(row)}

Whole ==
    /\ answer = QueryEvents(StoreOf(Outcomes(asOf)), query)
    /\ \A n \in asOf : Asked(n) => Entries[n].form # "mangled"

Answered == phase = "answered" => job # "running" /\ Whole

QInv == Types /\ Table /\ Job /\ Arrived /\ Scan /\ Answered

-----------------------------------------------------------------------------
(* The reference *)

LEMMA EventFields ==
    ASSUME NEW n \in DOMAIN Entries
    PROVE  Event(n).at = Entries[n].at /\ Event(n).labels = Entries[n].labels
  BY DEF Event

LEMMA Matched ==
    ASSUME NEW X \in SUBSET DOMAIN Entries
    PROVE  MatchingEvents(StoreOf(Outcomes(X)), query) = {Event(n) : n \in Relevant(X)}
  <1>1. StoreOf(Outcomes(X)).events = Outcomes(X) BY DEF StoreOf
  <1>2. ASSUME NEW n \in X
        PROVE  (InRange(Event(n).at, query.range) /\ MatchFilters(Event(n).labels, query.filters)) <=> Asked(n)
    BY EventFields DEF Asked
  <1> QED BY <1>1, <1>2 DEF MatchingEvents, Outcomes, Relevant

AnswerOf(matched, qy) ==
    LET keys  == {GroupKey(e.labels, qy.groupBy) : e \in matched}
        of(k) == {e \in matched : GroupKey(e.labels, qy.groupBy) = k}
    IN  IF CurrencyInvariant(qy) THEN {{Group(k, of(k), qy.agg) : k \in keys}} ELSE {}

\* An answer depends on the relevant outcomes only.
LEMMA AnswerFrom ==
    ASSUME NEW X \in SUBSET DOMAIN Entries
    PROVE  QueryEvents(StoreOf(Outcomes(X)), query) = AnswerOf({Event(n) : n \in Relevant(X)}, query)
  <1>1. StoreOf(Outcomes(X)).caps.events /\ "events" \notin StoreOf(Outcomes(X)).down BY DEF StoreOf
  <1>2. QueryEvents(StoreOf(Outcomes(X)), query) = AnswerOf(MatchingEvents(StoreOf(Outcomes(X)), query), query)
    BY <1>1 DEF QueryEvents, AnswerOf
  <1> QED BY <1>2, Matched

LEMMA SameAnswer ==
    ASSUME NEW X \in SUBSET DOMAIN Entries, NEW Y \in SUBSET DOMAIN Entries, Relevant(X) = Relevant(Y)
    PROVE  QueryEvents(StoreOf(Outcomes(X)), query) = QueryEvents(StoreOf(Outcomes(Y)), query)
  BY AnswerFrom

-----------------------------------------------------------------------------
(* The service *)

LEMMA FloorBelow ==
    ASSUME NEW t \in Int, NEW unit \in Nat \ {0}
    PROVE  Floor(t, unit) \in Int /\ Floor(t, unit) <= t /\ t - unit < Floor(t, unit)
  <1>1. t % unit \in 0 .. unit - 1 OBVIOUS
  <1> DEFINE m == t % unit
  <1> HIDE DEF m
  <1>2. m \in 0 .. unit - 1 BY <1>1 DEF m
  <1>3. t - m \in Int /\ t - m <= t /\ t - unit < t - m BY <1>2
  <1> QED BY <1>3 DEF Floor, m

\* What is asked of the store includes the window.
LEMMA WindowInside ==
    ASSUME Types, NEW t \in Int, InRange(t, query.range)
    PROVE  InRange(t, Widened(query.range))
  <1> DEFINE from == query.range.from
             to   == query.range.to
  <1>1. from \in Nat /\ to \in Nat /\ from <= t /\ t < to BY LogQuerierAssumption DEF Types, InRange
  <1>2. Second \in Nat \ {0} /\ Resolution \in Nat \ {0} BY LogQuerierAssumption
  <1> HIDE DEF from, to
  <1>3. Floor(from, Second) \in Int /\ Floor(from, Second) <= from BY <1>1, <1>2, FloorBelow
  <1>4. Floor(from, Resolution) \in Int /\ Floor(from, Resolution) <= from BY <1>1, <1>2, FloorBelow
  <1>5. Floor(to, Second) \in Int /\ to - Second < Floor(to, Second) BY <1>1, <1>2, FloorBelow
  <1>6. Ceil(to, Resolution) \in Int /\ to <= Ceil(to, Resolution)
    <2> DEFINE u == to + Resolution - 1
    <2>1. u \in Int BY <1>1, <1>2
    <2> HIDE DEF u
    <2>2. Floor(u, Resolution) \in Int /\ u - Resolution < Floor(u, Resolution) BY <1>2, <2>1, FloorBelow
    <2>3. Ceil(to, Resolution) = Floor(u, Resolution) BY DEF Ceil, u
    <2> QED BY <1>1, <1>2, <2>2, <2>3 DEF u
  <1>7. CASE backend = "cwinsights"
    <2>1. Widened(query.range).from = Floor(from, Second) - Second /\ Widened(query.range).to = Floor(to, Second) + Second + 1
      BY <1>7 DEF Widened, from, to
    <2> QED BY <1>1, <1>2, <1>3, <1>5, <2>1 DEF InRange
  <1>8. CASE backend # "cwinsights"
    <2>1. Widened(query.range).from = Floor(from, Resolution) /\ Widened(query.range).to = Ceil(to, Resolution)
      BY <1>8 DEF Widened, from, to
    <2> QED BY <1>1, <1>4, <1>6, <2>1 DEF InRange
  <1> QED BY <1>7, <1>8

\* The selection misses nothing the answer needs.
LEMMA SelectedEnough ==
    ASSUME Types, NEW filtered
    PROVE  Selected(filtered) \subseteq log /\ Wanted(log) \subseteq Selected(filtered)
  <1>1. ASSUME NEW n \in log, Asked(n) PROVE InRange(Entries[n].at, Widened(query.range))
    <2>1. Entries[n].at \in Int BY LogQuerierAssumption DEF Types
    <2> QED BY <1>1, <2>1, WindowInside DEF Asked
  <1> QED BY <1>1 DEF Selected, Wanted, Asked

LEMMA InTime ==
    ASSUME NEW S, IsFiniteSet(S), NEW s \in ByTime(S)
    PROVE  s \in Seq(S) /\ ToSet(s) = S
  <1>1. Cardinality(S) \in Nat BY FS_CardinalityType
  <1> QED BY <1>1 DEF ByTime

\* The first n elements of a sequence.
LEMMA FirstOf ==
    ASSUME NEW S, NEW s \in Seq(S), NEW n \in 0 .. Len(s)
    PROVE  /\ SubSeq(s, 1, n) \in Seq(S) /\ Len(SubSeq(s, 1, n)) = n
           /\ \A i \in 1 .. n : SubSeq(s, 1, n)[i] = s[i]
           /\ n = Len(s) => SubSeq(s, 1, n) = s
  <1>1. n \in Nat /\ n <= Len(s) /\ Len(s) \in Nat OBVIOUS
  <1>2. SubSeq(s, 1, n) \in Seq(S) /\ Len(SubSeq(s, 1, n)) = n
    <2>1. \A i \in 1 .. n : s[i] \in S BY <1>1
    <2> QED BY <1>1, <2>1
  <1>3. ASSUME NEW i \in 1 .. n PROVE SubSeq(s, 1, n)[i] = s[i] BY <1>1
  <1>4. n = Len(s) => SubSeq(s, 1, n) = s BY <1>1, <1>2, <1>3
  <1> QED BY <1>2, <1>3, <1>4

LEMMA FinishKeeps ==
    ASSUME QInv, NEW filtered, Finish(filtered)
    PROVE  QInv'
  <1>1. PICK found \in ByTime(Selected(filtered)) :
          result' = SubSeq(found, 1, IF Len(found) < Limit THEN Len(found) ELSE Limit)
    BY DEF Finish
  <1>2. /\ job = "running" /\ job' = "complete" /\ asOf' = log
        /\ UNCHANGED <<backend, query, quoted, looping, log, expired, phase, rows, token, seen, answer>>
    BY DEF Finish, service, arrived
  <1>3. Selected(filtered) \subseteq log /\ Wanted(log) \subseteq Selected(filtered) BY SelectedEnough DEF QInv
  <1>4. IsFiniteSet(Selected(filtered)) BY <1>3, LogQuerierAssumption, FS_Subset DEF QInv, Types
  <1>5. found \in Seq(Selected(filtered)) /\ ToSet(found) = Selected(filtered) BY <1>4, InTime
  <1> DEFINE n == IF Len(found) < Limit THEN Len(found) ELSE Limit
  <1>6. Limit \in Nat /\ Len(found) \in Nat /\ n \in 0 .. Len(found) BY <1>5, LogQuerierAssumption DEF Limit
  <1>7. result' \in Seq(Selected(filtered)) /\ Len(result') = n /\ (n = Len(found) => result' = found)
    BY <1>1, <1>5, <1>6, FirstOf
  <1>8. result' \in Seq(log) BY <1>3, <1>7
  <1>9. Len(result') < Limit => Wanted(log) \subseteq ToSet(result') BY <1>3, <1>5, <1>6, <1>7
  <1>10. Limit' = Limit
    BY <1>2 DEF Limit
  <1>11. Job'
    <2>1. Wanted(asOf)' = Wanted(log) BY <1>2 DEF Wanted, Asked
    <2> QED BY <1>2, <1>8, <1>9, <1>10, <2>1 DEF Job
  <1>12. Types' /\ Table' BY <1>2 DEF QInv, Types, Table
  <1>13. phase \notin {"idle", "paging", "decoding", "scanning", "answered"}
    BY <1>2 DEF QInv, Arrived, Scan, Answered, Table
  <1>14. Arrived' /\ Scan' /\ Answered' BY <1>2, <1>13 DEF QInv, Arrived, Scan, Answered
  <1> QED BY <1>11, <1>12, <1>14 DEF QInv

LEMMA JobFailsKeeps == ASSUME QInv, JobFails PROVE QInv'
  <1>1. /\ job = "running" /\ job' = "failed"
        /\ UNCHANGED <<backend, query, quoted, looping, log, result, asOf, expired, phase, rows, token, seen, answer>>
    BY DEF JobFails, service, arrived
  <1>2. phase \notin {"idle", "paging", "decoding", "scanning", "answered"}
    BY <1>1 DEF QInv, Arrived, Scan, Answered, Table
  <1>3. Types' /\ Table' /\ Job' BY <1>1 DEF QInv, Types, Table, Job
  <1> QED BY <1>1, <1>2, <1>3 DEF QInv, Arrived, Scan, Answered

LEMMA IngestKeeps == ASSUME QInv, NEW n \in DOMAIN Entries, Ingest(n) PROVE QInv'
  <1>1. /\ job = "running" /\ log' = log \cup {n}
        /\ UNCHANGED <<backend, query, quoted, looping, job, result, asOf, expired, phase, rows, token, seen, answer>>
    BY DEF Ingest, service, arrived
  <1>2. phase \notin {"idle", "paging", "decoding", "scanning", "answered"}
    BY <1>1 DEF QInv, Arrived, Scan, Answered, Table
  <1>3. Types' /\ Table' /\ Job' BY <1>1 DEF QInv, Types, Table, Job
  <1> QED BY <1>1, <1>2, <1>3 DEF QInv, Arrived, Scan, Answered

\* Nothing the invariant speaks of moves.
LEMMA StillKeeps ==
    ASSUME QInv, UNCHANGED <<service, log, job, result, asOf, phase, rows, token, answer>>
    PROVE  QInv'
  <1>1. UNCHANGED <<backend, query, quoted, looping, log, job, result, asOf, phase, rows, token, answer>> BY DEF service
  <1>2. Types' /\ Table' BY <1>1 DEF QInv, Types, Table
  <1>3. Job' BY <1>1 DEF QInv, Job, Limit, Wanted, Asked
  <1>4. Arrived' BY <1>1 DEF QInv, Arrived, Prefix
  <1>5. Scan'
    <2>1. StoreOf(Outcomes(asOf))' = StoreOf(Outcomes(asOf)) BY <1>1
    <2>2. \A row : Empty(row)' = Empty(row) BY <1>1 DEF Empty
    <2> QED BY <1>1, <2>1, <2>2 DEF QInv, Scan
  <1>6. Answered' BY <1>1 DEF QInv, Answered, Whole, Asked
  <1> QED BY <1>2, <1>3, <1>4, <1>5, <1>6 DEF QInv

-----------------------------------------------------------------------------
(* The client *)

\* A client that fails has nothing to say.
LEMMA FailKeeps == ASSUME QInv, Fail PROVE QInv'
  <1>1. /\ phase' = "failed"
        /\ UNCHANGED <<backend, query, quoted, looping, log, expired, job, result, asOf, rows, token, seen, answer>>
    BY DEF Fail, Goto, service, arrived
  <1>2. Types' /\ Table' BY <1>1 DEF QInv, Types, Table
  <1>3. Job' BY <1>1 DEF QInv, Job, Limit, Wanted, Asked
  <1> QED BY <1>1, <1>2, <1>3 DEF QInv, Arrived, Scan, Answered

\* A step among the phases before rows arrive.
LEMMA WaitingKeeps ==
    ASSUME QInv, phase' \in {"polling", "waiting"}, job' \in {job, "running"}, job' # job => backend # "sql",
           UNCHANGED <<service, log, result, asOf>>
    PROVE  QInv'
  <1>1. UNCHANGED <<backend, query, quoted, looping, log, result, asOf>> BY DEF service
  <1>2. Types' /\ Table' BY <1>1 DEF QInv, Types, Table
  <1>3. Job' BY <1>1 DEF QInv, Job, Limit, Wanted, Asked
  <1> QED BY <1>1, <1>2, <1>3 DEF QInv, Arrived, Scan, Answered

\* The rows so far are a prefix of the result.
LEMMA PrefixKeeps ==
    ASSUME QInv, phase' \in {"paging", "decoding"}, job = "complete", NEW k \in Nat, Prefix(k)',
           UNCHANGED <<service, log, job, result, asOf>>
    PROVE  QInv'
  <1>1. UNCHANGED <<backend, query, quoted, looping, log, job, result, asOf>> BY DEF service
  <1>2. Types' /\ Table' BY <1>1 DEF QInv, Types, Table
  <1>3. Job' BY <1>1 DEF QInv, Job, Limit, Wanted, Asked
  <1>4. Arrived' BY <1>1 DEF Arrived
  <1> QED BY <1>1, <1>2, <1>3, <1>4 DEF QInv, Scan, Answered

\* A page ends at some place of the result, or repeats its token without rows.
LEMMA PageAt ==
    ASSUME NEW offset \in Nat, NEW page \in Pages(offset), result \in Seq(asOf)
    PROVE  \/ offset # 0 /\ page = [rows |-> NoRows, next |-> offset]
           \/ \E k \in (IF result = NoRows THEN 0 ELSE offset + 1) .. Len(result) :
                page = [rows |-> SubSeq(result, offset + 1, k), next |-> IF k = Len(result) THEN 0 ELSE k]
  BY DEF Pages

\* What a page adds to the rows before it.
LEMMA PageAdds ==
    ASSUME NEW S, NEW s \in Seq(S), NEW a \in 0 .. Len(s), NEW b \in a .. Len(s)
    PROVE  SubSeq(s, 1, a) \o SubSeq(s, a + 1, b) = SubSeq(s, 1, b)
  <1>1. a \in Nat /\ b \in Nat /\ a <= b /\ b <= Len(s) /\ Len(s) \in Nat
    <2>1. Len(s) \in Nat OBVIOUS
    <2> QED BY <2>1
  <1>2. /\ SubSeq(s, 1, a) \in Seq(S) /\ Len(SubSeq(s, 1, a)) = a /\ \A i \in 1 .. a : SubSeq(s, 1, a)[i] = s[i]
        /\ SubSeq(s, 1, b) \in Seq(S) /\ Len(SubSeq(s, 1, b)) = b /\ \A i \in 1 .. b : SubSeq(s, 1, b)[i] = s[i]
    BY <1>1, FirstOf
  <1> DEFINE t == SubSeq(s, a + 1, b)
  <1>3. t \in Seq(S) /\ Len(t) = b - a
    <2>1. \A i \in a + 1 .. b : s[i] \in S BY <1>1
    <2>2. IF a + 1 <= b THEN Len(t) = b - a ELSE Len(t) = 0 BY <1>1
    <2>3. t \in Seq(S) BY <1>1, <2>1
    <2> QED BY <1>1, <2>2, <2>3
  <1>4. ASSUME NEW i \in 1 .. b - a PROVE t[i] = s[a + i]
    <2>1. i \in Nat /\ (a + 1) + i - 1 = a + i BY <1>1
    <2> QED BY <1>1, <2>1
  <1> HIDE DEF t
  <1> DEFINE p == SubSeq(s, 1, a)
             q == SubSeq(s, 1, b)
  <1>5. p \o t \in Seq(S) /\ Len(p \o t) = b BY <1>1, <1>2, <1>3
  <1>6. ASSUME NEW i \in 1 .. b PROVE (p \o t)[i] = q[i]
    <2>1. CASE i <= a
      <3>1. i \in 1 .. a BY <1>1, <2>1
      <3>2. (p \o t)[i] = p[i] BY <1>2, <1>3, <3>1
      <3> QED BY <1>2, <3>1, <3>2
    <2>2. CASE ~ (i <= a)
      <3>1. i - a \in 1 .. b - a /\ a + (i - a) = i BY <1>1, <2>2
      <3>2. (p \o t)[i] = t[i - a] BY <1>1, <1>2, <1>3, <2>2, <3>1
      <3> QED BY <1>2, <1>4, <3>1, <3>2
    <2> QED BY <2>1, <2>2
  <1> HIDE DEF p, q
  <1>7. q \in Seq(S) /\ Len(q) = b BY <1>2 DEF q
  <1>8. p \o t = q BY <1>5, <1>6, <1>7
  <1> QED BY <1>8 DEF p, q, t

LEMMA PollKeeps == ASSUME QInv, Poll PROVE QInv'
  <1>1. CASE Fail BY <1>1, FailKeeps
  <1>2. CASE Goto("waiting") /\ UNCHANGED <<job, result, asOf, arrived>>
    <2>1. phase' \in {"polling", "waiting"} /\ job' = job /\ UNCHANGED <<service, log, result, asOf>>
      BY <1>2 DEF Goto
    <2> QED BY <2>1, WaitingKeeps
  <1> DEFINE still == UNCHANGED <<service, log, job, result, asOf>>
  <1>3. ASSUME job = "complete", result \in Seq(asOf) PROVE Len(result) \in Nat /\ SubSeq(result, 1, Len(result)) = result
    BY <1>3, FirstOf
  <1>4. CASE job = "complete" /\ backend = "cwinsights" /\ rows' = result /\ token' = 0 /\ Goto("decoding")
             /\ UNCHANGED <<job, result, asOf, seen, answer>>
    <2>1. result \in Seq(asOf) BY <1>4 DEF QInv, Job
    <2>2. still /\ phase' = "decoding" BY <1>4 DEF Goto
    <2>3. Prefix(Len(result))' BY <1>3, <1>4, <2>1, <2>2 DEF Prefix
    <2> QED BY <1>3, <1>4, <2>1, <2>2, <2>3, PrefixKeeps
  <1>5. CASE job = "complete" /\ (\E page \in Pages(0) : rows' = page.rows /\ token' = page.next) /\ Goto("paging")
             /\ UNCHANGED <<job, result, asOf, seen, answer>>
    <2>1. result \in Seq(asOf) /\ Len(result) \in Nat BY <1>5 DEF QInv, Job
    <2>2. still /\ phase' = "paging" BY <1>5 DEF Goto
    <2>3. PICK k \in (IF result = NoRows THEN 0 ELSE 1) .. Len(result) :
            rows' = SubSeq(result, 1, k) /\ token' = IF k = Len(result) THEN 0 ELSE k
      <3>1. PICK page \in Pages(0) : rows' = page.rows /\ token' = page.next BY <1>5
      <3>2. 0 + 1 = 1 /\ 0 \in Nat OBVIOUS
      <3> QED BY <2>1, <3>1, <3>2, PageAt
    <2>4. k \in Nat /\ k \in 0 .. Len(result) /\ (k = 0 => Len(result) = 0) BY <2>1, <2>3 DEF NoRows
    <2>5. Prefix(k)' BY <2>1, <2>2, <2>3, <2>4 DEF Prefix
    <2> QED BY <1>5, <2>2, <2>4, <2>5, PrefixKeeps
  <1> QED BY <1>1, <1>2, <1>4, <1>5 DEF Poll

LEMMA PageKeeps == ASSUME QInv, Page PROVE QInv'
  <1>1. phase = "paging" /\ job = "complete" /\ result \in Seq(asOf) BY DEF Page, QInv, Arrived, Job
  <1>2. PICK k \in Nat : Prefix(k) BY <1>1 DEF QInv, Arrived
  <1>3. /\ k \in 0 .. Len(result) /\ Len(result) \in Nat /\ rows = SubSeq(result, 1, k) /\ Len(rows) = k
        /\ token = (IF k = Len(result) THEN 0 ELSE k) /\ (k = 0 => Len(result) = 0)
    BY <1>1, <1>2, FirstOf DEF Prefix
  <1>4. MaxRows \in Nat BY LogQuerierAssumption
  <1>5. CASE Fail BY <1>5, FailKeeps
  <1>6. CASE (token = 0 \/ Len(rows) > MaxRows) /\ Goto("decoding") /\ UNCHANGED <<job, result, asOf, arrived>>
    <2>1. k = Len(result) \/ k > MaxRows BY <1>3, <1>6
    <2>2. phase' = "decoding" /\ UNCHANGED <<service, log, job, result, asOf, rows, token>> BY <1>6 DEF Goto, arrived
    <2>3. Prefix(k)' BY <1>3, <2>1, <2>2 DEF Prefix
    <2> QED BY <1>1, <2>2, <2>3, PrefixKeeps
  <1>7. CASE /\ token # 0 /\ (\E page \in Pages(token) : rows' = rows \o page.rows /\ token' = page.next)
             /\ Goto("paging") /\ UNCHANGED <<job, result, asOf, answer>>
    <2>1. token = k /\ k # 0 /\ k < Len(result) /\ k \in Nat BY <1>3, <1>7
    <2>2. phase' = "paging" /\ UNCHANGED <<service, log, job, result, asOf>> BY <1>7 DEF Goto
    <2>3. PICK page \in Pages(k) : rows' = rows \o page.rows /\ token' = page.next BY <1>7, <2>1
    <2>4. CASE page = [rows |-> NoRows, next |-> k]
      <3>1. rows \in Seq(asOf) BY <1>1, <1>3, FirstOf
      <3>2. rows' = rows /\ token' = k BY <2>3, <2>4, <3>1 DEF NoRows
      <3>3. Prefix(k)' BY <1>3, <2>1, <2>2, <3>2 DEF Prefix
      <3> QED BY <1>1, <2>2, <3>3, PrefixKeeps
    <2>5. ASSUME NEW l \in (IF result = NoRows THEN 0 ELSE k + 1) .. Len(result),
                 page = [rows |-> SubSeq(result, k + 1, l), next |-> IF l = Len(result) THEN 0 ELSE l]
          PROVE  QInv'
      <3>1. l \in Nat /\ l \in k .. Len(result) /\ l \in 0 .. Len(result) /\ l # 0
        <4>1. result # NoRows BY <1>3, <2>1 DEF NoRows
        <4> QED BY <1>3, <2>1, <4>1
      <3>2. rows' = SubSeq(result, 1, l) BY <1>1, <1>3, <2>3, <2>5, <3>1, PageAdds
      <3>3. token' = (IF l = Len(result) THEN 0 ELSE l) BY <2>3, <2>5
      <3>4. Prefix(l)' BY <2>2, <3>1, <3>2, <3>3 DEF Prefix
      <3> QED BY <1>1, <2>2, <3>1, <3>4, PrefixKeeps
    <2> QED BY <1>1, <2>1, <2>4, <2>5, PageAt
  <1> QED BY <1>5, <1>6, <1>7 DEF Page

\* Rows that are not cut off are all the answer needs.
LEMMA NotTruncated ==
    ASSUME QInv, phase = "decoding", ~ Truncated
    PROVE  ToSet(rows) \subseteq asOf /\ Wanted(asOf) \subseteq ToSet(rows)
  <1>1. job = "complete" /\ result \in Seq(asOf) /\ (Len(result) < Limit => Wanted(asOf) \subseteq ToSet(result))
    BY DEF QInv, Arrived, Job
  <1>2. PICK k \in Nat : Prefix(k) BY DEF QInv, Arrived
  <1>3. k \in 0 .. Len(result) /\ rows = SubSeq(result, 1, k) /\ Len(rows) = k /\ (k = Len(result) \/ k > MaxRows)
    BY <1>1, <1>2, FirstOf DEF Prefix
  <1>4. MaxRows \in Nat BY LogQuerierAssumption
  <1>5. k <= MaxRows /\ k < Limit
    <2>1. CASE backend = "cwinsights" BY <1>3, <1>4, <2>1 DEF Truncated, Limit
    <2>2. CASE backend = "gcplogging" BY <1>3, <1>4, <2>2 DEF Truncated, Limit
    <2>3. backend # "sql" BY <1>1 DEF QInv, Table
    <2> QED BY <2>1, <2>2, <2>3 DEF QInv, Types
  <1>6. k = Len(result) BY <1>3, <1>4, <1>5
  <1>7. rows = result BY <1>1, <1>3, <1>6, FirstOf
  <1>8. ToSet(result) \subseteq asOf BY <1>1 DEF ToSet
  <1> QED BY <1>1, <1>5, <1>6, <1>7, <1>8

LEMMA DecodeKeeps == ASSUME QInv, Decode PROVE QInv'
  <1> DEFINE X == {n \in ToSet(rows) : IsObject(n)}
             groups == QueryEvents(StoreOf(Outcomes(X)), query)
  <1>1. CASE Fail BY <1>1, FailKeeps
  <1>2. CASE ~ Truncated /\ ~ Undecodable /\ Answer(groups)
    <2>1. phase = "decoding" /\ job = "complete" BY DEF Decode, QInv, Arrived
    <2>2. ToSet(rows) \subseteq asOf /\ Wanted(asOf) \subseteq ToSet(rows) BY <1>2, <2>1, NotTruncated
    <2>3. quoted => ToSet(rows) = {}
      <3>1. ASSUME quoted, rows # NoRows PROVE FALSE
        <4>1. backend = "gcplogging" BY <3>1 DEF QInv, Types
        <4>2. \A n \in ToSet(rows) : ~ IsObject(n) BY <3>1 DEF IsObject
        <4> QED BY <1>2, <3>1, <4>1, <4>2 DEF Undecodable
      <3> QED BY <3>1 DEF NoRows, ToSet
    <2>4. ASSUME NEW n \in asOf, Marked(Entries[n]), Asked(n)
          PROVE  n \in X /\ Entries[n].form # "mangled"
      <3>1. n \in ToSet(rows) BY <2>2, <2>4 DEF Wanted
      <3>2. IsObject(n) BY <2>3, <2>4, <3>1 DEF IsObject, Marked
      <3> QED BY <1>2, <3>1, <3>2 DEF Undecodable
    <2>5. Relevant(X) = Relevant(asOf)
      <3>1. Relevant(X) \subseteq Relevant(asOf) BY <2>2 DEF Relevant
      <3>2. Relevant(asOf) \subseteq Relevant(X) BY <2>4 DEF Relevant, Marked
      <3> QED BY <3>1, <3>2
    <2>6. groups = QueryEvents(StoreOf(Outcomes(asOf)), query)
      <3>1. asOf \in SUBSET DOMAIN Entries /\ X \in SUBSET DOMAIN Entries BY <2>2 DEF QInv, Types
      <3> HIDE DEF X
      <3> QED BY <2>5, <3>1, SameAnswer
    <2> HIDE DEF groups, X
    <2>7. /\ phase' = "answered" /\ answer' = groups
          /\ UNCHANGED <<backend, query, quoted, looping, log, expired, job, result, asOf, rows, token, seen>>
      BY <1>2 DEF Answer, Goto, service
    <2>8. Whole'
      <3>1. \A n \in asOf : Asked(n) => Entries[n].form # "mangled" BY <2>4 DEF Marked
      <3>2. \A n : Asked(n)' = Asked(n) BY <2>7 DEF Asked
      <3> QED BY <2>6, <2>7, <3>1, <3>2 DEF Whole
    <2>9. Types' /\ Table' BY <2>7 DEF QInv, Types, Table
    <2>10. Job' BY <2>7 DEF QInv, Job, Limit, Wanted, Asked
    <2> QED BY <2>1, <2>7, <2>8, <2>9, <2>10 DEF QInv, Arrived, Scan, Answered
  <1> QED BY <1>1, <1>2 DEF Decode

-----------------------------------------------------------------------------
(* The statement *)

\* An enumeration has every element of its set.
LEMMA Enumerated ==
    ASSUME NEW S, IsFiniteSet(S)
    PROVE  SetToSeq(S) \in Seq(S) /\ ToSet(SetToSeq(S)) = S
  <1> DEFINE n == Cardinality(S)
             f == SetToSeq(S)
  <1>1. n \in Nat /\ ExistsBijection(1 .. n, S) BY FS_CardinalityType
  <1>2. PICK b \in Bijection(1 .. n, S) : TRUE BY <1>1 DEF ExistsBijection
  <1>3. b \in [1 .. n -> S] /\ IsInjective(b) BY <1>2 DEF Bijection, Injection, IsInjective
  <1>4. f \in [1 .. n -> S] /\ IsInjective(f) BY <1>3 DEF SetToSeq
  <1> HIDE DEF f
  <1>5. f \in Injection(1 .. n, S) BY <1>4 DEF Injection, IsInjective
  <1>6. IsFiniteSet(1 .. n) /\ Cardinality(1 .. n) = n BY <1>1, FS_Interval
  <1>7. f \in Surjection(1 .. n, S) BY <1>5, <1>6, FS_Injection
  <1>8. ToSet(f) = S BY <1>4, <1>7 DEF Surjection, ToSet
  <1> HIDE DEF n
  <1>9. f \in Seq(S) BY <1>1, <1>4
  <1> QED BY <1>8, <1>9 DEF f

\* A group has members.
LEMMA GroupsCount ==
    ASSUME Types, CurrencyInvariant(query), NEW X \in SUBSET DOMAIN Entries
    PROVE  \E groups : /\ QueryEvents(StoreOf(Outcomes(X)), query) = {groups} /\ IsFiniteSet(groups)
                       /\ \A g \in groups : g.count # 0
  <1> DEFINE matched == {Event(n) : n \in Relevant(X)}
             key(e)  == GroupKey(e.labels, query.groupBy)
             keys    == {key(e) : e \in matched}
             of(k)   == {e \in matched : key(e) = k}
             groups  == {Group(k, of(k), query.agg) : k \in keys}
  <1>1. QueryEvents(StoreOf(Outcomes(X)), query) = {groups} BY AnswerFrom DEF AnswerOf
  <1>2. IsFiniteSet(Relevant(X)) BY FS_Subset, LogQuerierAssumption DEF Relevant
  <1>3. IsFiniteSet(matched)
    <2> DEFINE f == [n \in Relevant(X) |-> Event(n)]
    <2>1. f \in Surjection(Relevant(X), matched) BY DEF Surjection
    <2> HIDE DEF f
    <2> QED BY <1>2, <2>1, FS_Surjection
  <1> HIDE DEF matched
  <1>4. IsFiniteSet(keys)
    <2> DEFINE f == [e \in matched |-> key(e)]
    <2>1. f \in Surjection(matched, keys) BY DEF Surjection
    <2> HIDE DEF f
    <2> QED BY <1>3, <2>1, FS_Surjection
  <1> HIDE DEF keys
  <1>5. IsFiniteSet(groups)
    <2> DEFINE f == [k \in keys |-> Group(k, of(k), query.agg)]
    <2>1. f \in Surjection(keys, groups) BY DEF Surjection
    <2> HIDE DEF f
    <2> QED BY <1>4, <2>1, FS_Surjection
  <1>6. ASSUME NEW k \in keys PROVE Group(k, of(k), query.agg).count # 0
    <2>1. IsFiniteSet(of(k)) /\ of(k) # {} BY <1>3, FS_Subset DEF keys
    <2>2. Cardinality(of(k)) # 0 BY <2>1, FS_EmptySet
    <2> QED BY <2>2 DEF Group
  <1> HIDE DEF of
  <1>7. \A g \in groups : g.count # 0 BY <1>6
  <1> HIDE DEF groups
  <1> QED BY <1>1, <1>5, <1>7

LEMMA StartStatementKeeps == ASSUME QInv, StartStatement PROVE QInv'
  <1>1. PICK groups : /\ QueryEvents(StoreOf(Outcomes(log)), query) = {groups} /\ IsFiniteSet(groups)
                      /\ \A g \in groups : g.count # 0
    <2>1. Types /\ log \in SUBSET DOMAIN Entries BY DEF QInv, Types
    <2>2. CurrencyInvariant(query) BY DEF StartStatement, Refused
    <2> QED BY <2>1, <2>2, GroupsCount
  <1> DEFINE none == [key |-> GroupKey(query.filters, {}), count |-> 0, sum |-> 0, max |-> 0]
             S == IF groups = {} /\ query.groupBy = {} THEN {none} ELSE groups
  <1>2. /\ phase = "idle" /\ backend = "sql" /\ result' = SetToSeq(S) /\ asOf' = log /\ phase' = "scanning"
        /\ UNCHANGED <<backend, query, quoted, looping, log, expired, job, rows, token, seen, answer>>
    BY <1>1 DEF StartStatement, Goto, service, arrived
  <1>3. rows = NoRows /\ token = 0 /\ job = "none" BY <1>2 DEF QInv, Arrived
  <1>4. IsFiniteSet(S) BY <1>1, FS_Singleton
  <1>5. {row \in S : ~ Empty(row)} = groups BY <1>1 DEF Empty
  <1> HIDE DEF S
  <1>6. result' \in Seq(S) /\ ToSet(result') = S /\ Len(result') \in Nat BY <1>2, <1>4, Enumerated
  <1>7. ToSet(rows) = {} /\ rows \in Seq(S) BY <1>3 DEF NoRows, ToSet
  <1>8. Scan'
    <2>1. \A row : Empty(row)' = Empty(row) BY <1>2 DEF Empty
    <2>2. ToSet(rows') = {row \in {result'[i] : i \in 1 .. token'} : ~ Empty(row)} BY <1>2, <1>3, <1>7
    <2> QED BY <1>1, <1>2, <1>3, <1>5, <1>6, <1>7, <2>1, <2>2 DEF Scan
  <1>9. Types' /\ Table' BY <1>2 DEF QInv, Types, Table
  <1>10. Job' BY <1>2, <1>3 DEF Job
  <1> QED BY <1>2, <1>8, <1>9, <1>10 DEF QInv, Arrived, Answered

LEMMA ScanRowKeeps == ASSUME QInv, ScanRow PROVE QInv'
  <1>1. /\ phase = "scanning" /\ phase' = "scanning" /\ token < Len(result) /\ token' = token + 1
        /\ rows' = IF Empty(result[token + 1]) THEN rows ELSE Append(rows, result[token + 1])
        /\ UNCHANGED <<backend, query, quoted, looping, log, expired, job, result, asOf, seen, answer>>
    BY DEF ScanRow, Goto, service, Empty
  <1> DEFINE S == ToSet(result)
  <1>2. result \in Seq(S) /\ token \in 0 .. Len(result) /\ rows \in Seq(S) /\ Len(result) \in Nat
    BY <1>1 DEF QInv, Scan
  <1>3. token \in Nat /\ token' \in 0 .. Len(result) /\ token + 1 \in 1 .. Len(result) BY <1>1, <1>2
  <1>4. result[token + 1] \in S BY <1>2, <1>3
  <1> HIDE DEF S
  <1>5. rows' \in Seq(S) BY <1>1, <1>2, <1>4
  <1>6. ToSet(rows') = IF Empty(result[token + 1]) THEN ToSet(rows) ELSE ToSet(rows) \cup {result[token + 1]}
    <2> DEFINE r == result[token + 1]
    <2>1. r \in S BY <1>4
    <2> HIDE DEF r
    <2>2. ToSet(Append(rows, r)) = ToSet(rows) \cup {r}
      <3>1. /\ DOMAIN Append(rows, r) = 1 .. Len(rows) + 1 /\ DOMAIN rows = 1 .. Len(rows) /\ Len(rows) \in Nat
            /\ Append(rows, r)[Len(rows) + 1] = r /\ \A i \in 1 .. Len(rows) : Append(rows, r)[i] = rows[i]
        BY <1>2, <2>1
      <3>2. ToSet(Append(rows, r)) \subseteq ToSet(rows) \cup {r} BY <3>1 DEF ToSet
      <3>3. ToSet(rows) \subseteq ToSet(Append(rows, r))
        <4>1. \A i \in 1 .. Len(rows) : i \in 1 .. Len(rows) + 1 BY <3>1
        <4> QED BY <3>1, <4>1 DEF ToSet
      <3>4. r \in ToSet(Append(rows, r)) BY <3>1 DEF ToSet
      <3> QED BY <3>2, <3>3, <3>4
    <2> QED BY <1>1, <2>2 DEF r
  <1>7. 1 .. token' = (1 .. token) \cup {token + 1} BY <1>1, <1>3
  <1>8. ToSet(rows') = {row \in {result[i] : i \in 1 .. token'} : ~ Empty(row)}
    <2>1. ToSet(rows) = {row \in {result[i] : i \in 1 .. token} : ~ Empty(row)} BY <1>1 DEF QInv, Scan
    <2>2. {result[i] : i \in 1 .. token'} = {result[i] : i \in 1 .. token} \cup {result[token + 1]} BY <1>7
    <2> QED BY <1>6, <2>1, <2>2
  <1>9. Scan'
    <2>1. \A row : Empty(row)' = Empty(row) BY <1>1 DEF Empty
    <2>2. ToSet(result') = S BY <1>1 DEF S
    <2>3. PICK groups : /\ QueryEvents(StoreOf(Outcomes(asOf)), query) = {groups}
                        /\ {row \in S : ~ Empty(row)} = groups
      BY <1>1 DEF QInv, Scan, S
    <2>4. backend = "sql" BY <1>1 DEF QInv, Scan
    <2>5. result' \in Seq(ToSet(result')) /\ token' \in 0 .. Len(result') /\ rows' \in Seq(ToSet(result'))
      BY <1>1, <1>2, <1>3, <1>5, <2>2
    <2>6. QueryEvents(StoreOf(Outcomes(asOf)), query)' = {groups} BY <1>1, <2>3
    <2>7. {row \in ToSet(result') : ~ Empty(row)'} = groups BY <2>1, <2>2, <2>3
    <2>8. ToSet(rows') = {row \in {result'[i] : i \in 1 .. token'} : ~ Empty(row)'} BY <1>1, <1>8, <2>1
    <2> QED BY <1>1, <2>4, <2>5, <2>6, <2>7, <2>8 DEF Scan
  <1>10. Types' /\ Table' BY <1>1 DEF QInv, Types, Table
  <1>11. Job' BY <1>1 DEF QInv, Job, Limit, Wanted, Asked
  <1> QED BY <1>1, <1>9, <1>10, <1>11 DEF QInv, Arrived, Answered

LEMMA RowsEndKeeps == ASSUME QInv, RowsEnd PROVE QInv'
  <1>1. /\ phase = "scanning" /\ phase' = "answered" /\ token = Len(result) /\ answer' = {ToSet(rows)}
        /\ UNCHANGED <<backend, query, quoted, looping, log, expired, job, result, asOf, rows, token, seen>>
    BY DEF RowsEnd, Answer, Goto, service
  <1>2. PICK groups : /\ QueryEvents(StoreOf(Outcomes(asOf)), query) = {groups}
                      /\ {row \in ToSet(result) : ~ Empty(row)} = groups
    BY <1>1 DEF QInv, Scan
  <1>3. /\ backend = "sql" /\ result \in Seq(ToSet(result))
        /\ ToSet(rows) = {row \in {result[i] : i \in 1 .. Len(result)} : ~ Empty(row)}
    BY <1>1 DEF QInv, Scan
  <1>4. ToSet(result) = {result[i] : i \in 1 .. Len(result)} BY <1>3 DEF ToSet
  <1>5. ToSet(rows) = groups BY <1>2, <1>3, <1>4
  <1>6. job = "none" /\ \A n \in asOf : Entries[n].form = "outcome" BY <1>3 DEF QInv, Table
  <1>7. Whole' BY <1>1, <1>2, <1>5, <1>6 DEF Whole
  <1>8. Types' /\ Table' BY <1>1 DEF QInv, Types, Table
  <1>9. Job' BY <1>1 DEF QInv, Job, Limit, Wanted, Asked
  <1> QED BY <1>1, <1>6, <1>7, <1>8, <1>9 DEF QInv, Arrived, Scan, Answered

-----------------------------------------------------------------------------
LEMMA QInvInit == Init => QInv
  <1> SUFFICES ASSUME Init PROVE QInv OBVIOUS
  <1>1. Types BY DEF Init, Types
  <1>2. Table BY DEF Init, Table
  <1> QED BY <1>1, <1>2 DEF Init, QInv, Job, Arrived, Scan, Answered

LEMMA QInvStep == QInv /\ [Next]_vars => QInv'
  <1> SUFFICES ASSUME QInv, [Next]_vars PROVE QInv' OBVIOUS
  <1>1. CASE UNCHANGED vars BY <1>1, StillKeeps DEF vars, arrived
  <1>2. CASE Refuse \/ RowsErr \/ CallFails BY <1>2, FailKeeps DEF Refuse, RowsErr, CallFails
  <1>3. CASE StartQuery
    <2>1. backend # "sql" /\ phase' = "polling" /\ job' = "running" /\ UNCHANGED <<service, log, result, asOf>>
      BY <1>3 DEF StartQuery, Goto
    <2> QED BY <2>1, WaitingKeeps
  <1>4. CASE Poll BY <1>4, PollKeeps
  <1>5. CASE Wait
    <2>1. CASE Fail BY <2>1, FailKeeps
    <2>2. CASE Goto("polling") /\ UNCHANGED <<job, result, asOf, arrived>>
      <3>1. phase' = "polling" /\ job' = job /\ UNCHANGED <<service, log, result, asOf>> BY <2>2 DEF Goto
      <3> QED BY <3>1, WaitingKeeps
    <2> QED BY <1>5, <2>1, <2>2 DEF Wait
  <1>6. CASE Page BY <1>6, PageKeeps
  <1>7. CASE Decode BY <1>7, DecodeKeeps
  <1>8. CASE StartStatement BY <1>8, StartStatementKeeps
  <1>9. CASE ScanRow BY <1>9, ScanRowKeeps
  <1>10. CASE RowsEnd BY <1>10, RowsEndKeeps
  <1>11. CASE \E filtered \in BOOLEAN : Finish(filtered) BY <1>11, FinishKeeps
  <1>12. CASE JobFails BY <1>12, JobFailsKeeps
  <1>13. CASE Expire BY <1>13, StillKeeps DEF Expire, arrived
  <1>14. CASE \E n \in DOMAIN Entries : Ingest(n) BY <1>14, IngestKeeps
  <1> QED BY <1>1, <1>2, <1>3, <1>4, <1>5, <1>6, <1>7, <1>8, <1>9, <1>10, <1>11, <1>12, <1>13, <1>14
       DEF Next, ClientStep

\* Whatever the store holds, however its rows are paged, capped or cut off,
\* and whichever call fails, an answer is what the reference answers from every
\* outcome of the log it was read from (cwinsights, gcplogging and sql).
THEOREM AnswersAreWhole == Spec => []AnswerWhole
  <1>1. QInv => AnswerWhole BY DEF QInv, Answered, Whole, AnswerWhole
  <1> QED BY <1>1, QInvInit, QInvStep, PTL DEF Spec
=============================================================================
