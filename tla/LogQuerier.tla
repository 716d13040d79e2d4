----------------------------- MODULE LogQuerier -----------------------------
(***************************************************************************)
(* QueryEvents of the queriers that read outcomes back out of a store      *)
(* (packages cwinsights, gcplogging and sql): a job that is started,       *)
(* polled and paged, or a statement whose rows are streamed.  Money is     *)
(* added up from what arrives, so an answer must be whole or an error.     *)
(*                                                                         *)
(* An entry of the store is [form, at, labels, amount].  Its form is       *)
(* "outcome", "mangled" (an outcome that no longer parses), "object" (a    *)
(* record of somebody else) or "text".                                     *)
(***************************************************************************)
EXTENDS MemQuerier, SequencesExt

CONSTANTS
    Entries,      \* what the store may hold, by number
    Queries,
    KnownLabels,  \* payloadPaths of gcplogging, labelColumns of sql
    MaxRows,      \* rows a window may have: maxRows, or Insights' own cap
    Resolution,   \* ticks of a store timestamp: a microsecond
    Second        \* ticks of a second

ASSUME LogQuerierAssumption ==
    /\ {MaxRows, Resolution, Second} \subseteq Nat \ {0} /\ Second % Resolution = 0
    /\ IsFiniteSet(DOMAIN Entries)
    /\ \A n \in DOMAIN Entries : Entries[n].at \in Nat /\ Entries[n].at % Resolution = 0
    /\ \A q \in Queries : {q.range.from, q.range.to} \subseteq Nat

VARIABLES
    backend,  \* "cwinsights", "gcplogging" or "sql"
    query,
    quoted,   \* gcplogging's view has its payload in a column of text
    looping,  \* the service offers the page token it was given again
    log,      \* numbers of the entries in the store
    job,      \* "none", "running", "complete" or "failed"
    result,   \* what the service has for the client, in order
    asOf,     \* history: the log the result is of
    expired,  \* the caller's context is done
    phase,    \* "idle", "polling", "waiting", "paging", "decoding", "scanning", "answered" or "failed"
    rows,     \* what has arrived
    token,    \* of the next page; 0 for none
    seen,     \* tokens used
    answer    \* the groups, in a set; none before the end

service == <<backend, query, quoted, looping>>
arrived == <<rows, token, seen, answer>>
vars    == <<service, log, job, result, asOf, expired, phase, arrived>>

NoRows == <<>>

Event(n) == [n |-> n, at |-> Entries[n].at, labels |-> Entries[n].labels, amount |-> Entries[n].amount]

\* A table of outcomes has no other rows, and here no NULL in a column.
Init ==
    /\ backend \in {"cwinsights", "gcplogging", "sql"} /\ query \in Queries
    /\ quoted \in (IF backend = "gcplogging" THEN BOOLEAN ELSE {FALSE})
    /\ looping \in (IF backend = "gcplogging" THEN BOOLEAN ELSE {FALSE})
    /\ log \in SUBSET {n \in DOMAIN Entries : backend = "sql" => Entries[n].form = "outcome"}
    /\ job = "none" /\ result = NoRows /\ asOf = {} /\ expired = FALSE
    /\ phase = "idle" /\ rows = NoRows /\ token = 0 /\ seen = {} /\ answer = {}

-----------------------------------------------------------------------------
(* The service *)

Floor(t, unit) == t - (t % unit)
Ceil(t, unit)  == Floor(t + unit - 1, unit)

\* The range asked of the store is never narrower than the window: whole
\* seconds, ends included, for Insights; the start truncated and the end
\* rounded up to a microsecond for BigQuery.
Widened(r) ==
    IF backend = "cwinsights"
    THEN [from |-> Floor(r.from, Second) - Second, to |-> Floor(r.to, Second) + Second + 1]
    ELSE [from |-> Floor(r.from, Resolution), to |-> Ceil(r.to, Resolution)]

Marked(e) == e.form \in {"outcome", "mangled"}

\* An emulator of Insights ignores the filter; BigQuery filters labels as well.
Selected(filtered) ==
    {n \in log :
        /\ InRange(Entries[n].at, Widened(query.range))
        /\ filtered => Marked(Entries[n])
        /\ backend = "gcplogging" => MatchFilters(Entries[n].labels, query.filters)}

\* The statement asks for one row more than the cap, Insights stops at it.
Limit == IF backend = "gcplogging" THEN MaxRows + 1 ELSE MaxRows

\* The entries of a set by their time; those of one time are in any order.
ByTime(S) ==
    {s \in [1 .. Cardinality(S) -> S] :
        ToSet(s) = S /\ \A i, j \in DOMAIN s : i < j => Entries[s[i]].at <= Entries[s[j]].at}

Finish(filtered) ==
    /\ job = "running" /\ job' = "complete"
    /\ backend = "gcplogging" => filtered
    /\ \E found \in ByTime(Selected(filtered)) :
         result' = SubSeq(found, 1, IF Len(found) < Limit THEN Len(found) ELSE Limit)
    /\ asOf' = log
    /\ UNCHANGED <<service, log, expired, phase, arrived>>

JobFails ==
    /\ job = "running" /\ job' = "failed"
    /\ UNCHANGED <<service, log, result, asOf, expired, phase, arrived>>

\* An entry that was delayed shows up.
Ingest(n) ==
    /\ job = "running" /\ n \notin log
    /\ log' = log \cup {n}
    /\ UNCHANGED <<service, job, result, asOf, expired, phase, arrived>>

Expire ==
    /\ ~ expired /\ phase \notin {"idle", "answered", "failed"}
    /\ expired' = TRUE
    /\ UNCHANGED <<service, log, job, result, asOf, phase, arrived>>

\* The page that begins after a token.  One that repeats its token is empty.
Pages(offset) ==
    IF looping /\ offset # 0 THEN {[rows |-> NoRows, next |-> offset]}
    ELSE {[rows |-> SubSeq(result, offset + 1, k), next |-> IF k = Len(result) THEN 0 ELSE k]
            : k \in (IF result = NoRows THEN 0 ELSE offset + 1) .. Len(result)}

-----------------------------------------------------------------------------
(* The client *)

Goto(p) == phase' = p /\ UNCHANGED <<service, log, expired>>

Fail == Goto("failed") /\ UNCHANGED <<job, result, asOf, arrived>>

Answer(groups) == Goto("answered") /\ answer' = groups /\ UNCHANGED <<job, result, asOf, rows, token, seen>>

Labels == DOMAIN query.filters \cup query.groupBy

\* checkLabels, columns and whereClause refuse a label that has no column.
\* cwinsights leaves labels to the reference.
Refused ==
    \/ backend # "cwinsights" /\ ~ Labels \subseteq KnownLabels
    \/ backend = "sql" /\ ~ CurrencyInvariant(query)

Refuse == phase = "idle" /\ Refused /\ Fail

StartQuery ==
    /\ phase = "idle" /\ ~ Refused /\ backend # "sql"
    /\ job' = "running" /\ Goto("polling")
    /\ UNCHANGED <<result, asOf, arrived>>

\* The job is asked for its rows.  With a context that is done the call fails.
Poll ==
    /\ phase = "polling"
    /\ \/ (expired \/ job = "failed") /\ Fail
       \/ ~ expired /\ job = "running" /\ Goto("waiting") /\ UNCHANGED <<job, result, asOf, arrived>>
       \/ /\ ~ expired /\ job = "complete"
          /\ \/ backend = "cwinsights" /\ rows' = result /\ token' = 0 /\ Goto("decoding")
             \/ /\ backend = "gcplogging"
                /\ \E page \in Pages(0) : rows' = page.rows /\ token' = page.next
                /\ Goto("paging")
          /\ UNCHANGED <<job, result, asOf, seen, answer>>

\* The poll interval passes, unless the context is done before.
Wait ==
    /\ phase = "waiting"
    /\ \/ expired /\ Fail
       \/ ~ expired /\ Goto("polling") /\ UNCHANGED <<job, result, asOf, arrived>>

\* Mutant of Repeated: only an absent token ends the paging.
RepeatedNever == FALSE

Repeated == token \in seen

\* Pages are fetched until there are no more, or more rows than the cap.
Page ==
    /\ phase = "paging"
    /\ \/ (token = 0 \/ Len(rows) > MaxRows) /\ Goto("decoding") /\ UNCHANGED <<job, result, asOf, arrived>>
       \/ token # 0 /\ Len(rows) <= MaxRows /\ (Repeated \/ expired) /\ Fail
       \/ /\ token # 0 /\ Len(rows) <= MaxRows /\ ~ Repeated /\ ~ expired
          /\ \E page \in Pages(token) : rows' = rows \o page.rows /\ token' = page.next
          /\ seen' = seen \cup {token}
          /\ Goto("paging") /\ UNCHANGED <<job, result, asOf, answer>>

\* Mutant of Truncated: a full answer of Insights is taken for a whole one.
TruncatedAbove == Len(rows) > MaxRows

\* Insights never returns more than its cap, so the cap itself is too much.
Truncated == IF backend = "cwinsights" THEN Len(rows) >= MaxRows ELSE Len(rows) > MaxRows

IsObject(n) == Entries[n].form # "text" /\ ~ quoted

\* Rows of others are skipped; but when nothing decodes as an object the
\* column is the wrong one, and an outcome that does not parse is an error.
Undecodable ==
    \/ backend = "gcplogging" /\ rows # NoRows /\ \A n \in ToSet(rows) : ~ IsObject(n)
    \/ \E n \in ToSet(rows) : IsObject(n) /\ Entries[n].form = "mangled"

Outcomes(ns) == {Event(n) : n \in {m \in ns : Entries[m].form = "outcome"}}

StoreOf(events) == [events |-> events, down |-> {}, caps |-> [events |-> TRUE]]

\* memq answers the query from the rows; it may refuse it too.
Decode ==
    LET groups == QueryEvents(StoreOf(Outcomes({n \in ToSet(rows) : IsObject(n)})), query) IN
    /\ phase = "decoding"
    /\ IF Truncated \/ Undecodable \/ groups = {} THEN Fail ELSE Answer(groups)

\* A statement without GROUP BY has one row even over no outcome.
StartStatement ==
    LET groups == CHOOSE g \in QueryEvents(StoreOf(Outcomes(log)), query) : TRUE
        none   == [key |-> GroupKey(query.filters, {}), count |-> 0, sum |-> 0, max |-> 0]
    IN
    /\ phase = "idle" /\ ~ Refused /\ backend = "sql"
    /\ result' = SetToSeq(IF groups = {} /\ query.groupBy = {} THEN {none} ELSE groups)
    /\ asOf' = log
    /\ Goto("scanning") /\ UNCHANGED <<job, arrived>>

\* The token counts the rows scanned; an empty row is no group.
ScanRow ==
    LET row == result[token + 1] IN
    /\ phase = "scanning" /\ token < Len(result) /\ ~ expired
    /\ rows' = IF query.groupBy = {} /\ row.count = 0 THEN rows ELSE Append(rows, row)
    /\ token' = token + 1
    /\ Goto("scanning") /\ UNCHANGED <<job, result, asOf, seen, answer>>

RowsEnd == phase = "scanning" /\ token = Len(result) /\ Answer({ToSet(rows)})

\* rows.Err: the rows ended before their end.
RowsErr == phase = "scanning" /\ expired /\ Fail

\* A transport, HTTP or API error, or a job incomplete while it is paged.
CallFails == phase \in {"idle", "polling", "paging", "scanning"} /\ Fail

ClientStep ==
    \/ Refuse \/ StartQuery \/ Poll \/ Wait \/ Page \/ Decode
    \/ StartStatement \/ ScanRow \/ RowsEnd \/ RowsErr

Next ==
    \/ ClientStep \/ CallFails
    \/ (\E filtered \in BOOLEAN : Finish(filtered)) \/ JobFails \/ Expire
    \/ \E n \in DOMAIN Entries : Ingest(n)

\* The client's goroutine runs on: its timers fire and its HTTP calls end
\* (the clients have a timeout).  Jobs need not end and contexts not expire.
Spec == Init /\ [][Next]_vars /\ WF_vars(ClientStep)

-----------------------------------------------------------------------------
\* Entries of the window that the query is about.
Asked(n) == InRange(Entries[n].at, query.range) /\ MatchFilters(Entries[n].labels, query.filters)

\* An answer is what the reference answers from every outcome of the log, and
\* the log had none in the window that could not be read: never a prefix, a
\* page, a cut-off window or a silent skip (WithMaxRows: "Reaching the cap is
\* an error, never a smaller answer").
AnswerWhole ==
    phase = "answered" =>
        /\ answer = QueryEvents(StoreOf(Outcomes(asOf)), query)
        /\ \A n \in asOf : Asked(n) => Entries[n].form # "mangled"

Ended == phase \in {"answered", "failed"}

\* Once the job has ended, one way or the other, or the context is done, the
\* call returns, whatever tokens the service hands out (run: "refusing to
\* loop").
QueryReturns ==
    (phase # "idle" /\ (backend = "sql" \/ job # "running" \/ expired)) ~> Ended
=============================================================================
