---------------------------- MODULE IngestionJobs ----------------------------
(***************************************************************************)
(* POST /ingest of NowLens and the work it starts.  A request creates one  *)
(* ingestion job per URL in its own database transaction; with `wait` the  *)
(* pipeline then runs inside that transaction, otherwise one background    *)
(* task per job runs it later, in sessions of its own (workers/tasks.py).  *)
(* The pipeline writes to two stores that share no transaction: vectors go *)
(* to Qdrant at once, chunk rows and the job's verdict go to PostgreSQL    *)
(* when the session commits.                                               *)
(*                                                                         *)
(* A job stands for its URL and for the fresh document id (uuid4) that     *)
(* ingest_url gives the URL's chunks: no two jobs share either.            *)
(***************************************************************************)
EXTENDS Naturals, Sequences

CONSTANTS
    Requests,          \* calls of POST /ingest
    Jobs,              \* rows of ingestion_jobs
    Batch,             \* Batch[r]: the jobs of request r, in URL order
    MaxChunks,         \* most chunks a page yields (bounds the counts)
    Unchanged,         \* jobs whose page hash equals the one stored in documents
    ForeignKeys,       \* document_chunks.document_id -> documents.id is enforced
    CommitsFirst,      \* requests whose process commits them before their tasks run
    Faults             \* the kinds of failure that may happen

FaultKinds == {"db", "vector", "crash"}

ASSUME BatchAssumption ==
    /\ Batch \in [Requests -> Seq(Jobs)]
    /\ \A r \in Requests : Len(Batch[r]) > 0
    /\ \A r, s \in Requests : \A i \in 1..Len(Batch[r]), k \in 1..Len(Batch[s]) :
           Batch[r][i] = Batch[s][k] => r = s /\ i = k
    /\ \A j \in Jobs : \E r \in Requests : \E i \in 1..Len(Batch[r]) : j = Batch[r][i]

ASSUME DeploymentAssumption ==
    /\ MaxChunks \in Nat \ {0}
    /\ Unchanged \subseteq Jobs
    /\ ForeignKeys \in BOOLEAN
    /\ CommitsFirst \subseteq Requests
    /\ Faults \subseteq FaultKinds

VARIABLES
    pc,         \* pc[r]: where request r, or the tasks it left behind, stands
    mode,       \* mode[r]: "wait" (inline) or "queue" (background tasks)
    pos,        \* pos[r]: index of the URL being worked on
    stage,      \* stage[r]: the pipeline stage that runs next
    txn,        \* txn[r]: the session the pipeline writes through
    report,     \* report[r]: the verdict and chunk count of the current URL
    jobRow,     \* committed ingestion_jobs rows
    draft,      \* rows written by the open transaction of the job's request
    rows,       \* committed document_chunks rows of the job's document
    draftRows,  \* chunk rows written and not yet committed
    vectors     \* points of the job's document in Qdrant

vars == <<pc, mode, pos, stage, txn, report, jobRow, draft, rows, draftRows, vectors>>

Chunks == 0..MaxChunks

Verdicts == {"succeeded", "failed", "skipped"}

Statuses == {"absent", "pending", "running"} \cup Verdicts

JobRows == [status : Statuses, chunks : Chunks]

NoRow == [status |-> "absent", chunks |-> 0]

NoReport == [verdict |-> "failed", chunks |-> 0]

Ended == {"done", "failed", "dead"}

PCs == {"idle", "commit", "mark", "begin", "work"} \cup Ended

Stages == {"none", "crawl", "check", "prepare", "upsert", "sink", "report"}

TypeOK ==
    /\ pc \in [Requests -> PCs]
    /\ mode \in [Requests -> {"wait", "queue"}]
    /\ pos \in [Requests -> Nat]
    /\ \A r \in Requests : pos[r] \in 1..Len(Batch[r])
    /\ stage \in [Requests -> Stages]
    /\ txn \in [Requests -> {"none", "open", "aborted"}]
    /\ report \in [Requests -> [verdict : Verdicts, chunks : Chunks]]
    /\ jobRow \in [Jobs -> JobRows]
    /\ draft \in [Jobs -> JobRows]
    /\ rows \in [Jobs -> Chunks]
    /\ draftRows \in [Jobs -> Chunks]
    /\ vectors \in [Jobs -> Chunks]

JobsOf(r) == {Batch[r][i] : i \in 1..Len(Batch[r])}

Job(r) == Batch[r][pos[r]]

Last(r) == pos[r] = Len(Batch[r])

Init ==
    /\ pc = [r \in Requests |-> "idle"]
    /\ mode = [r \in Requests |-> "queue"]
    /\ pos = [r \in Requests |-> 1]
    /\ stage = [r \in Requests |-> "none"]
    /\ txn = [r \in Requests |-> "none"]
    /\ report = [r \in Requests |-> NoReport]
    /\ jobRow = [j \in Jobs |-> NoRow]
    /\ draft = [j \in Jobs |-> NoRow]
    /\ rows = [j \in Jobs |-> 0]
    /\ draftRows = [j \in Jobs |-> 0]
    /\ vectors = [j \in Jobs |-> 0]

\* The response of an unfinished request r has been sent.
Answered(r) ==
    \/ mode[r] = "queue" /\ pc[r] \in {"begin", "work"}
    \/ r \notin CommitsFirst /\ pc[r] = "commit"

-----------------------------------------------------------------------------
(* Database transactions *)

\* Mutant of Rollback: the exception is swallowed and nobody goes on.
RollbackWithoutEnd(end, R) ==
    /\ stage' = [r \in Requests |-> IF r \in R THEN "none" ELSE stage[r]]
    /\ txn' = [r \in Requests |-> IF r \in R THEN "none" ELSE txn[r]]
    /\ UNCHANGED <<pc, mode, pos, report, jobRow, draft, rows, draftRows, vectors>>

\* The session of r is rolled back (or dies with its connection): nothing it
\* wrote survives, and the request ends as `end`.
Rollback(end, R) ==
    /\ pc' = [r \in Requests |-> IF r \in R THEN end ELSE pc[r]]
    /\ stage' = [r \in Requests |-> IF r \in R THEN "none" ELSE stage[r]]
    /\ txn' = [r \in Requests |-> IF r \in R THEN "none" ELSE txn[r]]
    /\ draft' = [j \in Jobs |-> IF \E r \in R : j \in JobsOf(r) THEN NoRow ELSE draft[j]]
    /\ draftRows' = [j \in Jobs |-> IF \E r \in R : j \in JobsOf(r) THEN 0 ELSE draftRows[j]]
    /\ UNCHANGED <<mode, pos, report, jobRow, rows, vectors>>

\* IngestionJobRepository.mark on a committed row: an UPDATE that matches no row
\* when the row was never committed.
Marked(j, status, n) ==
    IF jobRow[j].status = "absent" THEN NoRow ELSE [status |-> status, chunks |-> n]

-----------------------------------------------------------------------------
(* The request *)

\* Mutant of Submit: the tasks are started before the jobs are committed.
SubmitBeforeCommit(r, m) ==
    /\ pc[r] = "idle"
    /\ mode' = [mode EXCEPT ![r] = m]
    /\ draft' = [j \in Jobs |-> IF j \in JobsOf(r)
                                THEN [status |-> "pending", chunks |-> 0]
                                ELSE draft[j]]
    /\ pc' = [pc EXCEPT ![r] = IF m = "wait" THEN "mark" ELSE "begin"]
    /\ UNCHANGED <<pos, stage, txn, report, jobRow, rows, draftRows, vectors>>

\* POST /ingest: one PENDING row per URL, flushed in the request's transaction.
\* Without `wait` the handler returns at once; whether the transaction commits
\* before the background tasks start depends on the framework's version.
Submit(r, m) ==
    /\ pc[r] = "idle"
    /\ mode' = [mode EXCEPT ![r] = m]
    /\ draft' = [j \in Jobs |-> IF j \in JobsOf(r)
                                THEN [status |-> "pending", chunks |-> 0]
                                ELSE draft[j]]
    /\ pc' = [pc EXCEPT ![r] = IF m = "wait" THEN "mark"
                               ELSE IF r \in CommitsFirst THEN "commit" ELSE "begin"]
    /\ UNCHANGED <<pos, stage, txn, report, jobRow, rows, draftRows, vectors>>

\* get_session commits when the handler (or, in the late order, the last task)
\* is through: every row the request wrote becomes visible at once.
CommitRequest(r) ==
    /\ pc[r] = "commit"
    /\ jobRow' = [j \in Jobs |-> IF j \in JobsOf(r) THEN draft[j] ELSE jobRow[j]]
    /\ draft' = [j \in Jobs |-> IF j \in JobsOf(r) THEN NoRow ELSE draft[j]]
    /\ rows' = [j \in Jobs |-> IF j \in JobsOf(r) THEN rows[j] + draftRows[j] ELSE rows[j]]
    /\ draftRows' = [j \in Jobs |-> IF j \in JobsOf(r) THEN 0 ELSE draftRows[j]]
    /\ txn' = [txn EXCEPT ![r] = "none"]
    /\ pc' = [pc EXCEPT ![r] = IF mode[r] = "queue" /\ r \in CommitsFirst
                               THEN "begin" ELSE "done"]
    /\ UNCHANGED <<mode, pos, stage, report, vectors>>

\* Mutant of StartInline: RUNNING is committed at once, as in the background.
StartInlineCommitted(r) ==
    /\ pc[r] = "mark"
    /\ jobRow' = [jobRow EXCEPT ![Job(r)] = [status |-> "running", chunks |-> 0]]
    /\ pc' = [pc EXCEPT ![r] = "work"]
    /\ stage' = [stage EXCEPT ![r] = "crawl"]
    /\ txn' = [txn EXCEPT ![r] = "open"]
    /\ UNCHANGED <<mode, pos, report, draft, rows, draftRows, vectors>>

\* The wait loop marks the job RUNNING in the request's own transaction, where
\* nobody else can see it, and starts the pipeline on the same session.
StartInline(r) ==
    /\ pc[r] = "mark"
    /\ draft' = [draft EXCEPT ![Job(r)] = [status |-> "running", chunks |-> 0]]
    /\ pc' = [pc EXCEPT ![r] = "work"]
    /\ stage' = [stage EXCEPT ![r] = "crawl"]
    /\ txn' = [txn EXCEPT ![r] = "open"]
    /\ UNCHANGED <<mode, pos, report, jobRow, rows, draftRows, vectors>>

\* The wait loop records the report and goes on with the next URL.  On an
\* aborted transaction the UPDATE raises: the request answers 500.
FinishInline(r) ==
    /\ pc[r] = "work"
    /\ mode[r] = "wait"
    /\ stage[r] = "report"
    /\ \/ /\ txn[r] = "aborted"
          /\ Rollback("failed", {r})
       \/ /\ txn[r] = "open"
          /\ draft' = [draft EXCEPT ![Job(r)] = [status |-> report[r].verdict,
                                                 chunks |-> report[r].chunks]]
          /\ pc' = [pc EXCEPT ![r] = IF Last(r) THEN "commit" ELSE "mark"]
          /\ pos' = [pos EXCEPT ![r] = IF Last(r) THEN @ ELSE @ + 1]
          /\ stage' = [stage EXCEPT ![r] = "none"]
          /\ UNCHANGED <<mode, txn, report, jobRow, rows, draftRows, vectors>>

-----------------------------------------------------------------------------
(* The background task *)

\* run_ingestion_job, first session: mark RUNNING and commit, then open the
\* session the pipeline writes through.
BeginTask(r) ==
    /\ pc[r] = "begin"
    /\ jobRow' = [jobRow EXCEPT ![Job(r)] = Marked(Job(r), "running", 0)]
    /\ pc' = [pc EXCEPT ![r] = "work"]
    /\ stage' = [stage EXCEPT ![r] = "crawl"]
    /\ txn' = [txn EXCEPT ![r] = "open"]
    /\ UNCHANGED <<mode, pos, report, draft, rows, draftRows, vectors>>

\* Mutant of FinishTask: the verdict is never written.
FinishTaskUnmarked(r) ==
    /\ pc[r] = "work"
    /\ mode[r] = "queue"
    /\ stage[r] = "report"
    /\ draftRows' = [draftRows EXCEPT ![Job(r)] = 0]
    /\ txn' = [txn EXCEPT ![r] = "none"]
    /\ pc' = [pc EXCEPT ![r] = IF Last(r) THEN "done" ELSE "begin"]
    /\ pos' = [pos EXCEPT ![r] = IF Last(r) THEN @ ELSE @ + 1]
    /\ stage' = [stage EXCEPT ![r] = "none"]
    /\ UNCHANGED <<mode, report, jobRow, draft, rows, vectors>>

\* run_ingestion_job, second session: the verdict and the chunk rows commit
\* together.  On an aborted transaction mark() raises out of the task; the
\* tasks queued behind it in the same response are never run.
FinishTask(r) ==
    /\ pc[r] = "work"
    /\ mode[r] = "queue"
    /\ stage[r] = "report"
    /\ \/ /\ txn[r] = "aborted"
          /\ Rollback("dead", {r})
       \/ /\ txn[r] = "open"
          /\ jobRow' = [jobRow EXCEPT ![Job(r)] =
                           Marked(Job(r), report[r].verdict, report[r].chunks)]
          /\ rows' = [rows EXCEPT ![Job(r)] = @ + draftRows[Job(r)]]
          /\ draftRows' = [draftRows EXCEPT ![Job(r)] = 0]
          /\ txn' = [txn EXCEPT ![r] = "none"]
          /\ pc' = [pc EXCEPT ![r] = IF ~Last(r) THEN "begin"
                                     ELSE IF r \in CommitsFirst THEN "done" ELSE "commit"]
          /\ pos' = [pos EXCEPT ![r] = IF Last(r) THEN @ ELSE @ + 1]
          /\ stage' = [stage EXCEPT ![r] = "none"]
          /\ UNCHANGED <<mode, report, draft, vectors>>

-----------------------------------------------------------------------------
(* The pipeline: IngestionPipeline._run, whose exceptions ingest_url turns   *)
(* into a report.                                                            *)

\* Mutant of Report: chunks_indexed is set before the chunks are indexed.
ReportAttempted(r, verdict, n) ==
    /\ report' = [report EXCEPT ![r].verdict = verdict]
    /\ stage' = [stage EXCEPT ![r] = "report"]

\* ingest_url returns: success iff no error was recorded.
Report(r, verdict, n) ==
    /\ report' = [report EXCEPT ![r] = [verdict |-> verdict, chunks |-> n]]
    /\ stage' = [stage EXCEPT ![r] = "report"]

\* Mutant of StatementFails: the sink's error is swallowed.
StatementIgnored(r) ==
    /\ Report(r, "succeeded", report[r].chunks)
    /\ UNCHANGED <<txn, draftRows, vectors>>

\* A failed statement aborts the session's transaction; the exception it raises
\* is captured in the report like any other.
StatementFails(r) ==
    /\ txn' = [txn EXCEPT ![r] = "aborted"]
    /\ Report(r, "failed", 0)
    /\ UNCHANGED <<draftRows, vectors>>

Working(r, s) == pc[r] = "work" /\ stage[r] = s

Advance(r, s) == stage' = [stage EXCEPT ![r] = s]

\* Crawl (with its retries), render, extract, clean, normalise: no store is
\* touched; any failure ends the URL.
Crawl(r) ==
    /\ Working(r, "crawl")
    /\ \/ Advance(r, "check") /\ UNCHANGED report
       \/ Report(r, "failed", 0)
    /\ UNCHANGED <<pc, mode, pos, txn, jobRow, draft, rows, draftRows, vectors>>

\* The incremental check, a SELECT on the session: an unchanged page is skipped.
CheckUnchanged(r) ==
    /\ Working(r, "check")
    /\ \/ /\ Job(r) \in Unchanged
          /\ Report(r, "skipped", 0)
          /\ UNCHANGED <<txn, draftRows, vectors>>
       \/ /\ Job(r) \notin Unchanged
          /\ Advance(r, "prepare")
          /\ UNCHANGED <<report, txn, draftRows, vectors>>
       \/ "db" \in Faults /\ StatementFails(r)
    /\ UNCHANGED <<pc, mode, pos, jobRow, draft, rows>>

\* Chunk, enrich, deduplicate, embed, validate: no chunk at all or a provider
\* error fails the URL; when validation rejects every chunk index_chunks writes
\* nothing and the URL still counts as a success.
Prepare(r) ==
    /\ Working(r, "prepare")
    /\ \/ Report(r, "failed", 0)
       \/ Report(r, "succeeded", 0)
       \/ \E n \in 1..MaxChunks :
             /\ report' = [report EXCEPT ![r].chunks = n]
             /\ Advance(r, "upsert")
    /\ UNCHANGED <<pc, mode, pos, txn, jobRow, draft, rows, draftRows, vectors>>

\* Mutant of UpsertVectors: a failed call is not reported to index_chunks.
UpsertUnchecked(r) ==
    /\ Working(r, "upsert")
    /\ \E n \in 0..report[r].chunks : vectors' = [vectors EXCEPT ![Job(r)] = n]
    /\ Advance(r, "sink")
    /\ UNCHANGED <<pc, mode, pos, txn, report, jobRow, draft, rows, draftRows>>

\* index_chunks writes the vectors first.  A failed call may have been applied
\* in part: Qdrant has no transaction to roll back.
UpsertVectors(r) ==
    /\ Working(r, "upsert")
    /\ \/ /\ vectors' = [vectors EXCEPT ![Job(r)] = report[r].chunks]
          /\ Advance(r, "sink")
          /\ UNCHANGED report
       \/ /\ "vector" \in Faults
          /\ \E n \in 0..report[r].chunks : vectors' = [vectors EXCEPT ![Job(r)] = n]
          /\ Report(r, "failed", 0)
    /\ UNCHANGED <<pc, mode, pos, txn, jobRow, draft, rows, draftRows>>

\* index_chunks then writes the chunk rows through the sink.  The document id
\* is fresh and nothing writes a documents row for it, so a database that
\* enforces the foreign key refuses every one of these inserts.
PersistChunks(r) ==
    /\ Working(r, "sink")
    /\ \/ /\ ~ForeignKeys
          /\ draftRows' = [draftRows EXCEPT ![Job(r)] = report[r].chunks]
          /\ Report(r, "succeeded", report[r].chunks)
          /\ UNCHANGED <<txn, vectors>>
       \/ (ForeignKeys \/ "db" \in Faults) /\ StatementFails(r)
    /\ UNCHANGED <<pc, mode, pos, jobRow, draft, rows>>

Pipeline(r) ==
    \/ Crawl(r)
    \/ CheckUnchanged(r)
    \/ Prepare(r)
    \/ UpsertVectors(r)
    \/ PersistChunks(r)

-----------------------------------------------------------------------------
(* Failures *)

\* A statement or a commit outside the pipeline's try fails: a handler that has
\* not answered yet answers 500, a background task takes the rest of its
\* response's tasks with it.
DbFailure(r) ==
    /\ "db" \in Faults
    /\ \/ pc[r] \in {"idle", "mark", "begin", "commit"}
       \/ pc[r] = "work" /\ stage[r] = "report"
    /\ Rollback(IF Answered(r) THEN "dead" ELSE "failed", {r})

\* The process stops: every request and task in flight is lost with its session.
Crash ==
    /\ "crash" \in Faults
    /\ \E r \in Requests : pc[r] \notin {"idle"} \cup Ended
    /\ Rollback("dead", {r \in Requests : pc[r] \notin {"idle"} \cup Ended})

\* What the process itself does next for request r, faults aside.
Step(r) ==
    \/ CommitRequest(r)
    \/ StartInline(r)
    \/ FinishInline(r)
    \/ BeginTask(r)
    \/ FinishTask(r)
    \/ Pipeline(r)

Next ==
    \/ \E r \in Requests :
          \/ \E m \in {"wait", "queue"} : Submit(r, m)
          \/ Step(r)
          \/ DbFailure(r)
    \/ Crash

Spec == Init /\ [][Next]_vars

\* The event loop keeps running every coroutine that can run; nothing makes a
\* client submit, and no fault is ever due.
FairSpec == Spec /\ \A r \in Requests : WF_vars(Step(r))

-----------------------------------------------------------------------------
(* Properties *)

Stored(j) == jobRow[j].status # "absent"

\* A committed SUCCEEDED row counts exactly the points in Qdrant and the chunk
\* rows in PostgreSQL, whatever failed or crashed on the way: the two stores
\* share no transaction, and tasks.py relies on one session carrying both the
\* chunk rows and the verdict.
VerdictMatchesStores ==
    \A j \in Jobs : jobRow[j].status = "succeeded" =>
        jobRow[j].chunks = rows[j] /\ rows[j] = vectors[j]

\* A chunk row the lexical retriever can find always has its point in Qdrant,
\* also when the job's own row was invisible to the task: index_chunks writes
\* the vectors first and the rows commit last.
RowsBackedByVectors ==
    \A j \in Jobs : rows[j] > 0 => rows[j] = vectors[j]

\* A request that answered 500 leaves neither jobs nor chunk rows behind, not
\* even those of the URLs that had already succeeded before the failing one.
FailedRequestLeavesNoRows ==
    \A r \in Requests : pc[r] = "failed" =>
        \A j \in JobsOf(r) : ~Stored(j) /\ rows[j] = 0

\* The background tasks of one response run one after the other: a job is
\* RUNNING or finished only if every job before it has finished, also after a
\* crash or a task that raised.
BatchInOrder ==
    \A r \in Requests : \A i, k \in 1..Len(Batch[r]) :
        i < k /\ jobRow[Batch[r][k]].status \in {"running"} \cup Verdicts =>
            jobRow[Batch[r][i]].status \in Verdicts

\* Clients of the requests R that were given job ids find all of them in GET /jobs.
AcknowledgementsHold(R) ==
    \A r \in R : mode[r] = "queue" /\ (Answered(r) \/ pc[r] = "done") =>
        \A j \in JobsOf(r) : Stored(j)

\* With the early commit a job id in a response always has its row, whatever
\* fails later: ingest() flushes the rows before it hands the ids out.
EarlyAcknowledgementsHold == AcknowledgementsHold(CommitsFirst)

\* The work on URL i of request r may have touched Qdrant.
Reached(r, i) ==
    \/ i < pos[r]
    \/ /\ i = pos[r]
       /\ \/ stage[r] \in {"sink", "report"}
          \/ pc[r] \in Ended
          \/ pc[r] = "commit" /\ ~(mode[r] = "queue" /\ r \in CommitsFirst)

\* No transaction of request r has committed a row of its jobs.
Unpublished(r) ==
    \/ pc[r] \in {"idle", "failed"}
    \/ mode[r] = "wait" /\ pc[r] # "done"
    \/ mode[r] = "queue" /\ pc[r] = "commit" /\ r \in CommitsFirst

JobInv(r, i) ==
    LET j == Batch[r][i] IN
    /\ ~Reached(r, i) =>
          /\ vectors[j] = 0 /\ rows[j] = 0 /\ draftRows[j] = 0
          /\ jobRow[j].status \notin Verdicts /\ draft[j].status \notin Verdicts
    /\ Unpublished(r) => jobRow[j] = NoRow /\ rows[j] = 0
    /\ jobRow[j].status = "succeeded" =>
          jobRow[j].chunks = rows[j] /\ rows[j] = vectors[j]
    /\ rows[j] > 0 => rows[j] = vectors[j] /\ draftRows[j] = 0
    /\ draftRows[j] > 0 => draftRows[j] = vectors[j]
    /\ draft[j].status = "succeeded" =>
          draft[j].chunks = draftRows[j] /\ draftRows[j] = vectors[j]
    /\ mode[r] = "queue" =>
          /\ draft[j].status \in {"absent", "pending"}
          /\ draftRows[j] > 0 => i = pos[r] /\ stage[r] = "report"

WorkInv(r) ==
    /\ pc[r] = "work" <=> stage[r] # "none"
    /\ pc[r] = "idle" => mode[r] = "queue" /\ pos[r] = 1
    /\ pc[r] = "mark" => mode[r] = "wait"
    /\ pc[r] = "begin" => mode[r] = "queue"
    /\ pc[r] = "work" =>
          /\ rows[Job(r)] = 0
          /\ jobRow[Job(r)].status \notin Verdicts
          /\ draft[Job(r)].status \notin Verdicts
    /\ stage[r] = "sink" =>
          draftRows[Job(r)] = 0 /\ vectors[Job(r)] = report[r].chunks
    /\ stage[r] = "report" =>
          /\ draftRows[Job(r)] = report[r].chunks
          /\ report[r].chunks > 0 => report[r].verdict = "succeeded"
          /\ report[r].verdict = "succeeded" => vectors[Job(r)] = report[r].chunks

\* The inductive invariant behind TypeOK and the properties of the two stores.
StoreInv ==
    /\ TypeOK
    /\ \A r \in Requests : WorkInv(r)
    /\ \A r \in Requests : \A i \in 1..Len(Batch[r]) : JobInv(r, i)

EarlyJobs == UNION {JobsOf(r) : r \in CommitsFirst}

\* Where requests commit before their tasks run, the database side of ingestion
\* implements the ledger its readers rely on: the committed rows of those
\* requests move as JobLedger says, whatever other processes do with theirs.
Ledger == INSTANCE JobLedger WITH
              Jobs <- EarlyJobs,
              jobRow <- [j \in EarlyJobs |-> jobRow[j]],
              rows <- [j \in EarlyJobs |-> rows[j]]

LedgerSpec == Ledger!Spec

\* Every submitted request comes to an end, and one that ends well under the
\* early commit has given each of its jobs a verdict: no failure inside the
\* pipeline can hold a job up.
RequestsEnd ==
    \A r \in Requests : pc[r] # "idle" ~>
        \/ pc[r] \in {"failed", "dead"}
        \/ /\ pc[r] = "done"
           /\ r \in CommitsFirst \/ mode[r] = "wait" =>
                 \A j \in JobsOf(r) : jobRow[j].status \in Verdicts

\* "capture, never crash the worker" (pipeline.py:89): whatever goes wrong with
\* one URL, the tasks queued behind it still run.
TasksSurviveBadUrls ==
    \A r \in Requests : pc[r] # "dead"

=============================================================================
