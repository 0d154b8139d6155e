------------------------------- MODULE Corpus -------------------------------
(***************************************************************************)
(* Ingestion outside POST /ingest: `nowlens ingest`, which runs all its    *)
(* URLs through one session and one pipeline, and the arq worker, which    *)
(* runs run_ingestion_job at least once.  Both crawl (Crawler), both need  *)
(* the Qdrant collection that start-up creates (Collection), both write    *)
(* points at once and chunk rows when their session commits.               *)
(*                                                                         *)
(* Every attempt at a URL draws a fresh document id: a document stands for *)
(* the attempt that created it.  Nothing calls DocumentRepository.upsert,  *)
(* so the table documents stays empty, the incremental check never finds   *)
(* an unchanged page and every run ingests anew.                           *)
(***************************************************************************)
EXTENDS Crawler, Collection, FiniteSets

CONSTANTS
    Clis,        \* runs of `nowlens ingest`
    ArqJobs,     \* jobs in arq's queue, one URL each
    Launches,    \* the sets of runs that may be under way together
    Batch,       \* Batch[w]: the URLs of run w, in order
    MaxTries,    \* how often arq starts a job (its max_tries)
    MaxCrashes,  \* bounds the processes that die
    DbFaults,    \* statements and commits may fail
    ForeignKeys  \* document_chunks.document_id -> documents.id is enforced

ASSUME CorpusAssumption ==
    /\ Runs = Clis \cup ArqJobs
    /\ Clis \cap ArqJobs = {}
    /\ Launches \subseteq SUBSET Runs
    /\ Batch \in [Runs -> Seq(Urls)]
    /\ \A w \in Runs : Len(Batch[w]) > 0
    /\ \A w \in Clis : \A i, k \in 1..Len(Batch[w]) : Batch[w][i] = Batch[w][k] => i = k
    /\ \A w \in ArqJobs : Len(Batch[w]) = 1
    /\ MaxTries \in Nat \ {0}
    /\ MaxCrashes \in Nat
    /\ DbFaults \in BOOLEAN /\ ForeignKeys \in BOOLEAN

VARIABLES
    phase,    \* phase[w]: the next step of run w
    try,      \* try[w]: how often w has been started
    pos,      \* pos[w]: index of the URL at work
    broken,   \* broken[w]: index at which a statement aborted the session, or 0
    report,   \* report[w][i]: what ingest_url returned for URL i
    exit,     \* exit[w]: exit code of the command line, or its fate
    job,      \* job[w]: status of the ingestion_jobs row of an arq job
    points,   \* points[d]: how much of document d is in Qdrant
    rows,     \* rows[d]: the chunk rows of document d
    crashes   \* crashes[w]: how often the process of w has died

runVars == <<phase, try, pos, broken, report, exit, job, points, rows, crashes>>

vars == <<runVars, crawlVars, collectionVars>>

Docs == UNION {{w} \X (1..MaxTries) \X (1..Len(Batch[w])) : w \in Runs}

Verdicts == {"succeeded", "failed"}

Phases == {"idle", "crawl", "check", "upsert", "insert", "next", "finish", "acked", "ended"}

TypeOK ==
    /\ CrawlerTypeOK
    /\ CollectionTypeOK
    /\ phase \in [Runs -> Phases]
    /\ try \in [Runs -> 0..MaxTries]
    /\ pos \in [Runs -> Nat]
    /\ broken \in [Runs -> Nat]
    /\ \A w \in Runs : pos[w] \in 1..Len(Batch[w]) /\ broken[w] \in 0..Len(Batch[w])
    /\ DOMAIN report = Runs
    /\ \A w \in Runs : report[w] \in [1..Len(Batch[w]) -> {"none", "empty"} \cup Verdicts]
    /\ exit \in [Runs -> {"none", "clean", "dirty", "killed"}]
    /\ job \in [Runs -> {"pending", "running"} \cup Verdicts]
    /\ points \in [Docs -> {"none", "some", "all"}]
    /\ rows \in [Docs -> {"none", "draft", "stored"}]
    /\ crashes \in [Runs -> Nat]

Url(w) == Batch[w][pos[w]]

Doc(w) == <<w, try[w], pos[w]>>

DocsOf(w) == {d \in Docs : d[1] = w}

NoReports(w) == [i \in 1..Len(Batch[w]) |-> "none"]

\* A run that is not launched counts as ended.
Init ==
    /\ CrawlerInit
    /\ CollectionInit
    /\ \E L \in Launches : phase = [w \in Runs |-> IF w \in L THEN "idle" ELSE "ended"]
    /\ try = [w \in Runs |-> 0]
    /\ pos = [w \in Runs |-> 1]
    /\ broken = [w \in Runs |-> 0]
    /\ report = [w \in Runs |-> NoReports(w)]
    /\ exit = [w \in Runs |-> "none"]
    /\ job = [w \in Runs |-> "pending"]
    /\ points = [d \in Docs |-> "none"]
    /\ rows = [d \in Docs |-> "none"]
    /\ crashes = [w \in Runs |-> 0]

GoTo(w, p) == phase' = [phase EXCEPT ![w] = p]

-----------------------------------------------------------------------------
(* A run begins *)

\* _ingest opens its session, or arq starts the job: run_ingestion_job commits
\* RUNNING in a session of its own and opens the one it works in.  A finished
\* job that is started again is marked RUNNING again.
Begin(w) ==
    /\ phase[w] = "idle"
    /\ try[w] < MaxTries
    /\ try' = [try EXCEPT ![w] = @ + 1]
    /\ pos' = [pos EXCEPT ![w] = 1]
    /\ broken' = [broken EXCEPT ![w] = 0]
    /\ report' = [report EXCEPT ![w] = NoReports(w)]
    /\ job' = [job EXCEPT ![w] = IF w \in ArqJobs THEN "running" ELSE @]
    /\ Construct(w)
    /\ StartCrawl(w)
    /\ GoTo(w, "crawl")
    /\ UNCHANGED <<exit, points, rows, crashes, collectionVars>>

\* arq does not start a job more often than max_tries.
GiveUp(w) ==
    /\ w \in ArqJobs
    /\ phase[w] = "idle"
    /\ try[w] = MaxTries
    /\ GoTo(w, "ended")
    /\ UNCHANGED <<try, pos, broken, report, exit, job, points, rows, crashes,
                   crawlVars, collectionVars>>

-----------------------------------------------------------------------------
(* One URL: ingest_url *)

\* ingest_url returns a report; whatever raised inside is in it.
Report(w, verdict) ==
    /\ report' = [report EXCEPT ![w][pos[w]] = verdict]
    /\ GoTo(w, "next")

\* A failed statement aborts the transaction of the run's session: every later
\* statement on it fails too.
Abort(w) ==
    /\ Report(w, "failed")
    /\ broken' = [broken EXCEPT ![w] = IF @ = 0 THEN pos[w] ELSE @]

Crawl(w) ==
    /\ phase[w] = "crawl"
    /\ \/ /\ CrawlStep(w, Url(w))
          /\ UNCHANGED <<phase, report>>
       \/ /\ crawl[w] = "ok"
          /\ EndCrawl(w)
          /\ GoTo(w, "check")
          /\ UNCHANGED <<robots, gets, report>>
       \/ /\ crawl[w] = "failed"
          /\ EndCrawl(w)
          /\ Report(w, "failed")
          /\ UNCHANGED <<robots, gets>>
    /\ UNCHANGED <<try, pos, broken, exit, job, points, rows, crashes, collectionVars>>

\* Mutant of Check: the incremental check is left out.
CheckSkipped(w) ==
    /\ phase[w] = "check"
    /\ GoTo(w, "upsert")
    /\ UNCHANGED <<try, pos, broken, report, exit, job, points, rows, crashes,
                   crawlVars, collectionVars>>

\* From the page to validated chunks.  A page without text fails; is_unchanged is
\* a SELECT on the run's session and finds no row; chunking, the embedding
\* provider or validation may leave an error or no chunk at all.
Check(w) ==
    /\ phase[w] = "check"
    /\ \/ Report(w, "failed") /\ UNCHANGED broken
       \/ (broken[w] > 0 \/ DbFaults) /\ Abort(w)
       \/ broken[w] = 0 /\ Report(w, "empty") /\ UNCHANGED broken
       \/ broken[w] = 0 /\ GoTo(w, "upsert") /\ UNCHANGED <<broken, report>>
    /\ UNCHANGED <<try, pos, exit, job, points, rows, crashes, crawlVars, collectionVars>>

\* Points first.  Without a collection the call fails; a failed call may have
\* been applied in part.
Upsert(w) ==
    /\ phase[w] = "upsert"
    /\ \/ /\ Exists
          /\ points' = [points EXCEPT ![Doc(w)] = "all"]
          /\ GoTo(w, "insert")
          /\ UNCHANGED report
       \/ /\ ~Exists
          /\ Report(w, "failed")
          /\ UNCHANGED points
       \/ /\ StoreFaults /\ Exists
          /\ \E part \in {"none", "some", "all"} : points' = [points EXCEPT ![Doc(w)] = part]
          /\ Report(w, "failed")
    /\ UNCHANGED <<try, pos, broken, exit, job, rows, crashes, crawlVars, collectionVars>>

\* Then the chunk rows, in the run's open transaction.
Insert(w) ==
    /\ phase[w] = "insert"
    /\ \/ /\ ~ForeignKeys
          /\ rows' = [rows EXCEPT ![Doc(w)] = "draft"]
          /\ Report(w, "succeeded")
          /\ UNCHANGED broken
       \/ /\ ForeignKeys \/ DbFaults
          /\ Abort(w)
          /\ UNCHANGED rows
    /\ UNCHANGED <<try, pos, exit, job, points, crashes, crawlVars, collectionVars>>

\* The loop of _ingest goes on with the next URL, whatever became of this one.
NextUrl(w) ==
    /\ phase[w] = "next"
    /\ IF pos[w] < Len(Batch[w])
       THEN /\ pos' = [pos EXCEPT ![w] = @ + 1]
            /\ StartCrawl(w)
            /\ GoTo(w, "crawl")
       ELSE /\ GoTo(w, "finish")
            /\ UNCHANGED <<pos, crawl, attempt>>
    /\ UNCHANGED <<try, broken, report, exit, job, points, rows, crashes,
                   robots, gets, collectionVars>>

-----------------------------------------------------------------------------
(* A run ends *)

\* The rows that run w has written and not committed become `as`.
Settle(w, as) ==
    rows' = [d \in Docs |-> IF d[1] = w /\ rows[d] = "draft" THEN as ELSE rows[d]]

\* session_scope commits.  PostgreSQL answers the COMMIT of an aborted
\* transaction with a rollback and no error, so the command prints its reports
\* either way; its exit code tells whether any of them is a failure.  A COMMIT
\* that fails ends the command with a traceback.
FinishCli(w) ==
    /\ w \in Clis
    /\ phase[w] = "finish"
    /\ \/ /\ Settle(w, IF broken[w] = 0 THEN "stored" ELSE "none")
          /\ exit' = [exit EXCEPT ![w] =
                 IF \E i \in 1..Len(Batch[w]) : report[w][i] = "failed"
                 THEN "dirty" ELSE "clean"]
       \/ /\ DbFaults
          /\ Settle(w, "none")
          /\ exit' = [exit EXCEPT ![w] = "dirty"]
    /\ GoTo(w, "ended")
    /\ UNCHANGED <<try, pos, broken, report, job, points, crashes, crawlVars, collectionVars>>

\* run_ingestion_job writes the verdict and commits it with the rows; on an
\* aborted transaction the UPDATE raises out of the task, which arq counts as a
\* failure and does not repeat.
FinishJob(w) ==
    /\ w \in ArqJobs
    /\ phase[w] = "finish"
    /\ \/ /\ broken[w] = 0
          /\ Settle(w, "stored")
          /\ job' = [job EXCEPT ![w] = IF report[w][1] = "failed" THEN "failed" ELSE "succeeded"]
          /\ GoTo(w, "acked")
       \/ /\ broken[w] > 0 \/ DbFaults
          /\ Settle(w, "none")
          /\ UNCHANGED job
          /\ GoTo(w, "ended")
    /\ UNCHANGED <<try, pos, broken, report, exit, points, crashes, crawlVars, collectionVars>>

\* arq records the result and takes the job off its queue.
Acknowledge(w) ==
    /\ phase[w] = "acked"
    /\ GoTo(w, "ended")
    /\ UNCHANGED <<try, pos, broken, report, exit, job, points, rows, crashes,
                   crawlVars, collectionVars>>

\* Mutant of Expire: a job past its time goes back to the queue.
ExpireToQueue(w) ==
    /\ w \in ArqJobs
    /\ phase[w] \notin {"idle", "ended"}
    /\ Settle(w, "none")
    /\ GoTo(w, "idle")
    /\ EndCrawl(w)
    /\ UNCHANGED <<try, pos, broken, report, exit, job, points, crashes, robots, gets,
                   collectionVars>>

\* job_timeout: arq cancels the task, and counts that as a failure.  CancelledError
\* passes the pipeline's `except Exception`: no verdict is written.
Expire(w) ==
    /\ w \in ArqJobs
    /\ phase[w] \notin {"idle", "acked", "ended"}
    /\ Settle(w, "none")
    /\ GoTo(w, "ended")
    /\ EndCrawl(w)
    /\ UNCHANGED <<try, pos, broken, report, exit, job, points, crashes, robots, gets,
                   collectionVars>>

\* The process dies with its session.  A job that arq had not taken off its
\* queue, finished or not, waits there to be started again.
Crash(w) ==
    /\ phase[w] \notin {"idle", "ended"}
    /\ crashes[w] < MaxCrashes
    /\ crashes' = [crashes EXCEPT ![w] = @ + 1]
    /\ Settle(w, "none")
    /\ exit' = [exit EXCEPT ![w] = IF w \in Clis THEN "killed" ELSE @]
    /\ GoTo(w, IF w \in Clis THEN "ended" ELSE "idle")
    /\ EndCrawl(w)
    /\ UNCHANGED <<try, pos, broken, report, job, points, robots, gets, collectionVars>>

-----------------------------------------------------------------------------
\* What the process of run w does next, faults aside.
Step(w) ==
    \/ Begin(w)
    \/ GiveUp(w)
    \/ Crawl(w)
    \/ Check(w)
    \/ Upsert(w)
    \/ Insert(w)
    \/ NextUrl(w)
    \/ FinishCli(w)
    \/ FinishJob(w)
    \/ Acknowledge(w)

Next ==
    \/ \E w \in Runs : Step(w) \/ Expire(w) \/ Crash(w)
    \/ \E s \in Starters :
          /\ StarterStep(s) \/ FailStart(s)
          /\ UNCHANGED <<runVars, crawlVars>>

Spec == Init /\ [][Next]_vars

\* A command that was typed runs, arq's loop polls its queue, HTTP calls and
\* statements end in an answer or an error.  No fault is ever due.
FairSpec == Spec /\ \A w \in Runs : WF_vars(Step(w))

-----------------------------------------------------------------------------
(* Properties *)

\* One session carries all URLs of `nowlens ingest` (cli.py:127).  Exit code 0
\* means that every document it reported is whole in both stores; a broken
\* session loses all its rows, those reported before it broke included, and
\* nothing behind the break reaches Qdrant.
OneSessionOneFate ==
    \A w \in Clis : \A i \in 1..Len(Batch[w]) :
        LET d == <<w, 1, i>> IN
        /\ exit[w] = "clean" /\ report[w][i] = "succeeded" =>
               rows[d] = "stored" /\ points[d] = "all"
        /\ broken[w] > 0 => rows[d] # "stored"
        /\ broken[w] \in 1..(i - 1) => points[d] = "none"

\* Documents of job w with committed rows.
Copies(w) == {d \in DocsOf(w) : rows[d] = "stored"}

\* A second copy of a page by one arq job costs the death of a worker, a failure
\* or a time-out never does; a job that says SUCCEEDED has a copy or nothing to
\* store, and a stored copy always has all its points.
CopiesNeedACrash ==
    \A w \in ArqJobs :
        /\ Cardinality(Copies(w)) <= 1 + crashes[w]
        /\ Cardinality({d \in DocsOf(w) : points[d] # "none"}) <= 1 + crashes[w]
        /\ job[w] = "succeeded" /\ report[w][1] = "succeeded" =>
               \E d \in Copies(w) : d[2] = try[w]
        /\ \A d \in Copies(w) : points[d] = "all"

\* Every command and every job comes to an end, for all retries of the crawl,
\* all re-runs and whatever Qdrant's collection is missing.
RunsSettle == \A w \in Runs : <>(phase[w] = "ended")

=============================================================================
