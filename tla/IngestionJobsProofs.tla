------------------------- MODULE IngestionJobsProofs -------------------------
(***************************************************************************)
(* Theorems about IngestionJobs, for every set of requests, every batch,   *)
(* every number of chunks, every combination of faults, with and without   *)
(* the foreign key and for both orders of commit and background tasks:     *)
(* both stores agree with the verdicts, the tasks of a response finish in  *)
(* order, acknowledged jobs have rows, and where requests commit before    *)
(* their tasks run, IngestionJobs implements JobLedger.                    *)
(***************************************************************************)
EXTENDS IngestionJobs, TLAPS

-----------------------------------------------------------------------------
(* Jobs of a batch *)

\* A batch is made of jobs, each at one place of one batch only: no request's
\* work can touch a job of another request.
LEMMA BatchFacts ==
    ASSUME NEW r \in Requests, NEW i \in 1..Len(Batch[r])
    PROVE  /\ Batch[r][i] \in Jobs
           /\ Batch[r][i] \in JobsOf(r)
           /\ \A s \in Requests : s # r => Batch[r][i] \notin JobsOf(s)
           /\ \A s \in Requests : \A k \in 1..Len(Batch[s]) :
                  Batch[r][i] = Batch[s][k] => r = s /\ i = k
<1>1. Batch[r] \in Seq(Jobs)
  BY BatchAssumption
<1>2. Batch[r][i] \in Jobs
  BY <1>1
<1>3. \A s \in Requests : \A k \in 1..Len(Batch[s]) :
          Batch[r][i] = Batch[s][k] => r = s /\ i = k
  BY BatchAssumption
<1>4. QED
  BY <1>2, <1>3 DEF JobsOf

LEMMA BatchLength ==
    ASSUME NEW r \in Requests
    PROVE  Len(Batch[r]) \in Nat \ {0}
BY BatchAssumption

\* The current job of a request is one of its jobs.
LEMMA CurrentJob ==
    ASSUME TypeOK, NEW r \in Requests
    PROVE  /\ pos[r] \in 1..Len(Batch[r])
           /\ Job(r) \in Jobs
           /\ Job(r) \in JobsOf(r)
           /\ \A s \in Requests : \A i \in 1..Len(Batch[s]) :
                  Batch[s][i] = Job(r) <=> s = r /\ i = pos[r]
<1>1. pos[r] \in 1..Len(Batch[r])
  BY DEF TypeOK
<1>2. QED
  BY <1>1, BatchFacts DEF Job

-----------------------------------------------------------------------------
(* Steps that leave a request alone *)

\* Nothing the invariant says of request s has changed.
Untouched(s) ==
    /\ pc'[s] = pc[s] /\ mode'[s] = mode[s] /\ pos'[s] = pos[s]
    /\ stage'[s] = stage[s] /\ report'[s] = report[s]
    /\ \A i \in 1..Len(Batch[s]) : LET j == Batch[s][i] IN
          /\ jobRow'[j] = jobRow[j] /\ draft'[j] = draft[j]
          /\ rows'[j] = rows[j] /\ draftRows'[j] = draftRows[j]
          /\ vectors'[j] = vectors[j]

RequestInv(s) == WorkInv(s) /\ \A i \in 1..Len(Batch[s]) : JobInv(s, i)

LEMMA UntouchedKeeps ==
    ASSUME TypeOK, NEW s \in Requests, RequestInv(s), Untouched(s)
    PROVE  RequestInv(s)'
<1>1. pos[s] \in 1..Len(Batch[s])
  BY DEF TypeOK
<1>2. WorkInv(s)'
  BY <1>1 DEF RequestInv, WorkInv, Untouched, Job
<1>3. ASSUME NEW i \in 1..Len(Batch[s]) PROVE JobInv(s, i)'
  BY <1>3 DEF RequestInv, JobInv, Untouched, Reached, Unpublished
<1>4. QED
  BY <1>2, <1>3 DEF RequestInv

\* StoreInv is a type invariant and one invariant per request.
LEMMA StoreInvSplit ==
    StoreInv <=> TypeOK /\ \A r \in Requests : RequestInv(r)
BY DEF StoreInv, RequestInv

-----------------------------------------------------------------------------
(* Each action preserves the invariant: the types, the requests the action  *)
(* is not about, the request it is about.                                    *)

USE DeploymentAssumption

LEMMA SubmitKeeps ==
    ASSUME StoreInv, NEW r \in Requests, NEW m \in {"wait", "queue"}, Submit(r, m)
    PROVE  StoreInv'
<1>1. TypeOK /\ \A s \in Requests : RequestInv(s)
  BY StoreInvSplit
<1>2. TypeOK'
  BY <1>1 DEF TypeOK, Submit, PCs, Ended, JobRows, Statuses, Verdicts, Chunks
<1>3. ASSUME NEW s \in Requests, s # r PROVE RequestInv(s)'
  <2>1. Untouched(s)
    BY <1>1, <1>3, BatchFacts DEF Submit, Untouched, TypeOK
  <2>2. QED
    BY <1>1, <2>1, UntouchedKeeps
<1>4. RequestInv(r)'
  <2>1. WorkInv(r)'
    BY <1>1, CurrentJob DEF RequestInv, WorkInv, Submit, TypeOK, Job, Ended, PCs
  <2>2. ASSUME NEW i \in 1..Len(Batch[r]) PROVE JobInv(r, i)'
    <3>1. Batch[r][i] \in Jobs /\ Batch[r][i] \in JobsOf(r) /\ JobInv(r, i) /\ WorkInv(r)
      BY <1>1, <2>2, BatchFacts DEF RequestInv
    <3>2. pos[r] \in Nat
      BY <1>1 DEF TypeOK
    <3>3. QED
      BY <1>1, <2>2, <3>1, <3>2
      DEF JobInv, WorkInv, Submit, Reached, Unpublished, TypeOK, Ended, Verdicts, NoRow
  <2>3. QED
    BY <2>1, <2>2 DEF RequestInv
<1>5. QED
  BY <1>2, <1>3, <1>4 DEF StoreInv, RequestInv

LEMMA CommitRequestKeeps ==
    ASSUME StoreInv, NEW r \in Requests, CommitRequest(r)
    PROVE  StoreInv'
<1>1. TypeOK /\ \A s \in Requests : RequestInv(s)
  BY StoreInvSplit
<1>2. TypeOK'
  <2>1. \A j \in JobsOf(r) : rows[j] + draftRows[j] \in Chunks
    <3>1. ASSUME NEW i \in 1..Len(Batch[r])
          PROVE  rows[Batch[r][i]] + draftRows[Batch[r][i]] \in Chunks
      <4>1. JobInv(r, i) /\ Batch[r][i] \in Jobs
        BY <1>1, <3>1, BatchFacts DEF RequestInv
      <4>2. rows[Batch[r][i]] \in Chunks /\ draftRows[Batch[r][i]] \in Chunks
        BY <1>1, <4>1 DEF TypeOK
      <4>3. rows[Batch[r][i]] > 0 => draftRows[Batch[r][i]] = 0
        BY <4>1 DEF JobInv
      <4>4. QED
        BY <4>2, <4>3 DEF Chunks
    <3>2. QED
      BY <3>1 DEF JobsOf
  <2>2. QED
    BY <1>1, <2>1 DEF TypeOK, CommitRequest, PCs, Ended, JobRows, Statuses, Verdicts, Chunks, NoRow
<1>3. ASSUME NEW s \in Requests, s # r PROVE RequestInv(s)'
  <2>1. Untouched(s)
    BY <1>1, <1>3, BatchFacts DEF CommitRequest, Untouched, TypeOK
  <2>2. QED
    BY <1>1, <2>1, UntouchedKeeps
<1>4. RequestInv(r)'
  <2>1. WorkInv(r)'
    BY <1>1, CurrentJob DEF RequestInv, WorkInv, CommitRequest, TypeOK, Job, Ended, PCs
  <2>2. ASSUME NEW i \in 1..Len(Batch[r]) PROVE JobInv(r, i)'
    <3>1. Batch[r][i] \in Jobs /\ Batch[r][i] \in JobsOf(r) /\ JobInv(r, i) /\ WorkInv(r)
      BY <1>1, <2>2, BatchFacts DEF RequestInv
    <3> DEFINE j == Batch[r][i]
    <3>2. /\ jobRow'[j] = draft[j] /\ draft'[j] = NoRow
          /\ rows'[j] = rows[j] + draftRows[j] /\ draftRows'[j] = 0
          /\ vectors'[j] = vectors[j]
      BY <1>1, <3>1 DEF CommitRequest, TypeOK
    <3>3. /\ pc[r] = "commit" /\ stage[r] = "none" /\ stage' = stage
          /\ mode' = mode /\ pos' = pos
          /\ pc'[r] = IF mode[r] = "queue" /\ r \in CommitsFirst THEN "begin" ELSE "done"
      BY <1>1, <3>1 DEF CommitRequest, TypeOK, WorkInv
    <3>4. rows[j] \in Nat /\ draftRows[j] \in Nat /\ vectors[j] \in Nat
      BY <1>1, <3>1 DEF TypeOK, Chunks
    <3>5. CASE mode[r] = "wait"
      BY <1>1, <3>1, <3>2, <3>3, <3>4, <3>5
      DEF JobInv, Reached, Unpublished, Ended, Verdicts, NoRow
    <3>6. CASE mode[r] = "queue"
      <4>1. draft[j].status \in {"absent", "pending"} /\ draftRows[j] = 0
        BY <3>1, <3>3, <3>4, <3>6 DEF JobInv
      <4>2. rows'[j] = rows[j]
        BY <3>2, <3>4, <4>1
      <4>3. Reached(r, i)' \/ ~Reached(r, i)
        BY <3>3, <3>6, <1>1 DEF Reached, Ended, TypeOK
      <4>4. ~Unpublished(r)'
        BY <3>3, <3>6 DEF Unpublished
      <4>5. QED
        BY <3>1, <3>2, <3>3, <3>6, <4>1, <4>2, <4>3, <4>4 DEF JobInv, Verdicts, NoRow
    <3>7. QED
      BY <1>1, <3>5, <3>6 DEF TypeOK
  <2>3. QED
    BY <2>1, <2>2 DEF RequestInv
<1>5. QED
  BY <1>2, <1>3, <1>4 DEF StoreInv, RequestInv

\* A step on the current URL of r: the other URLs of the same request keep
\* their invariant when nothing of theirs changes.
LEMMA OtherUrlKeeps ==
    ASSUME TypeOK, NEW r \in Requests, NEW i \in 1..Len(Batch[r]), i # pos[r],
           JobInv(r, i), pos'[r] = pos[r], mode'[r] = mode[r],
           Unpublished(r)' => Unpublished(r),
           jobRow'[Batch[r][i]] = jobRow[Batch[r][i]],
           draft'[Batch[r][i]] = draft[Batch[r][i]],
           rows'[Batch[r][i]] = rows[Batch[r][i]],
           draftRows'[Batch[r][i]] = draftRows[Batch[r][i]],
           vectors'[Batch[r][i]] = vectors[Batch[r][i]]
    PROVE  JobInv(r, i)'
BY DEF JobInv, Reached

\* What the invariant says of the URL a pipeline stage works on.
LEMMA WorkingFacts ==
    ASSUME StoreInv, NEW r \in Requests, pc[r] = "work"
    PROVE  /\ TypeOK /\ WorkInv(r) /\ JobInv(r, pos[r])
           /\ Job(r) \in Jobs /\ Job(r) = Batch[r][pos[r]]
           /\ pos[r] \in Nat
           /\ stage[r] # "none"
           /\ report[r] \in [verdict : Verdicts, chunks : Chunks]
           /\ rows[Job(r)] = 0
           /\ jobRow[Job(r)].status \notin Verdicts
           /\ draft[Job(r)].status \notin Verdicts
           /\ stage[r] \notin {"sink", "report"} =>
                  vectors[Job(r)] = 0 /\ draftRows[Job(r)] = 0
           /\ stage[r] = "sink" =>
                  draftRows[Job(r)] = 0 /\ vectors[Job(r)] = report[r].chunks
<1>1. TypeOK /\ RequestInv(r)
  BY StoreInvSplit
<1>2. WorkInv(r) /\ JobInv(r, pos[r]) /\ Job(r) \in Jobs /\ Job(r) = Batch[r][pos[r]]
      /\ pos[r] \in Nat
  BY <1>1, CurrentJob DEF RequestInv, Job, TypeOK
<1>3. stage[r] \notin {"sink", "report"} => ~Reached(r, pos[r])
  BY <1>2 DEF Reached, Ended
<1>4. QED
  BY <1>1, <1>2, <1>3 DEF WorkInv, JobInv, TypeOK

\* A pipeline stage works on the current URL of r and writes neither job rows
\* nor committed chunk rows.
LEMMA StageKeeps ==
    ASSUME StoreInv, NEW r \in Requests, TypeOK', pc[r] = "work",
           UNCHANGED <<pc, mode, pos, jobRow, draft, rows>>,
           \A s \in Requests : s # r => stage'[s] = stage[s] /\ report'[s] = report[s],
           \A j \in Jobs : j # Job(r) =>
               vectors'[j] = vectors[j] /\ draftRows'[j] = draftRows[j],
           stage'[r] # "none",
           stage'[r] \notin {"sink", "report"} =>
               vectors'[Job(r)] = 0 /\ draftRows'[Job(r)] = 0,
           stage'[r] = "sink" =>
               draftRows'[Job(r)] = 0 /\ vectors'[Job(r)] = report'[r].chunks,
           stage'[r] = "report" =>
               /\ draftRows'[Job(r)] = report'[r].chunks
               /\ report'[r].chunks > 0 => report'[r].verdict = "succeeded"
               /\ report'[r].verdict = "succeeded" => vectors'[Job(r)] = report'[r].chunks
    PROVE  StoreInv'
<1>1. TypeOK /\ \A s \in Requests : RequestInv(s)
  BY StoreInvSplit
<1>2. ASSUME NEW s \in Requests, s # r PROVE RequestInv(s)'
  <2>1. Untouched(s)
    BY <1>1, <1>2, BatchFacts, CurrentJob DEF Untouched
  <2>2. QED
    BY <1>1, <2>1, UntouchedKeeps
<1>3. ASSUME NEW i \in 1..Len(Batch[r]), i # pos[r] PROVE JobInv(r, i)'
  <2>1. Batch[r][i] \in Jobs /\ Batch[r][i] # Job(r)
    BY <1>1, <1>3, BatchFacts, CurrentJob
  <2>2. JobInv(r, i)
    BY <1>1 DEF RequestInv
  <2>3. QED
    BY <1>1, <1>3, <2>1, <2>2, OtherUrlKeeps DEF Unpublished
<1> DEFINE j == Batch[r][pos[r]]
<1>4. /\ rows'[j] = 0 /\ jobRow'[j].status \notin Verdicts /\ draft'[j].status \notin Verdicts
      /\ pos[r] \in 1..Len(Batch[r]) /\ j = Job(r) /\ Job(r)' = j
      /\ draftRows'[j] \in Nat
  BY <1>1, WorkingFacts, CurrentJob DEF Job, TypeOK, Chunks
<1>5. WorkInv(r)'
  BY <1>4 DEF WorkInv
<1>6. ASSUME NEW i \in 1..Len(Batch[r]), i = pos[r] PROVE JobInv(r, i)'
  <2>1. ~Reached(r, i)' => stage'[r] \notin {"sink", "report"}
    BY <1>6 DEF Reached
  <2>2. draftRows'[j] > 0 => stage'[r] = "report" /\ draftRows'[j] = vectors'[j]
    BY <1>4 DEF TypeOK
  <2>3. Unpublished(r)' => jobRow'[j] = NoRow
    BY WorkingFacts DEF Unpublished, JobInv
  <2>4. mode'[r] = "queue" => draft'[j].status \in {"absent", "pending"}
    BY WorkingFacts DEF JobInv
  <2>5. QED
    BY <1>4, <1>6, <2>1, <2>2, <2>3, <2>4 DEF JobInv, Verdicts
<1>7. QED
  BY <1>2, <1>3, <1>5, <1>6 DEF StoreInv, RequestInv

\* What the two ways out of a pipeline stage do to the stage and the report.
LEMMA ReportEffect ==
    ASSUME TypeOK, NEW r \in Requests, NEW verdict \in Verdicts, NEW n \in Chunks,
           Report(r, verdict, n)
    PROVE  /\ stage' \in [Requests -> Stages] /\ stage'[r] = "report"
           /\ report' \in [Requests -> [verdict : Verdicts, chunks : Chunks]]
           /\ report'[r].verdict = verdict /\ report'[r].chunks = n
           /\ \A s \in Requests : s # r => stage'[s] = stage[s] /\ report'[s] = report[s]
<1>1. [verdict |-> verdict, chunks |-> n] \in [verdict : Verdicts, chunks : Chunks]
  OBVIOUS
<1>2. QED
  BY <1>1 DEF Report, TypeOK, Stages

LEMMA AdvanceEffect ==
    ASSUME TypeOK, NEW r \in Requests, NEW s \in Stages, Advance(r, s)
    PROVE  /\ stage' \in [Requests -> Stages] /\ stage'[r] = s
           /\ \A q \in Requests : q # r => stage'[q] = stage[q]
BY DEF Advance, TypeOK

\* A stage that touches neither store: on to a stage before the sink, or out
\* with a report that counts no chunk and claims success only for none.
LEMMA DryStageKeeps ==
    ASSUME StoreInv, NEW r \in Requests, pc[r] = "work",
           vectors[Job(r)] = 0, draftRows[Job(r)] = 0,
           txn' \in [Requests -> {"none", "open", "aborted"}],
           UNCHANGED <<pc, mode, pos, jobRow, draft, rows, draftRows, vectors>>,
           \/ \E s \in {"check", "prepare", "upsert"} : Advance(r, s) /\ UNCHANGED report
           \/ \E verdict \in Verdicts : Report(r, verdict, 0)
    PROVE  StoreInv'
<1>1. TypeOK
  BY StoreInvSplit
<1>2. CASE \E s \in {"check", "prepare", "upsert"} : Advance(r, s) /\ UNCHANGED report
  <2>1. PICK s \in {"check", "prepare", "upsert"} : Advance(r, s) /\ UNCHANGED report
    BY <1>2
  <2>2. s \in Stages
    BY DEF Stages
  <2>3. /\ stage' \in [Requests -> Stages] /\ stage'[r] = s
        /\ \A q \in Requests : q # r => stage'[q] = stage[q]
    BY <1>1, <2>1, <2>2, AdvanceEffect
  <2>4. TypeOK'
    BY <1>1, <2>1, <2>3 DEF TypeOK
  <2>5. QED
    BY <1>1, <2>1, <2>3, <2>4, StageKeeps
<1>3. CASE \E verdict \in Verdicts : Report(r, verdict, 0)
  <2>1. PICK verdict \in Verdicts : Report(r, verdict, 0)
    BY <1>3
  <2>2. 0 \in Chunks
    BY DEF Chunks
  <2>3. /\ stage' \in [Requests -> Stages] /\ stage'[r] = "report"
        /\ report' \in [Requests -> [verdict : Verdicts, chunks : Chunks]]
        /\ report'[r].chunks = 0
        /\ \A s \in Requests : s # r => stage'[s] = stage[s] /\ report'[s] = report[s]
    BY <1>1, <2>1, <2>2, ReportEffect
  <2>4. TypeOK'
    BY <1>1, <2>3 DEF TypeOK
  <2>5. QED
    BY <1>1, <2>3, <2>4, StageKeeps
<1>4. QED
  BY <1>2, <1>3

LEMMA CrawlKeeps ==
    ASSUME StoreInv, NEW r \in Requests, Crawl(r)
    PROVE  StoreInv'
<1>1. pc[r] = "work" /\ stage[r] = "crawl"
  BY DEF Crawl, Working
<1>2. TypeOK /\ vectors[Job(r)] = 0 /\ draftRows[Job(r)] = 0
  BY <1>1, WorkingFacts
<1>3. txn' \in [Requests -> {"none", "open", "aborted"}]
  BY <1>2 DEF Crawl, TypeOK
<1>4. QED
  BY <1>1, <1>2, <1>3, DryStageKeeps DEF Crawl, Verdicts

LEMMA CheckUnchangedKeeps ==
    ASSUME StoreInv, NEW r \in Requests, CheckUnchanged(r)
    PROVE  StoreInv'
<1>1. pc[r] = "work" /\ stage[r] = "check"
  BY DEF CheckUnchanged, Working
<1>2. TypeOK /\ vectors[Job(r)] = 0 /\ draftRows[Job(r)] = 0
  BY <1>1, WorkingFacts
<1>3. txn' \in [Requests -> {"none", "open", "aborted"}]
  BY <1>2 DEF CheckUnchanged, StatementFails, TypeOK
<1>4. QED
  BY <1>1, <1>2, <1>3, DryStageKeeps DEF CheckUnchanged, StatementFails, Verdicts

LEMMA PrepareKeeps ==
    ASSUME StoreInv, NEW r \in Requests, Prepare(r)
    PROVE  StoreInv'
<1>1. pc[r] = "work" /\ stage[r] = "prepare"
  BY DEF Prepare, Working
<1>2. /\ TypeOK /\ vectors[Job(r)] = 0 /\ draftRows[Job(r)] = 0
      /\ report[r] \in [verdict : Verdicts, chunks : Chunks]
  BY <1>1, WorkingFacts
<1>3. txn' \in [Requests -> {"none", "open", "aborted"}]
  BY <1>2 DEF Prepare, TypeOK
<1>4. CASE Report(r, "failed", 0) \/ Report(r, "succeeded", 0)
  BY <1>1, <1>2, <1>3, <1>4, DryStageKeeps DEF Prepare, Verdicts
<1>5. CASE \E n \in 1..MaxChunks :
             report' = [report EXCEPT ![r].chunks = n] /\ Advance(r, "upsert")
  <2>1. PICK n \in 1..MaxChunks :
             report' = [report EXCEPT ![r].chunks = n] /\ Advance(r, "upsert")
    BY <1>5
  <2>2. n \in Chunks
    BY DEF Chunks
  <2>3. [report[r] EXCEPT !.chunks = n] \in [verdict : Verdicts, chunks : Chunks]
    BY <1>2, <2>2
  <2>4. /\ report' \in [Requests -> [verdict : Verdicts, chunks : Chunks]]
        /\ \A s \in Requests : s # r => report'[s] = report[s]
    BY <1>2, <2>1, <2>3 DEF TypeOK
  <2>5. /\ stage' \in [Requests -> Stages] /\ stage'[r] = "upsert"
        /\ \A q \in Requests : q # r => stage'[q] = stage[q]
    BY <1>2, <2>1, AdvanceEffect DEF Stages
  <2>6. UNCHANGED <<pc, mode, pos, txn, jobRow, draft, rows, draftRows, vectors>>
    BY DEF Prepare
  <2>7. TypeOK'
    BY <1>2, <2>4, <2>5, <2>6 DEF TypeOK
  <2>8. QED
    BY <1>1, <1>2, <2>4, <2>5, <2>6, <2>7, StageKeeps
<1>6. QED
  BY <1>4, <1>5 DEF Prepare

LEMMA UpsertVectorsKeeps ==
    ASSUME StoreInv, NEW r \in Requests, UpsertVectors(r)
    PROVE  StoreInv'
<1>1. pc[r] = "work" /\ stage[r] = "upsert"
  BY DEF UpsertVectors, Working
<1>2. /\ TypeOK /\ Job(r) \in Jobs /\ draftRows[Job(r)] = 0
      /\ report[r].chunks \in Chunks
  BY <1>1, WorkingFacts
<1>3. UNCHANGED <<pc, mode, pos, txn, jobRow, draft, rows, draftRows>>
  BY DEF UpsertVectors
<1>4. CASE /\ vectors' = [vectors EXCEPT ![Job(r)] = report[r].chunks]
           /\ Advance(r, "sink")
           /\ UNCHANGED report
  <2>1. /\ stage' \in [Requests -> Stages] /\ stage'[r] = "sink"
        /\ \A q \in Requests : q # r => stage'[q] = stage[q]
    BY <1>2, <1>4, AdvanceEffect DEF Stages
  <2>2. /\ vectors' \in [Jobs -> Chunks] /\ vectors'[Job(r)] = report'[r].chunks
        /\ \A j \in Jobs : j # Job(r) => vectors'[j] = vectors[j]
    BY <1>2, <1>4 DEF TypeOK
  <2>3. TypeOK'
    BY <1>2, <1>3, <1>4, <2>1, <2>2 DEF TypeOK
  <2>4. QED
    BY <1>1, <1>2, <1>3, <1>4, <2>1, <2>2, <2>3, StageKeeps
<1>5. CASE /\ \E n \in 0..report[r].chunks : vectors' = [vectors EXCEPT ![Job(r)] = n]
           /\ Report(r, "failed", 0)
  <2>1. PICK n \in 0..report[r].chunks : vectors' = [vectors EXCEPT ![Job(r)] = n]
    BY <1>5
  <2>2. n \in Chunks /\ 0 \in Chunks /\ "failed" \in Verdicts
    BY <1>2 DEF Chunks, Verdicts
  <2>3. /\ stage' \in [Requests -> Stages] /\ stage'[r] = "report"
        /\ report' \in [Requests -> [verdict : Verdicts, chunks : Chunks]]
        /\ report'[r].verdict = "failed" /\ report'[r].chunks = 0
        /\ \A s \in Requests : s # r => stage'[s] = stage[s] /\ report'[s] = report[s]
    BY <1>2, <1>5, <2>2, ReportEffect
  <2>4. /\ vectors' \in [Jobs -> Chunks]
        /\ \A j \in Jobs : j # Job(r) => vectors'[j] = vectors[j]
    BY <1>2, <2>1, <2>2 DEF TypeOK
  <2>5. TypeOK'
    BY <1>2, <1>3, <2>3, <2>4 DEF TypeOK
  <2>6. QED
    BY <1>1, <1>2, <1>3, <2>3, <2>4, <2>5, StageKeeps
<1>6. QED
  BY <1>4, <1>5 DEF UpsertVectors

LEMMA PersistChunksKeeps ==
    ASSUME StoreInv, NEW r \in Requests, PersistChunks(r)
    PROVE  StoreInv'
<1>1. pc[r] = "work" /\ stage[r] = "sink"
  BY DEF PersistChunks, Working
<1>2. /\ TypeOK /\ Job(r) \in Jobs /\ draftRows[Job(r)] = 0
      /\ vectors[Job(r)] = report[r].chunks
      /\ report[r].chunks \in Chunks
  BY <1>1, WorkingFacts
<1>3. UNCHANGED <<pc, mode, pos, jobRow, draft, rows>>
  BY DEF PersistChunks
<1>4. CASE /\ draftRows' = [draftRows EXCEPT ![Job(r)] = report[r].chunks]
           /\ Report(r, "succeeded", report[r].chunks)
           /\ UNCHANGED <<txn, vectors>>
  <2>1. "succeeded" \in Verdicts
    BY DEF Verdicts
  <2>2. /\ stage' \in [Requests -> Stages] /\ stage'[r] = "report"
        /\ report' \in [Requests -> [verdict : Verdicts, chunks : Chunks]]
        /\ report'[r].verdict = "succeeded" /\ report'[r].chunks = report[r].chunks
        /\ \A s \in Requests : s # r => stage'[s] = stage[s] /\ report'[s] = report[s]
    BY <1>2, <1>4, <2>1, ReportEffect
  <2>3. /\ draftRows' \in [Jobs -> Chunks] /\ draftRows'[Job(r)] = report[r].chunks
        /\ \A j \in Jobs : j # Job(r) => draftRows'[j] = draftRows[j]
    BY <1>2, <1>4 DEF TypeOK
  <2>4. TypeOK'
    BY <1>2, <1>3, <1>4, <2>2, <2>3 DEF TypeOK
  <2>5. QED
    BY <1>1, <1>2, <1>3, <1>4, <2>2, <2>3, <2>4, StageKeeps
<1>5. CASE StatementFails(r)
  <2>1. 0 \in Chunks /\ "failed" \in Verdicts
    BY DEF Chunks, Verdicts
  <2>2. /\ stage' \in [Requests -> Stages] /\ stage'[r] = "report"
        /\ report' \in [Requests -> [verdict : Verdicts, chunks : Chunks]]
        /\ report'[r].verdict = "failed" /\ report'[r].chunks = 0
        /\ \A s \in Requests : s # r => stage'[s] = stage[s] /\ report'[s] = report[s]
    BY <1>2, <1>5, <2>1, ReportEffect DEF StatementFails
  <2>3. /\ txn' \in [Requests -> {"none", "open", "aborted"}]
        /\ UNCHANGED <<draftRows, vectors>>
    BY <1>2, <1>5 DEF StatementFails, TypeOK
  <2>4. TypeOK'
    BY <1>2, <1>3, <2>2, <2>3 DEF TypeOK
  <2>5. QED
    BY <1>1, <1>2, <1>3, <2>2, <2>3, <2>4, StageKeeps
<1>6. QED
  BY <1>4, <1>5 DEF PersistChunks

-----------------------------------------------------------------------------
(* The steps that open and close the work on a URL *)

\* What the invariant says of a URL whose work has not begun.
LEMMA WaitingFacts ==
    ASSUME StoreInv, NEW r \in Requests, pc[r] \in {"mark", "begin"}
    PROVE  /\ TypeOK /\ WorkInv(r) /\ JobInv(r, pos[r])
           /\ Job(r) \in Jobs /\ Job(r) = Batch[r][pos[r]]
           /\ pos[r] \in Nat
           /\ rows[Job(r)] = 0 /\ vectors[Job(r)] = 0 /\ draftRows[Job(r)] = 0
           /\ jobRow[Job(r)].status \notin Verdicts
           /\ draft[Job(r)].status \notin Verdicts
<1>1. TypeOK /\ RequestInv(r)
  BY StoreInvSplit
<1>2. WorkInv(r) /\ JobInv(r, pos[r]) /\ Job(r) \in Jobs /\ Job(r) = Batch[r][pos[r]]
      /\ pos[r] \in Nat
  BY <1>1, CurrentJob DEF RequestInv, Job, TypeOK
<1>3. stage[r] = "none"
  BY <1>1, <1>2 DEF WorkInv, TypeOK
<1>4. ~Reached(r, pos[r])
  BY <1>2, <1>3 DEF Reached, Ended
<1>5. QED
  BY <1>1, <1>2, <1>4 DEF JobInv

LEMMA StartInlineKeeps ==
    ASSUME StoreInv, NEW r \in Requests, StartInline(r)
    PROVE  StoreInv'
<1>1. TypeOK /\ \A s \in Requests : RequestInv(s)
  BY StoreInvSplit
<1>2. /\ WorkInv(r) /\ JobInv(r, pos[r]) /\ pos[r] \in 1..Len(Batch[r])
      /\ Job(r) \in Jobs /\ Job(r) = Batch[r][pos[r]]
      /\ rows[Job(r)] = 0 /\ vectors[Job(r)] = 0 /\ draftRows[Job(r)] = 0
      /\ jobRow[Job(r)].status \notin Verdicts
      /\ pc[r] = "mark" /\ mode[r] = "wait"
  BY <1>1, WaitingFacts, CurrentJob DEF StartInline, WorkInv
<1>3. [status |-> "running", chunks |-> 0] \in JobRows
  BY DEF JobRows, Statuses, Chunks
<1>4. /\ pc' \in [Requests -> PCs] /\ stage' \in [Requests -> Stages]
      /\ txn' \in [Requests -> {"none", "open", "aborted"}]
      /\ pc'[r] = "work" /\ stage'[r] = "crawl"
      /\ draft' \in [Jobs -> JobRows] /\ draft'[Job(r)] = [status |-> "running", chunks |-> 0]
      /\ UNCHANGED <<mode, pos, report, jobRow, rows, draftRows, vectors>>
  BY <1>1, <1>2, <1>3 DEF StartInline, TypeOK, PCs, Stages
<1>5. TypeOK'
  BY <1>1, <1>4 DEF TypeOK
<1>6. ASSUME NEW s \in Requests, s # r PROVE RequestInv(s)'
  <2>1. Untouched(s)
    BY <1>1, <1>2, <1>6, BatchFacts, CurrentJob DEF StartInline, Untouched, TypeOK
  <2>2. QED
    BY <1>1, <2>1, UntouchedKeeps
<1>7. WorkInv(r)'
  BY <1>2, <1>4 DEF WorkInv, Job, Verdicts
<1>8. ASSUME NEW i \in 1..Len(Batch[r]), i # pos[r] PROVE JobInv(r, i)'
  <2>1. Batch[r][i] \in Jobs /\ Batch[r][i] # Job(r) /\ JobInv(r, i)
    BY <1>1, <1>8, BatchFacts, CurrentJob DEF RequestInv
  <2>2. draft'[Batch[r][i]] = draft[Batch[r][i]]
    BY <1>1, <2>1 DEF StartInline, TypeOK
  <2>3. QED
    BY <1>1, <1>2, <1>4, <1>8, <2>1, <2>2, OtherUrlKeeps DEF Unpublished
<1>9. JobInv(r, pos[r])'
  BY <1>2, <1>4 DEF JobInv, Unpublished, Verdicts
<1>10. ASSUME NEW i \in 1..Len(Batch[r]) PROVE JobInv(r, i)'
  BY <1>4, <1>8, <1>9
<1>11. QED
  BY <1>5, <1>6, <1>7, <1>10 DEF StoreInv, RequestInv

LEMMA BeginTaskKeeps ==
    ASSUME StoreInv, NEW r \in Requests, BeginTask(r)
    PROVE  StoreInv'
<1>1. TypeOK /\ \A s \in Requests : RequestInv(s)
  BY StoreInvSplit
<1>2. /\ WorkInv(r) /\ JobInv(r, pos[r]) /\ pos[r] \in 1..Len(Batch[r])
      /\ Job(r) \in Jobs /\ Job(r) = Batch[r][pos[r]]
      /\ rows[Job(r)] = 0 /\ vectors[Job(r)] = 0 /\ draftRows[Job(r)] = 0
      /\ draft[Job(r)].status \notin Verdicts
      /\ pc[r] = "begin" /\ mode[r] = "queue"
  BY <1>1, WaitingFacts, CurrentJob DEF BeginTask, WorkInv
<1>3. /\ Marked(Job(r), "running", 0) \in JobRows
      /\ Marked(Job(r), "running", 0).status \notin Verdicts
  BY DEF Marked, NoRow, JobRows, Statuses, Chunks, Verdicts
<1>4. /\ pc' \in [Requests -> PCs] /\ stage' \in [Requests -> Stages]
      /\ txn' \in [Requests -> {"none", "open", "aborted"}]
      /\ pc'[r] = "work" /\ stage'[r] = "crawl"
      /\ jobRow' \in [Jobs -> JobRows] /\ jobRow'[Job(r)].status \notin Verdicts
      /\ UNCHANGED <<mode, pos, report, draft, rows, draftRows, vectors>>
  BY <1>1, <1>2, <1>3 DEF BeginTask, TypeOK, PCs, Stages
<1>5. TypeOK'
  BY <1>1, <1>4 DEF TypeOK
<1>6. ASSUME NEW s \in Requests, s # r PROVE RequestInv(s)'
  <2>1. Untouched(s)
    BY <1>1, <1>2, <1>6, BatchFacts, CurrentJob DEF BeginTask, Untouched, TypeOK
  <2>2. QED
    BY <1>1, <2>1, UntouchedKeeps
<1>7. WorkInv(r)'
  BY <1>2, <1>4 DEF WorkInv, Job
<1>8. ASSUME NEW i \in 1..Len(Batch[r]), i # pos[r] PROVE JobInv(r, i)'
  <2>1. Batch[r][i] \in Jobs /\ Batch[r][i] # Job(r) /\ JobInv(r, i)
    BY <1>1, <1>8, BatchFacts, CurrentJob DEF RequestInv
  <2>2. jobRow'[Batch[r][i]] = jobRow[Batch[r][i]]
    BY <1>1, <2>1 DEF BeginTask, TypeOK
  <2>3. QED
    BY <1>1, <1>2, <1>4, <1>8, <2>1, <2>2, OtherUrlKeeps DEF Unpublished
<1>9. JobInv(r, pos[r])'
  BY <1>2, <1>4 DEF JobInv, Unpublished, Verdicts
<1>10. ASSUME NEW i \in 1..Len(Batch[r]) PROVE JobInv(r, i)'
  BY <1>4, <1>8, <1>9
<1>11. QED
  BY <1>5, <1>6, <1>7, <1>10 DEF StoreInv, RequestInv

\* A rollback forgets what was never committed.  A request may end as failed
\* only while none of its rows are.
LEMMA RollbackKeeps ==
    ASSUME StoreInv, NEW R \in SUBSET Requests, NEW end \in {"failed", "dead"},
           Rollback(end, R),
           \A r \in R : pc[r] # "done" /\ (end = "failed" => Unpublished(r))
    PROVE  StoreInv'
<1>1. TypeOK /\ \A s \in Requests : RequestInv(s)
  BY StoreInvSplit
<1>2. NoRow \in JobRows /\ 0 \in Chunks
  BY DEF NoRow, JobRows, Statuses, Chunks
<1>3. TypeOK'
  BY <1>1, <1>2 DEF Rollback, TypeOK, PCs, Ended, Stages
<1>4. ASSUME NEW s \in Requests, s \notin R PROVE RequestInv(s)'
  <2>1. ASSUME NEW i \in 1..Len(Batch[s])
        PROVE  Batch[s][i] \in Jobs /\ \A r \in R : Batch[s][i] \notin JobsOf(r)
    BY <1>4, <2>1, BatchFacts
  <2>2. Untouched(s)
    BY <1>1, <1>4, <2>1 DEF Rollback, Untouched, TypeOK
  <2>3. QED
    BY <1>1, <2>2, UntouchedKeeps
<1>5. ASSUME NEW r \in R PROVE RequestInv(r)'
  <2>1. /\ r \in Requests /\ pc'[r] = end /\ stage'[r] = "none"
        /\ UNCHANGED <<mode, pos, report, jobRow, rows, vectors>>
        /\ WorkInv(r) /\ pos[r] \in 1..Len(Batch[r])
        /\ pc[r] # "done" /\ (end = "failed" => Unpublished(r))
        /\ mode[r] \in {"wait", "queue"}
    BY <1>1, <1>5 DEF Rollback, TypeOK, RequestInv
  <2>2. WorkInv(r)'
    BY <2>1 DEF WorkInv
  <2>3. ASSUME NEW i \in 1..Len(Batch[r]) PROVE JobInv(r, i)'
    <3> DEFINE j == Batch[r][i]
    <3>1. j \in Jobs /\ j \in JobsOf(r) /\ JobInv(r, i)
      BY <1>1, <2>1, BatchFacts DEF RequestInv
    <3>2. draft'[j] = NoRow /\ draftRows'[j] = 0
      BY <1>5, <3>1 DEF Rollback
    <3>3. ~Reached(r, i)' => ~Reached(r, i)
      BY <1>1, <2>1 DEF Reached, Ended, WorkInv, TypeOK
    <3>4. Unpublished(r)' => Unpublished(r)
      BY <2>1 DEF Unpublished
    <3>5. QED
      BY <2>1, <3>1, <3>2, <3>3, <3>4 DEF JobInv, NoRow, Verdicts
  <2>4. QED
    BY <2>2, <2>3 DEF RequestInv
<1>6. QED
  BY <1>3, <1>4, <1>5 DEF StoreInv, RequestInv

LEMMA FinishInlineKeeps ==
    ASSUME StoreInv, NEW r \in Requests, FinishInline(r)
    PROVE  StoreInv'
<1>1. TypeOK /\ \A s \in Requests : RequestInv(s)
  BY StoreInvSplit
<1>2. pc[r] = "work" /\ mode[r] = "wait" /\ stage[r] = "report" /\ Unpublished(r)
  BY DEF FinishInline, Unpublished
<1>3. CASE Rollback("failed", {r})
  BY <1>2, <1>3, RollbackKeeps
<1>4. CASE /\ draft' = [draft EXCEPT ![Job(r)] = [status |-> report[r].verdict,
                                                 chunks |-> report[r].chunks]]
           /\ pc' = [pc EXCEPT ![r] = IF Last(r) THEN "commit" ELSE "mark"]
           /\ pos' = [pos EXCEPT ![r] = IF Last(r) THEN @ ELSE @ + 1]
           /\ stage' = [stage EXCEPT ![r] = "none"]
           /\ UNCHANGED <<mode, txn, report, jobRow, rows, draftRows, vectors>>
  <2>1. /\ WorkInv(r) /\ JobInv(r, pos[r]) /\ pos[r] \in 1..Len(Batch[r])
        /\ Job(r) \in Jobs /\ Job(r) = Batch[r][pos[r]]
        /\ report[r] \in [verdict : Verdicts, chunks : Chunks]
        /\ rows[Job(r)] = 0 /\ jobRow[Job(r)].status \notin Verdicts
        /\ Len(Batch[r]) \in Nat
    BY <1>1, <1>2, WorkingFacts, CurrentJob, BatchLength
  <2>2. [status |-> report[r].verdict, chunks |-> report[r].chunks] \in JobRows
    BY <2>1 DEF JobRows, Statuses
  <2>3. /\ pc'[r] = IF Last(r) THEN "commit" ELSE "mark"
        /\ pos'[r] = IF Last(r) THEN pos[r] ELSE pos[r] + 1
        /\ pos'[r] \in 1..Len(Batch[r])
        /\ stage'[r] = "none"
        /\ draft'[Job(r)] = [status |-> report[r].verdict, chunks |-> report[r].chunks]
    BY <1>1, <1>4, <2>1 DEF TypeOK, Last
  <2>4. TypeOK'
    <3>1. pc' \in [Requests -> PCs] /\ stage' \in [Requests -> Stages]
      BY <1>1, <1>4 DEF TypeOK, PCs, Ended, Stages
    <3>2. pos' \in [Requests -> Nat] /\ \A s \in Requests : pos'[s] \in 1..Len(Batch[s])
      BY <1>1, <1>4, <2>3 DEF TypeOK
    <3>3. draft' \in [Jobs -> JobRows]
      BY <1>1, <1>4, <2>2 DEF TypeOK
    <3>4. QED
      BY <1>1, <1>4, <3>1, <3>2, <3>3 DEF TypeOK
  <2>5. ASSUME NEW s \in Requests, s # r PROVE RequestInv(s)'
    <3>1. \A i \in 1..Len(Batch[s]) : Batch[s][i] # Job(r) /\ Batch[s][i] \in Jobs
      BY <1>1, <2>5, BatchFacts, CurrentJob
    <3>2. Untouched(s)
      BY <1>1, <1>4, <2>5, <3>1 DEF Untouched, TypeOK
    <3>3. QED
      BY <1>1, <3>2, UntouchedKeeps
  <2>6. WorkInv(r)'
    BY <1>2, <1>4, <2>3 DEF WorkInv
  <2>7. ASSUME NEW i \in 1..Len(Batch[r]) PROVE JobInv(r, i)'
    <3> DEFINE j == Batch[r][i]
    <3>1. j \in Jobs /\ JobInv(r, i) /\ (j = Job(r) <=> i = pos[r])
      BY <1>1, <2>7, BatchFacts, CurrentJob DEF RequestInv
    <3>2. Unpublished(r)
      BY <1>2 DEF Unpublished
    <3>3. CASE i = pos[r]
      <4>1. Reached(r, i)'
        BY <1>2, <1>4, <2>1, <2>3, <3>3 DEF Reached
      <4>2. /\ draftRows[j] = report[r].chunks
            /\ report[r].verdict = "succeeded" => vectors[j] = report[r].chunks
        BY <1>2, <2>1, <3>3 DEF WorkInv
      <4>3. jobRow[j] = NoRow /\ rows[j] = 0
        BY <3>1, <3>2 DEF JobInv
      <4>4. draftRows[j] > 0 => draftRows[j] = vectors[j]
        BY <3>1 DEF JobInv
      <4>5. QED
        BY <1>2, <1>4, <2>1, <2>3, <3>3, <4>1, <4>2, <4>3, <4>4 DEF JobInv, NoRow, Verdicts
    <3>4. CASE i # pos[r]
      <4>1. draft'[j] = draft[j]
        BY <1>1, <1>4, <3>1, <3>4 DEF TypeOK
      <4>2. ~Reached(r, i)' => ~Reached(r, i)
        BY <1>2, <2>1, <2>3, <2>7, <3>4 DEF Reached, Ended
      <4>3. QED
        BY <1>2, <1>4, <3>1, <3>2, <4>1, <4>2 DEF JobInv
    <3>5. QED
      BY <3>3, <3>4
  <2>8. QED
    BY <2>4, <2>5, <2>6, <2>7 DEF StoreInv, RequestInv
<1>5. QED
  BY <1>3, <1>4 DEF FinishInline

LEMMA FinishTaskKeeps ==
    ASSUME StoreInv, NEW r \in Requests, FinishTask(r)
    PROVE  StoreInv'
<1>1. TypeOK /\ \A s \in Requests : RequestInv(s)
  BY StoreInvSplit
<1>2. pc[r] = "work" /\ mode[r] = "queue" /\ stage[r] = "report"
  BY DEF FinishTask
<1>3. CASE Rollback("dead", {r})
  BY <1>2, <1>3, RollbackKeeps
<1>4. CASE /\ jobRow' = [jobRow EXCEPT ![Job(r)] =
                            Marked(Job(r), report[r].verdict, report[r].chunks)]
           /\ rows' = [rows EXCEPT ![Job(r)] = @ + draftRows[Job(r)]]
           /\ draftRows' = [draftRows EXCEPT ![Job(r)] = 0]
           /\ txn' = [txn EXCEPT ![r] = "none"]
           /\ pc' = [pc EXCEPT ![r] = IF ~Last(r) THEN "begin"
                                      ELSE IF r \in CommitsFirst THEN "done" ELSE "commit"]
           /\ pos' = [pos EXCEPT ![r] = IF Last(r) THEN @ ELSE @ + 1]
           /\ stage' = [stage EXCEPT ![r] = "none"]
           /\ UNCHANGED <<mode, report, draft, vectors>>
  <2>1. /\ WorkInv(r) /\ JobInv(r, pos[r]) /\ pos[r] \in 1..Len(Batch[r])
        /\ Job(r) \in Jobs /\ Job(r) = Batch[r][pos[r]]
        /\ report[r] \in [verdict : Verdicts, chunks : Chunks]
        /\ rows[Job(r)] = 0
        /\ Len(Batch[r]) \in Nat
        /\ draftRows[Job(r)] = report[r].chunks
        /\ report[r].chunks > 0 => report[r].verdict = "succeeded"
        /\ report[r].verdict = "succeeded" => vectors[Job(r)] = report[r].chunks
    BY <1>1, <1>2, WorkingFacts, CurrentJob, BatchLength DEF WorkInv
  <2>2. \/ Marked(Job(r), report[r].verdict, report[r].chunks) = NoRow
        \/ Marked(Job(r), report[r].verdict, report[r].chunks)
              = [status |-> report[r].verdict, chunks |-> report[r].chunks]
    BY DEF Marked
  <2>3. Marked(Job(r), report[r].verdict, report[r].chunks) \in JobRows
    BY <2>1, <2>2 DEF JobRows, Statuses, NoRow, Chunks
  <2>4. /\ pc'[r] = IF ~Last(r) THEN "begin"
                    ELSE IF r \in CommitsFirst THEN "done" ELSE "commit"
        /\ pos'[r] = IF Last(r) THEN pos[r] ELSE pos[r] + 1
        /\ pos'[r] \in 1..Len(Batch[r])
        /\ stage'[r] = "none"
        /\ rows'[Job(r)] = report[r].chunks /\ draftRows'[Job(r)] = 0
        /\ jobRow'[Job(r)] = Marked(Job(r), report[r].verdict, report[r].chunks)
    BY <1>1, <1>4, <2>1 DEF TypeOK, Last, Chunks
  <2>5. TypeOK'
    <3>1. /\ pc' \in [Requests -> PCs] /\ stage' \in [Requests -> Stages]
          /\ txn' \in [Requests -> {"none", "open", "aborted"}]
      BY <1>1, <1>4 DEF TypeOK, PCs, Ended, Stages
    <3>2. pos' \in [Requests -> Nat] /\ \A s \in Requests : pos'[s] \in 1..Len(Batch[s])
      BY <1>1, <1>4, <2>4 DEF TypeOK
    <3>3. jobRow' \in [Jobs -> JobRows]
      BY <1>1, <1>4, <2>3 DEF TypeOK
    <3>4. rows' \in [Jobs -> Chunks] /\ draftRows' \in [Jobs -> Chunks]
      BY <1>1, <1>4, <2>1, <2>4 DEF TypeOK, Chunks
    <3>5. QED
      BY <1>1, <1>4, <3>1, <3>2, <3>3, <3>4 DEF TypeOK
  <2>6. ASSUME NEW s \in Requests, s # r PROVE RequestInv(s)'
    <3>1. \A i \in 1..Len(Batch[s]) : Batch[s][i] # Job(r) /\ Batch[s][i] \in Jobs
      BY <1>1, <2>6, BatchFacts, CurrentJob
    <3>2. Untouched(s)
      BY <1>1, <1>4, <2>6, <3>1 DEF Untouched, TypeOK
    <3>3. QED
      BY <1>1, <3>2, UntouchedKeeps
  <2>7. WorkInv(r)'
    BY <1>2, <1>4, <2>4 DEF WorkInv
  <2>8. ~Unpublished(r)'
    BY <1>2, <1>4, <2>4 DEF Unpublished
  <2>9. ASSUME NEW i \in 1..Len(Batch[r]) PROVE JobInv(r, i)'
    <3> DEFINE j == Batch[r][i]
    <3>1. j \in Jobs /\ JobInv(r, i) /\ (j = Job(r) <=> i = pos[r])
      BY <1>1, <2>9, BatchFacts, CurrentJob DEF RequestInv
    <3>2. CASE i = pos[r]
      <4>1. Reached(r, i)'
        BY <1>2, <1>4, <2>1, <2>4, <3>2 DEF Reached, Ended
      <4>2. draft[j].status \in {"absent", "pending"}
        BY <1>2, <3>1 DEF JobInv
      <4>3. report[r].chunks \in Nat
        BY <2>1 DEF Chunks
      <4>4. jobRow'[j].status = "succeeded" =>
               report[r].verdict = "succeeded" /\ jobRow'[j].chunks = report[r].chunks
        BY <2>2, <2>4, <3>1, <3>2 DEF NoRow
      <4>5. QED
        BY <1>4, <2>1, <2>4, <2>8, <3>1, <3>2, <4>1, <4>2, <4>3, <4>4 DEF JobInv, Verdicts
    <3>3. CASE i # pos[r]
      <4>1. /\ jobRow'[j] = jobRow[j] /\ rows'[j] = rows[j]
            /\ draftRows'[j] = draftRows[j]
        BY <1>1, <1>4, <3>1, <3>3 DEF TypeOK
      <4>2. ~Reached(r, i)' => ~Reached(r, i)
        BY <1>2, <2>1, <2>4, <2>9, <3>3 DEF Reached, Ended
      <4>3. ~(draftRows[j] > 0)
        BY <1>2, <3>1, <3>3 DEF JobInv
      <4>4. QED
        BY <1>2, <1>4, <2>8, <3>1, <4>1, <4>2, <4>3 DEF JobInv
    <3>4. QED
      BY <3>2, <3>3
  <2>10. QED
    BY <2>5, <2>6, <2>7, <2>9 DEF StoreInv, RequestInv
<1>5. QED
  BY <1>3, <1>4 DEF FinishTask

LEMMA DbFailureKeeps ==
    ASSUME StoreInv, NEW r \in Requests, DbFailure(r)
    PROVE  StoreInv'
<1>1. TypeOK /\ WorkInv(r)
  BY StoreInvSplit DEF RequestInv
<1>2. pc[r] \in {"idle", "mark", "begin", "commit", "work"}
  BY DEF DbFailure
<1>3. ~Answered(r) => Unpublished(r)
  BY <1>1, <1>2 DEF Answered, Unpublished, WorkInv, TypeOK
<1>4. QED
  BY <1>2, <1>3, RollbackKeeps DEF DbFailure

LEMMA CrashKeeps ==
    ASSUME StoreInv, Crash
    PROVE  StoreInv'
BY RollbackKeeps DEF Crash, Ended

-----------------------------------------------------------------------------
(* The theorems *)

\* The inductive invariant behind all that follows: what the stores hold for a
\* URL depends only on how far the request has come and which of its
\* transactions have committed.
THEOREM StoreInvariant == Spec => []StoreInv
<1>1. Init => StoreInv
  <2> SUFFICES ASSUME Init PROVE StoreInv
    OBVIOUS
  <2>1. ASSUME NEW r \in Requests PROVE Len(Batch[r]) \in Nat \ {0}
    BY <2>1, BatchLength
  <2>2. NoRow \in JobRows /\ 0 \in Chunks /\ NoReport \in [verdict : Verdicts, chunks : Chunks]
    BY DEF NoRow, NoReport, JobRows, Statuses, Chunks, Verdicts
  <2>3. TypeOK
    BY <2>1, <2>2 DEF Init, TypeOK, PCs, Stages
  <2>4. ASSUME NEW r \in Requests PROVE WorkInv(r)
    BY <2>4 DEF Init, WorkInv
  <2>5. ASSUME NEW r \in Requests, NEW i \in 1..Len(Batch[r]) PROVE JobInv(r, i)
    BY <2>5, BatchFacts DEF Init, JobInv, NoRow, Verdicts
  <2>6. QED
    BY <2>3, <2>4, <2>5 DEF StoreInv
<1>2. StoreInv /\ [Next]_vars => StoreInv'
  <2> SUFFICES ASSUME StoreInv, [Next]_vars PROVE StoreInv'
    OBVIOUS
  <2>1. ASSUME NEW r \in Requests, NEW m \in {"wait", "queue"}, Submit(r, m) PROVE StoreInv'
    BY <2>1, SubmitKeeps
  <2>2. ASSUME NEW r \in Requests, CommitRequest(r) PROVE StoreInv'
    BY <2>2, CommitRequestKeeps
  <2>3. ASSUME NEW r \in Requests, StartInline(r) PROVE StoreInv'
    BY <2>3, StartInlineKeeps
  <2>4. ASSUME NEW r \in Requests, FinishInline(r) PROVE StoreInv'
    BY <2>4, FinishInlineKeeps
  <2>5. ASSUME NEW r \in Requests, BeginTask(r) PROVE StoreInv'
    BY <2>5, BeginTaskKeeps
  <2>6. ASSUME NEW r \in Requests, FinishTask(r) PROVE StoreInv'
    BY <2>6, FinishTaskKeeps
  <2>7. ASSUME NEW r \in Requests, Pipeline(r) PROVE StoreInv'
    BY <2>7, CrawlKeeps, CheckUnchangedKeeps, PrepareKeeps, UpsertVectorsKeeps,
       PersistChunksKeeps DEF Pipeline
  <2>8. ASSUME NEW r \in Requests, DbFailure(r) PROVE StoreInv'
    BY <2>8, DbFailureKeeps
  <2>9. CASE Crash
    BY <2>9, CrashKeeps
  <2>10. CASE UNCHANGED vars
    <3>1. TypeOK /\ \A s \in Requests : RequestInv(s)
      BY StoreInvSplit
    <3>2. TypeOK' /\ \A s \in Requests : Untouched(s)
      BY <2>10, <3>1 DEF TypeOK, vars, Untouched
    <3>3. QED
      BY <3>1, <3>2, UntouchedKeeps DEF StoreInv, RequestInv
  <2>11. QED
    BY <2>1, <2>2, <2>3, <2>4, <2>5, <2>6, <2>7, <2>8, <2>9, <2>10 DEF Next, Step
<1>3. QED
  BY <1>1, <1>2, PTL DEF Spec

\* Every variable keeps its type, under every order of steps and faults.
THEOREM TypeCorrect == Spec => []TypeOK
<1>1. StoreInv => TypeOK
  BY DEF StoreInv
<1>2. QED
  BY <1>1, StoreInvariant, PTL

\* What the invariant says of a job, wherever in its batch it stands.
LEMMA JobFacts ==
    ASSUME StoreInv, NEW r \in Requests, NEW j \in JobsOf(r)
    PROVE  /\ jobRow[j].status = "succeeded" =>
                 jobRow[j].chunks = rows[j] /\ rows[j] = vectors[j]
           /\ rows[j] > 0 => rows[j] = vectors[j]
           /\ Unpublished(r) => jobRow[j] = NoRow /\ rows[j] = 0
<1>1. PICK i \in 1..Len(Batch[r]) : j = Batch[r][i]
  BY DEF JobsOf
<1>2. JobInv(r, i)
  BY DEF StoreInv
<1>3. QED
  BY <1>1, <1>2 DEF JobInv

\* Every job is some request's.
LEMMA JobHasRequest ==
    ASSUME NEW j \in Jobs
    PROVE  \E r \in Requests : j \in JobsOf(r)
BY BatchAssumption DEF JobsOf

\* A committed SUCCEEDED row counts exactly what both stores hold, whichever
\* statement failed or whenever the process stopped.
THEOREM VerdictsAreTrue == Spec => []VerdictMatchesStores
<1>1. StoreInv => VerdictMatchesStores
  BY JobFacts, JobHasRequest DEF VerdictMatchesStores
<1>2. QED
  BY <1>1, StoreInvariant, PTL

\* No committed chunk row lacks its point in Qdrant.
THEOREM RowsHaveVectors == Spec => []RowsBackedByVectors
<1>1. StoreInv => RowsBackedByVectors
  BY JobFacts, JobHasRequest DEF RowsBackedByVectors
<1>2. QED
  BY <1>1, StoreInvariant, PTL

\* A request that answered 500 has left nothing in PostgreSQL.
THEOREM FailureIsClean == Spec => []FailedRequestLeavesNoRows
<1>1. StoreInv => FailedRequestLeavesNoRows
  BY JobFacts DEF FailedRequestLeavesNoRows, Unpublished, Stored, NoRow
<1>2. QED
  BY <1>1, StoreInvariant, PTL

-----------------------------------------------------------------------------
(* The order within a batch, and the ledger.  StoreInv says what the stores *)
(* hold for one URL; here is what the URLs of one batch owe each other.    *)

PendingRow == [status |-> "pending", chunks |-> 0]

RunningRow == [status |-> "running", chunks |-> 0]

\* Tasks that run after the commit of the rows they mark.
Early(r) == mode[r] = "queue" /\ r \in CommitsFirst

\* What BatchInOrder says of one request.
InLine(r) ==
    \A i, k \in 1..Len(Batch[r]) :
        i < k /\ jobRow[Batch[r][k]].status \in {"running"} \cup Verdicts =>
            jobRow[Batch[r][i]].status \in Verdicts

\* Job i of the tasks of request r: finished behind the current place, at work
\* there, pending ahead of it.
TaskInv(r, i) ==
    LET j == Batch[r][i] IN
    /\ pc[r] = "commit" => pos[r] = 1 /\ draft[j] = PendingRow
    /\ pc[r] \in {"begin", "work"} =>
          /\ i < pos[r] => jobRow[j].status \in Verdicts
          /\ i = pos[r] => jobRow[j] = IF pc[r] = "begin" THEN PendingRow ELSE RunningRow
          /\ i > pos[r] => jobRow[j] = PendingRow
    /\ pc[r] = "done" => jobRow[j].status \in Verdicts

\* Job i of a request that waits: behind the current place its draft is a
\* verdict that counts its draft of chunk rows.
InlineInv(r, i) ==
    LET j == Batch[r][i] IN
    pc[r] = "commit" \/ (pc[r] \in {"mark", "work"} /\ i < pos[r]) =>
        draft[j] \in Ledger!Finished /\ draftRows[j] = draft[j].chunks

OrderInv(r) ==
    /\ pc[r] \in Ended => InLine(r)
    /\ \A i \in 1..Len(Batch[r]) :
          /\ Early(r) => TaskInv(r, i)
          /\ mode[r] = "wait" => InlineInv(r, i)
          /\ mode[r] = "queue" /\ r \notin CommitsFirst =>
                 /\ jobRow[Batch[r][i]].status \in {"absent", "pending"}
                 /\ pc[r] # "done" => jobRow[Batch[r][i]].status = "absent"

\* The inductive invariant.
LedgerInv == StoreInv /\ \A r \in Requests : OrderInv(r)

USE DeploymentAssumption

-----------------------------------------------------------------------------
(* Requests a step is not about *)

LEMMA UntouchedKeepsOrder ==
    ASSUME NEW s \in Requests, OrderInv(s), Untouched(s)
    PROVE  OrderInv(s)'
<1>1. ASSUME NEW i \in 1..Len(Batch[s])
      PROVE  /\ jobRow'[Batch[s][i]] = jobRow[Batch[s][i]]
             /\ draft'[Batch[s][i]] = draft[Batch[s][i]]
             /\ draftRows'[Batch[s][i]] = draftRows[Batch[s][i]]
  BY <1>1 DEF Untouched
<1>2. pc'[s] = pc[s] /\ mode'[s] = mode[s] /\ pos'[s] = pos[s]
  BY DEF Untouched
<1>3. InLine(s) => InLine(s)'
  BY <1>1 DEF InLine
<1>4. ASSUME NEW i \in 1..Len(Batch[s])
      PROVE  /\ Early(s) /\ TaskInv(s, i) => TaskInv(s, i)'
             /\ InlineInv(s, i) => InlineInv(s, i)'
  BY <1>1, <1>2, <1>4 DEF TaskInv, InlineInv
<1>5. QED
  BY <1>1, <1>2, <1>3, <1>4 DEF OrderInv, Early

\* A step of one request writes its own variables and the rows of its own jobs.
LEMMA StepIsLocal ==
    ASSUME StoreInv, NEW r \in Requests, NEW s \in Requests, s # r,
           \/ \E m \in {"wait", "queue"} : Submit(r, m)
           \/ Step(r)
           \/ DbFailure(r)
    PROVE  Untouched(s)
<1>1. TypeOK
  BY DEF StoreInv
<1>2. /\ Job(r) \in Jobs
      /\ \A i \in 1..Len(Batch[s]) :
             Batch[s][i] \in Jobs /\ Batch[s][i] # Job(r) /\ Batch[s][i] \notin JobsOf(r)
  BY <1>1, BatchFacts, CurrentJob
<1>3. ASSUME NEW end, Rollback(end, {r}) PROVE Untouched(s)
  BY <1>1, <1>2, <1>3 DEF Rollback, Untouched, TypeOK
<1>4. CASE \E m \in {"wait", "queue"} : Submit(r, m)
  BY <1>1, <1>2, <1>4 DEF Submit, Untouched, TypeOK
<1>5. CASE CommitRequest(r)
  BY <1>1, <1>2, <1>5 DEF CommitRequest, Untouched, TypeOK
<1>6. CASE StartInline(r)
  BY <1>1, <1>2, <1>6 DEF StartInline, Untouched, TypeOK
<1>7. CASE FinishInline(r)
  BY <1>1, <1>2, <1>3, <1>7 DEF FinishInline, Untouched, TypeOK
<1>8. CASE BeginTask(r)
  BY <1>1, <1>2, <1>8 DEF BeginTask, Untouched, TypeOK
<1>9. CASE FinishTask(r)
  BY <1>1, <1>2, <1>3, <1>9 DEF FinishTask, Untouched, TypeOK
<1>10. CASE Pipeline(r)
  <2>1. \A n, v : Report(r, v, n) => \A q \in Requests : q # r =>
            stage'[q] = stage[q] /\ report'[q] = report[q]
    BY <1>1 DEF Report, TypeOK
  <2>2. \A p : Advance(r, p) => stage'[s] = stage[s]
    BY <1>1 DEF Advance, TypeOK
  <2>3. CASE Crawl(r)
    BY <2>1, <2>2, <2>3 DEF Crawl, Untouched
  <2>4. CASE CheckUnchanged(r)
    BY <2>1, <2>2, <2>4 DEF CheckUnchanged, StatementFails, Untouched
  <2>5. CASE Prepare(r)
    BY <1>1, <2>1, <2>2, <2>5 DEF Prepare, Untouched, TypeOK
  <2>6. CASE UpsertVectors(r)
    BY <1>1, <1>2, <2>1, <2>2, <2>6 DEF UpsertVectors, Untouched, TypeOK
  <2>7. CASE PersistChunks(r)
    BY <1>1, <1>2, <2>1, <2>2, <2>7 DEF PersistChunks, StatementFails, Untouched, TypeOK
  <2>8. QED
    BY <1>10, <2>3, <2>4, <2>5, <2>6, <2>7 DEF Pipeline
<1>11. CASE DbFailure(r)
  BY <1>3, <1>11 DEF DbFailure
<1>12. QED
  BY <1>4, <1>5, <1>6, <1>7, <1>8, <1>9, <1>10, <1>11 DEF Step

-----------------------------------------------------------------------------
(* Order in a batch *)

\* What the invariant of the stores says of a request that has not published.
LEMMA UnpublishedRows ==
    ASSUME StoreInv, NEW r \in Requests, Unpublished(r), NEW i \in 1..Len(Batch[r])
    PROVE  jobRow[Batch[r][i]] = NoRow
BY DEF StoreInv, JobInv

LEMMA UnpublishedIsInLine ==
    ASSUME StoreInv, NEW r \in Requests, Unpublished(r)
    PROVE  InLine(r)
BY UnpublishedRows DEF InLine, NoRow, Verdicts

\* Wherever a request stands, its jobs are in line.
LEMMA OrderGivesLine ==
    ASSUME LedgerInv, NEW r \in Requests
    PROVE  InLine(r)
<1>1. /\ TypeOK /\ WorkInv(r) /\ OrderInv(r) /\ StoreInv
      /\ mode[r] \in {"wait", "queue"} /\ pc[r] \in PCs /\ pos[r] \in Nat
  BY DEF LedgerInv, StoreInv, TypeOK
<1>2. CASE pc[r] \in Ended
  BY <1>1, <1>2 DEF OrderInv
<1>3. CASE Unpublished(r)
  BY <1>1, <1>3, UnpublishedIsInLine
<1>4. CASE mode[r] = "queue" /\ r \notin CommitsFirst
  BY <1>1, <1>4 DEF OrderInv, InLine, Verdicts
<1>5. CASE Early(r) /\ pc[r] \in {"begin", "work"}
  <2>1. SUFFICES ASSUME NEW i \in 1..Len(Batch[r]), NEW k \in 1..Len(Batch[r]), i < k,
                        jobRow[Batch[r][k]].status \in {"running"} \cup Verdicts
                 PROVE  jobRow[Batch[r][i]].status \in Verdicts
    BY DEF InLine
  <2>2. TaskInv(r, i) /\ TaskInv(r, k) /\ Len(Batch[r]) \in Nat
    BY <1>1, <1>5, BatchLength DEF OrderInv
  <2>3. ~(k > pos[r])
    BY <1>5, <2>1, <2>2 DEF TaskInv, PendingRow, Verdicts
  <2>4. i < pos[r]
    BY <1>1, <2>1, <2>2, <2>3
  <2>5. QED
    BY <1>5, <2>2, <2>4 DEF TaskInv
<1>6. QED
  BY <1>1, <1>2, <1>3, <1>4, <1>5 DEF Unpublished, PCs, Ended, Early, WorkInv

\* A request that ends keeps its committed rows, hence its line.
LEMMA EndKeepsOrder ==
    ASSUME LedgerInv, NEW r \in Requests, NEW R \in SUBSET Requests, r \in R,
           NEW end \in {"failed", "dead"}, Rollback(end, R), pc[r] # "done"
    PROVE  OrderInv(r)'
<1>1. /\ pc'[r] = end /\ mode'[r] = mode[r] /\ jobRow' = jobRow
  BY DEF Rollback
<1>2. InLine(r)'
  BY <1>1, OrderGivesLine DEF InLine
<1>3. mode[r] = "queue" /\ r \notin CommitsFirst =>
          \A i \in 1..Len(Batch[r]) : jobRow[Batch[r][i]].status = "absent"
  BY DEF LedgerInv, OrderInv
<1>4. QED
  BY <1>1, <1>2, <1>3 DEF OrderInv, TaskInv, InlineInv

LEMMA SubmitKeepsOrder ==
    ASSUME LedgerInv, NEW r \in Requests, NEW m \in {"wait", "queue"}, Submit(r, m)
    PROVE  OrderInv(r)'
<1>1. TypeOK /\ WorkInv(r) /\ pc[r] = "idle" /\ pos[r] = 1 /\ StoreInv
  BY DEF LedgerInv, StoreInv, WorkInv, Submit
<1>2. \A i \in 1..Len(Batch[r]) : jobRow[Batch[r][i]] = NoRow
  BY <1>1, UnpublishedRows DEF Unpublished
<1>3. /\ mode'[r] = m /\ jobRow' = jobRow /\ pos' = pos
      /\ pc'[r] = IF m = "wait" THEN "mark" ELSE IF r \in CommitsFirst THEN "commit" ELSE "begin"
  BY <1>1 DEF Submit, TypeOK
<1>4. \A i \in 1..Len(Batch[r]) : draft'[Batch[r][i]] = PendingRow
  BY <1>1, BatchFacts DEF Submit, TypeOK, PendingRow
<1>5. ASSUME NEW i \in 1..Len(Batch[r])
      PROVE  /\ Early(r)' => TaskInv(r, i)'
             /\ m = "wait" => InlineInv(r, i)'
  BY <1>1, <1>3, <1>4, <1>5 DEF Early, TaskInv, InlineInv
<1>6. QED
  BY <1>2, <1>3, <1>5 DEF OrderInv, NoRow, Ended

LEMMA FinishedVerdicts ==
    ASSUME NEW row \in Ledger!Finished
    PROVE  row.status \in Verdicts
BY DEF Ledger!Finished, Ledger!Row, Verdicts

LEMMA CommitKeepsOrder ==
    ASSUME LedgerInv, NEW r \in Requests, CommitRequest(r)
    PROVE  OrderInv(r)'
<1>1. TypeOK /\ WorkInv(r) /\ pc[r] = "commit" /\ StoreInv /\ OrderInv(r)
  BY DEF LedgerInv, StoreInv, CommitRequest
<1>2. mode[r] \in {"wait", "queue"} /\ Len(Batch[r]) \in Nat \ {0} /\ pos[r] \in Nat
  BY <1>1, BatchLength DEF TypeOK
<1>3. /\ mode' = mode /\ pos' = pos
      /\ pc'[r] = IF mode[r] = "queue" /\ r \in CommitsFirst THEN "begin" ELSE "done"
  BY <1>1 DEF CommitRequest, TypeOK
<1>4. ASSUME NEW i \in 1..Len(Batch[r])
      PROVE  jobRow'[Batch[r][i]] = draft[Batch[r][i]]
  BY <1>1, <1>4, BatchFacts DEF CommitRequest, TypeOK
<1>5. CASE Early(r)
  <2>1. pos[r] = 1
    <3>1. 1 \in 1..Len(Batch[r])
      BY <1>2
    <3>2. QED
      BY <1>1, <1>5, <3>1 DEF OrderInv, TaskInv
  <2>2. \A i \in 1..Len(Batch[r]) : jobRow'[Batch[r][i]] = PendingRow
    BY <1>1, <1>4, <1>5 DEF OrderInv, TaskInv
  <2>3. ASSUME NEW i \in 1..Len(Batch[r]) PROVE TaskInv(r, i)'
    BY <1>2, <1>3, <1>5, <2>1, <2>2, <2>3 DEF TaskInv, Early
  <2>4. QED
    BY <1>3, <1>5, <2>3 DEF OrderInv, Early, Ended
<1>6. CASE mode[r] = "queue" /\ r \notin CommitsFirst
  <2>1. \A i \in 1..Len(Batch[r]) : draft[Batch[r][i]].status \in {"absent", "pending"}
    BY <1>1, <1>6 DEF StoreInv, JobInv
  <2> QED
    BY <1>3, <1>4, <1>6, <2>1 DEF OrderInv, InLine, Early, Verdicts
<1>7. CASE mode[r] = "wait"
  <2>1. \A i \in 1..Len(Batch[r]) : draft[Batch[r][i]].status \in Verdicts
    BY <1>1, <1>7, FinishedVerdicts DEF OrderInv, InlineInv
  <2>2. InLine(r)'
    BY <1>4, <2>1 DEF InLine
  <2> QED
    BY <1>3, <1>7, <2>2 DEF OrderInv, Early, InlineInv
<1>8. QED
  BY <1>2, <1>5, <1>6, <1>7 DEF Early

LEMMA StartInlineKeepsOrder ==
    ASSUME LedgerInv, NEW r \in Requests, StartInline(r)
    PROVE  OrderInv(r)'
<1>1. TypeOK /\ WorkInv(r) /\ pc[r] = "mark" /\ mode[r] = "wait" /\ OrderInv(r)
      /\ pos[r] \in Nat
  BY DEF LedgerInv, StoreInv, StartInline, WorkInv, TypeOK
<1>2. pc'[r] = "work" /\ UNCHANGED <<mode, pos, jobRow, draftRows>>
  BY <1>1 DEF StartInline, TypeOK
<1>3. ASSUME NEW i \in 1..Len(Batch[r]), i < pos[r]
      PROVE  draft'[Batch[r][i]] = draft[Batch[r][i]]
  <2>1. Batch[r][i] \in Jobs /\ Batch[r][i] # Job(r)
    BY <1>1, <1>3, BatchFacts, CurrentJob
  <2>2. QED
    BY <1>1, <2>1 DEF StartInline, TypeOK
<1>4. \A i \in 1..Len(Batch[r]) : InlineInv(r, i)'
  BY <1>1, <1>2, <1>3 DEF OrderInv, InlineInv
<1>5. QED
  BY <1>1, <1>2, <1>4 DEF OrderInv, Early, Ended

\* What a report says is a row the ledger knows.
LEMMA ReportIsFinished ==
    ASSUME StoreInv, NEW r \in Requests, pc[r] = "work", stage[r] = "report"
    PROVE  /\ [status |-> report[r].verdict, chunks |-> report[r].chunks] \in Ledger!Finished
           /\ draftRows[Job(r)] = report[r].chunks
           /\ rows[Job(r)] = 0
<1>1. /\ WorkInv(r) /\ report[r].verdict \in Verdicts /\ report[r].chunks \in Chunks
      /\ rows[Job(r)] = 0
  BY WorkingFacts
<1>2. report[r].chunks > 0 => report[r].verdict = "succeeded"
  BY <1>1 DEF WorkInv
<1>3. report[r].chunks = 0 \/ report[r].chunks \in 1..MaxChunks
  BY <1>1 DEF Chunks
<1>4. [status |-> report[r].verdict, chunks |-> report[r].chunks] \in Ledger!Finished
  BY <1>1, <1>2, <1>3 DEF Ledger!Finished, Ledger!Row, Verdicts
<1>5. QED
  BY <1>1, <1>4 DEF WorkInv

LEMMA FinishInlineKeepsOrder ==
    ASSUME LedgerInv, NEW r \in Requests, FinishInline(r)
    PROVE  OrderInv(r)'
<1>1. /\ TypeOK /\ StoreInv /\ OrderInv(r)
      /\ pc[r] = "work" /\ mode[r] = "wait" /\ stage[r] = "report"
      /\ pos[r] \in 1..Len(Batch[r]) /\ Len(Batch[r]) \in Nat
  BY BatchLength DEF LedgerInv, StoreInv, FinishInline, TypeOK
<1>2. CASE Rollback("failed", {r})
  BY <1>1, <1>2, EndKeepsOrder
<1>3. CASE /\ draft' = [draft EXCEPT ![Job(r)] = [status |-> report[r].verdict,
                                                 chunks |-> report[r].chunks]]
           /\ pc' = [pc EXCEPT ![r] = IF Last(r) THEN "commit" ELSE "mark"]
           /\ pos' = [pos EXCEPT ![r] = IF Last(r) THEN @ ELSE @ + 1]
           /\ UNCHANGED <<mode, jobRow, draftRows>>
  <2>1. /\ pc'[r] = IF Last(r) THEN "commit" ELSE "mark"
        /\ pos'[r] = IF Last(r) THEN pos[r] ELSE pos[r] + 1
    BY <1>1, <1>3 DEF TypeOK
  <2>2. ASSUME NEW i \in 1..Len(Batch[r]), i <= pos[r]
        PROVE  draft'[Batch[r][i]] \in Ledger!Finished
               /\ draftRows'[Batch[r][i]] = draft'[Batch[r][i]].chunks
    <3>1. Batch[r][i] \in Jobs /\ (Batch[r][i] = Job(r) <=> i = pos[r])
      BY <1>1, <2>2, BatchFacts, CurrentJob
    <3>2. CASE i = pos[r]
      BY <1>1, <1>3, <3>1, <3>2, ReportIsFinished DEF TypeOK
    <3>3. CASE i < pos[r]
      <4>1. InlineInv(r, i)
        BY <1>1 DEF OrderInv
      <4>2. draft'[Batch[r][i]] = draft[Batch[r][i]]
        BY <1>1, <1>3, <3>1, <3>3 DEF TypeOK
      <4>3. QED
        BY <1>1, <1>3, <3>3, <4>1, <4>2 DEF InlineInv
    <3>4. QED
      BY <1>1, <2>2, <3>2, <3>3
  <2>3. ASSUME NEW i \in 1..Len(Batch[r]), pc'[r] = "commit" \/ i < pos'[r]
        PROVE  i <= pos[r]
    BY <1>1, <2>1, <2>3 DEF Last
  <2>4. \A i \in 1..Len(Batch[r]) : InlineInv(r, i)'
    BY <2>2, <2>3 DEF InlineInv
  <2>5. QED
    BY <1>1, <1>3, <2>1, <2>4 DEF OrderInv, Early, Ended
<1>4. QED
  BY <1>2, <1>3 DEF FinishInline

LEMMA BeginTaskKeepsOrder ==
    ASSUME LedgerInv, NEW r \in Requests, BeginTask(r)
    PROVE  OrderInv(r)'
<1>1. /\ TypeOK /\ WorkInv(r) /\ OrderInv(r) /\ pc[r] = "begin" /\ mode[r] = "queue"
      /\ pos[r] \in 1..Len(Batch[r]) /\ Job(r) = Batch[r][pos[r]]
  BY CurrentJob DEF LedgerInv, StoreInv, BeginTask, WorkInv, TypeOK, Job
<1>2. pc'[r] = "work" /\ UNCHANGED <<mode, pos>>
  BY <1>1 DEF BeginTask, TypeOK
<1>3. ASSUME NEW i \in 1..Len(Batch[r])
      PROVE  jobRow'[Batch[r][i]] = IF i = pos[r] THEN Marked(Job(r), "running", 0)
                                    ELSE jobRow[Batch[r][i]]
  <2>1. Batch[r][i] \in Jobs /\ (Batch[r][i] = Job(r) <=> i = pos[r])
    BY <1>1, <1>3, BatchFacts, CurrentJob
  <2>2. QED
    BY <1>1, <2>1 DEF BeginTask, TypeOK
<1>4. CASE Early(r)
  <2>1. jobRow[Job(r)] = PendingRow
    BY <1>1, <1>4 DEF OrderInv, TaskInv
  <2>2. Marked(Job(r), "running", 0) = RunningRow
    BY <2>1 DEF Marked, PendingRow, RunningRow
  <2>3. ASSUME NEW i \in 1..Len(Batch[r]) PROVE TaskInv(r, i)'
    <3>1. TaskInv(r, i)
      BY <1>1, <1>4 DEF OrderInv
    <3>2. QED
      BY <1>1, <1>2, <1>3, <2>2, <3>1 DEF TaskInv
  <2>4. QED
    BY <1>1, <1>2, <1>4, <2>3 DEF OrderInv, Early, Ended
<1>5. CASE r \notin CommitsFirst
  \* The row is not committed yet: the UPDATE finds nothing.
  <2>1. jobRow[Job(r)].status = "absent"
    BY <1>1, <1>5 DEF OrderInv
  <2>2. QED
    BY <1>1, <1>2, <1>3, <1>5, <2>1 DEF OrderInv, Early, Ended, Marked, NoRow
<1>6. QED
  BY <1>1, <1>4, <1>5 DEF Early

LEMMA FinishTaskKeepsOrder ==
    ASSUME LedgerInv, NEW r \in Requests, FinishTask(r)
    PROVE  OrderInv(r)'
<1>1. /\ TypeOK /\ StoreInv /\ OrderInv(r)
      /\ pc[r] = "work" /\ mode[r] = "queue" /\ stage[r] = "report"
      /\ pos[r] \in 1..Len(Batch[r]) /\ Len(Batch[r]) \in Nat
      /\ report[r].verdict \in Verdicts
  BY BatchLength, WorkingFacts DEF LedgerInv, StoreInv, FinishTask, TypeOK
<1>2. CASE Rollback("dead", {r})
  BY <1>1, <1>2, EndKeepsOrder
<1>3. CASE /\ jobRow' = [jobRow EXCEPT ![Job(r)] =
                            Marked(Job(r), report[r].verdict, report[r].chunks)]
           /\ pc' = [pc EXCEPT ![r] = IF ~Last(r) THEN "begin"
                                      ELSE IF r \in CommitsFirst THEN "done" ELSE "commit"]
           /\ pos' = [pos EXCEPT ![r] = IF Last(r) THEN @ ELSE @ + 1]
           /\ UNCHANGED <<mode, draft>>
  <2>1. /\ pc'[r] = IF ~Last(r) THEN "begin"
                    ELSE IF r \in CommitsFirst THEN "done" ELSE "commit"
        /\ pos'[r] = IF Last(r) THEN pos[r] ELSE pos[r] + 1
    BY <1>1, <1>3 DEF TypeOK
  <2>2. ASSUME NEW i \in 1..Len(Batch[r])
        PROVE  jobRow'[Batch[r][i]] =
                   IF i = pos[r] THEN Marked(Job(r), report[r].verdict, report[r].chunks)
                   ELSE jobRow[Batch[r][i]]
    <3>1. Batch[r][i] \in Jobs /\ (Batch[r][i] = Job(r) <=> i = pos[r])
      BY <1>1, <2>2, BatchFacts, CurrentJob
    <3>2. QED
      BY <1>1, <1>3, <3>1 DEF TypeOK
  <2>3. Job(r) = Batch[r][pos[r]]
    BY DEF Job
  <2>4. CASE Early(r)
    <3>1. jobRow[Job(r)] = RunningRow
      BY <1>1, <2>3, <2>4 DEF OrderInv, TaskInv
    <3>2. Marked(Job(r), report[r].verdict, report[r].chunks).status \in Verdicts
      BY <1>1, <3>1 DEF Marked, RunningRow
    <3>3. ASSUME NEW i \in 1..Len(Batch[r])
          PROVE  /\ i <= pos[r] => jobRow'[Batch[r][i]].status \in Verdicts
                 /\ i > pos[r] => jobRow'[Batch[r][i]] = PendingRow
      <4>1. TaskInv(r, i)
        BY <1>1, <2>4 DEF OrderInv
      <4>2. QED
        BY <1>1, <2>2, <3>2, <4>1 DEF TaskInv
    <3>4. ASSUME NEW i \in 1..Len(Batch[r]) PROVE TaskInv(r, i)'
      BY <1>1, <2>1, <2>4, <3>3, <3>4 DEF TaskInv, Last, Early
    <3>5. pc'[r] = "done" => InLine(r)'
      BY <1>1, <2>1, <3>3 DEF InLine, Last
    <3>6. QED
      BY <1>1, <1>3, <2>1, <2>4, <3>4, <3>5 DEF OrderInv, Early, Ended
  <2>5. CASE r \notin CommitsFirst
    <3>1. jobRow[Job(r)].status = "absent"
      BY <1>1, <2>3, <2>5 DEF OrderInv
    <3>2. QED
      BY <1>1, <1>3, <2>1, <2>2, <2>5, <3>1 DEF OrderInv, Early, Ended, Marked, NoRow
  <2>6. QED
    BY <1>1, <2>4, <2>5 DEF Early
<1>4. QED
  BY <1>2, <1>3 DEF FinishTask

LEMMA PipelineKeepsOrder ==
    ASSUME LedgerInv, NEW r \in Requests, Pipeline(r)
    PROVE  OrderInv(r)'
<1>1. /\ pc[r] = "work" /\ UNCHANGED <<pc, mode, pos, jobRow, draft>>
      /\ TypeOK /\ OrderInv(r) /\ pos[r] \in Nat
  BY DEF LedgerInv, StoreInv, TypeOK, Pipeline, Crawl, CheckUnchanged, Prepare,
         UpsertVectors, PersistChunks, StatementFails, Working
<1>2. ASSUME NEW i \in 1..Len(Batch[r]), i < pos[r]
      PROVE  draftRows'[Batch[r][i]] = draftRows[Batch[r][i]]
  <2>1. Batch[r][i] \in Jobs /\ Batch[r][i] # Job(r)
    BY <1>1, <1>2, BatchFacts, CurrentJob
  <2>2. QED
    BY <1>1, <2>1
    DEF TypeOK, Pipeline, Crawl, CheckUnchanged, Prepare, UpsertVectors, PersistChunks,
        StatementFails
<1>3. ASSUME NEW i \in 1..Len(Batch[r])
      PROVE  /\ Early(r) => TaskInv(r, i)'
             /\ mode[r] = "wait" => InlineInv(r, i)'
  BY <1>1, <1>2, <1>3 DEF OrderInv, TaskInv, InlineInv
<1>4. QED
  BY <1>1, <1>3 DEF OrderInv, Early, Ended

-----------------------------------------------------------------------------
(* The invariant *)

LEMMA OrderStep == LedgerInv /\ StoreInv' /\ [Next]_vars => LedgerInv'
<1> SUFFICES ASSUME LedgerInv, StoreInv', [Next]_vars, NEW s \in Requests
             PROVE  OrderInv(s)'
  BY DEF LedgerInv
<1>1. StoreInv /\ OrderInv(s)
  BY DEF LedgerInv
<1>2. ASSUME NEW r \in Requests,
             \/ \E m \in {"wait", "queue"} : Submit(r, m)
             \/ Step(r)
             \/ DbFailure(r)
      PROVE  OrderInv(s)'
  <2>1. CASE s # r
    BY <1>1, <1>2, <2>1, StepIsLocal, UntouchedKeepsOrder
  <2>2. ASSUME NEW m \in {"wait", "queue"}, Submit(r, m) PROVE OrderInv(r)'
    BY <2>2, SubmitKeepsOrder
  <2>3. ASSUME Step(r) PROVE OrderInv(r)'
    <3>1. CASE CommitRequest(r) BY <3>1, CommitKeepsOrder
    <3>2. CASE StartInline(r) BY <3>2, StartInlineKeepsOrder
    <3>3. CASE FinishInline(r) BY <3>3, FinishInlineKeepsOrder
    <3>4. CASE BeginTask(r) BY <3>4, BeginTaskKeepsOrder
    <3>5. CASE FinishTask(r) BY <3>5, FinishTaskKeepsOrder
    <3>6. CASE Pipeline(r) BY <3>6, PipelineKeepsOrder
    <3>7. QED
      BY <2>3, <3>1, <3>2, <3>3, <3>4, <3>5, <3>6 DEF Step
  <2>4. CASE DbFailure(r)
    <3>1. \E end \in {"failed", "dead"} : Rollback(end, {r})
      BY <2>4 DEF DbFailure
    <3>2. pc[r] # "done"
      BY <2>4 DEF DbFailure
    <3>3. QED
      BY <2>1, <3>1, <3>2, EndKeepsOrder
  <2>5. QED
    BY <1>2, <2>1, <2>2, <2>3, <2>4
<1>3. CASE Crash
  <2> DEFINE R == {r \in Requests : pc[r] \notin {"idle"} \cup Ended}
  <2>1. Rollback("dead", R)
    BY <1>3 DEF Crash
  <2>2. CASE s \in R
    <3>1. pc[s] # "done"
      BY <2>2 DEF Ended
    <3>2. QED
      BY <2>1, <2>2, <3>1, EndKeepsOrder
  <2>3. CASE s \notin R
    <3>1. \A i \in 1..Len(Batch[s]) :
              Batch[s][i] \in Jobs /\ \A r \in R : Batch[s][i] \notin JobsOf(r)
      BY <2>3, BatchFacts
    <3>2. Untouched(s)
      <4> HIDE DEF R
      <4> QED
        BY <1>1, <2>1, <2>3, <3>1 DEF Rollback, Untouched, StoreInv, TypeOK
    <3>3. QED
      BY <1>1, <3>2, UntouchedKeepsOrder
  <2>4. QED
    BY <2>2, <2>3
<1>4. CASE UNCHANGED vars
  BY <1>1, <1>4, UntouchedKeepsOrder DEF vars, Untouched
<1>5. QED
  BY <1>2, <1>3, <1>4 DEF Next

\* The jobs of every batch stand in line, and what a request is about to publish
\* are whole verdicts.
THEOREM LedgerInvariant == Spec => []LedgerInv
<1>1. Init => \A r \in Requests : OrderInv(r)
  <2> SUFFICES ASSUME Init, NEW r \in Requests PROVE OrderInv(r)
    OBVIOUS
  <2>1. pc[r] = "idle"
    BY DEF Init
  <2>2. \A i \in 1..Len(Batch[r]) : jobRow[Batch[r][i]] = NoRow
    BY BatchFacts DEF Init
  <2>3. QED
    BY <2>1, <2>2 DEF OrderInv, TaskInv, InlineInv, Ended, NoRow
<1>2. StoreInv /\ Init => LedgerInv
  BY <1>1 DEF LedgerInv
<1>3. QED
  BY <1>2, OrderStep, StoreInvariant, PTL DEF Spec

\* The tasks of one response run one after the other, also when the process
\* stops or a task raises (workers/tasks.py, FastAPI's BackgroundTasks).
THEOREM BatchesStayInOrder == Spec => []BatchInOrder
<1>1. LedgerInv => BatchInOrder
  BY OrderGivesLine DEF BatchInOrder, InLine
<1>2. QED
  BY <1>1, LedgerInvariant, PTL

\* With the early commit a job id in a response always has its row.
THEOREM AcknowledgedJobsExist == Spec => []EarlyAcknowledgementsHold
<1>1. LedgerInv => EarlyAcknowledgementsHold
  <2> SUFFICES ASSUME LedgerInv, NEW r \in CommitsFirst, mode[r] = "queue",
                      Answered(r) \/ pc[r] = "done", NEW j \in JobsOf(r)
               PROVE  Stored(j)
    BY DEF EarlyAcknowledgementsHold, AcknowledgementsHold
  <2>1. r \in Requests /\ Early(r) /\ pc[r] \in {"begin", "work", "done"} /\ pos[r] \in Nat
    BY DEF Answered, Early, LedgerInv, StoreInv, TypeOK
  <2>2. PICK i \in 1..Len(Batch[r]) : j = Batch[r][i]
    BY DEF JobsOf
  <2>3. TaskInv(r, i)
    BY <2>1 DEF LedgerInv, OrderInv
  <2>4. i < pos[r] \/ i = pos[r] \/ i > pos[r]
    BY <2>1
  <2>5. QED
    BY <2>1, <2>2, <2>3, <2>4 DEF TaskInv, Stored, PendingRow, RunningRow, Verdicts
<1>2. QED
  BY <1>1, LedgerInvariant, PTL

-----------------------------------------------------------------------------
(* The ledger *)

\* The committed rows the ledger is about have not moved.
Still == \A j \in EarlyJobs : jobRow'[j] = jobRow[j] /\ rows'[j] = rows[j]

LEMMA StillStutters == Still => UNCHANGED Ledger!ledger
BY DEF Still, Ledger!ledger

LEMMA EarlyJobsAreJobs ==
    /\ EarlyJobs \subseteq Jobs
    /\ \A r \in CommitsFirst : JobsOf(r) \subseteq EarlyJobs
    /\ \A r \in Requests \ CommitsFirst : JobsOf(r) \cap EarlyJobs = {}
<1>1. ASSUME NEW r \in CommitsFirst, NEW j \in JobsOf(r) PROVE j \in Jobs
  BY BatchFacts DEF JobsOf
<1>2. ASSUME NEW r \in Requests \ CommitsFirst, NEW j \in JobsOf(r), j \in EarlyJobs
      PROVE  FALSE
  <2>1. PICK i \in 1..Len(Batch[r]) : j = Batch[r][i]
    BY <1>2 DEF JobsOf
  <2>2. PICK s \in CommitsFirst : j \in JobsOf(s)
    BY <1>2 DEF EarlyJobs
  <2>3. s \in Requests /\ s # r
    BY <1>2
  <2>4. QED
    BY <2>1, <2>2, <2>3, BatchFacts
<1>3. QED
  BY <1>1, <1>2 DEF EarlyJobs

\* The commit of a request is one Appear of all its jobs.
LEMMA CommitAppears ==
    ASSUME LedgerInv, NEW r \in CommitsFirst, CommitRequest(r)
    PROVE  Ledger!Next
<1> DEFINE J == JobsOf(r)
           new == [j \in J |-> draft[j]]
<1>1. /\ StoreInv /\ TypeOK /\ OrderInv(r) /\ WorkInv(r) /\ r \in Requests /\ pc[r] = "commit"
      /\ mode[r] \in {"wait", "queue"}
  BY DEF LedgerInv, StoreInv, TypeOK, CommitRequest
<1>2. Unpublished(r)
  BY <1>1 DEF Unpublished
<1>3. J \subseteq EarlyJobs /\ EarlyJobs \subseteq Jobs
  BY EarlyJobsAreJobs
<1>4. ASSUME NEW j \in J
      PROVE  /\ jobRow[j] = NoRow /\ rows[j] = 0
             /\ mode[r] = "queue" => draft[j] = PendingRow
             /\ mode[r] = "wait" => draft[j] \in Ledger!Finished
             /\ draftRows[j] = draft[j].chunks
  <2>1. PICK i \in 1..Len(Batch[r]) : j = Batch[r][i]
    BY DEF JobsOf
  <2>2. JobInv(r, i)
    BY <1>1 DEF StoreInv
  <2>3. CASE mode[r] = "wait"
    BY <1>1, <1>2, <2>1, <2>2, <2>3 DEF JobInv, OrderInv, InlineInv
  <2>4. CASE mode[r] = "queue"
    <3>1. draft[j] = PendingRow
      BY <1>1, <2>1, <2>4 DEF OrderInv, TaskInv, Early
    <3>2. stage[r] = "none" /\ draftRows[j] \in Nat
      BY <1>1, <1>3 DEF WorkInv, TypeOK, Chunks
    <3>3. draftRows[j] = 0
      BY <2>1, <2>2, <2>4, <3>2 DEF JobInv
    <3>4. QED
      BY <1>2, <2>1, <2>2, <2>4, <3>1, <3>3 DEF JobInv, PendingRow
  <2>5. QED
    BY <1>1, <2>3, <2>4
<1>5. new \in [J -> {PendingRow}] \cup [J -> Ledger!Finished]
  BY <1>1, <1>4
<1>6. ASSUME NEW j \in EarlyJobs
      PROVE  /\ jobRow'[j] = IF j \in J THEN new[j] ELSE jobRow[j]
             /\ rows'[j] = IF j \in J THEN new[j].chunks ELSE rows[j]
  <2>1. /\ j \in Jobs
        /\ jobRow'[j] = IF j \in J THEN draft[j] ELSE jobRow[j]
        /\ rows'[j] = IF j \in J THEN rows[j] + draftRows[j] ELSE rows[j]
    BY <1>3 DEF CommitRequest
  <2>2. draftRows[j] \in Nat
    BY <1>1, <2>1 DEF TypeOK, Chunks
  <2>3. QED
    BY <1>4, <2>1, <2>2
<1>7. J \in SUBSET EarlyJobs /\ Ledger!Appear(J)
  <2> HIDE DEF J, new
  <2>1. \A j \in J : [k \in EarlyJobs |-> jobRow[k]][j] = Ledger!Row("absent", 0)
    BY <1>3, <1>4 DEF NoRow, Ledger!Row
  <2>2. new \in [J -> {Ledger!Row("pending", 0)}] \cup [J -> Ledger!Finished]
    BY <1>5 DEF PendingRow, Ledger!Row
  <2>3. /\ [j \in EarlyJobs |-> jobRow'[j]] =
               [j \in EarlyJobs |-> IF j \in J THEN new[j] ELSE [k \in EarlyJobs |-> jobRow[k]][j]]
        /\ [j \in EarlyJobs |-> rows'[j]] =
               [j \in EarlyJobs |-> IF j \in J THEN new[j].chunks
                                    ELSE [k \in EarlyJobs |-> rows[k]][j]]
    BY <1>6
  <2>4. QED
    BY <1>3, <2>1, <2>2, <2>3 DEF Ledger!Appear
<1>8. QED
  BY <1>7 DEF Ledger!Next

\* One row moves, the others stay.
Moves(j, row, n) ==
    /\ jobRow' = [jobRow EXCEPT ![j] = row]
    /\ \A k \in Jobs : rows'[k] = IF k = j THEN n ELSE rows[k]

LEMMA MoveMaps ==
    ASSUME TypeOK, NEW j \in EarlyJobs, NEW row, NEW n, Moves(j, row, n)
    PROVE  /\ jobRow[j] = PendingRow /\ row = RunningRow /\ n = rows[j] => Ledger!Start(j)
           /\ jobRow[j] = RunningRow /\ row \in Ledger!Finished /\ n = row.chunks
                 => Ledger!Finish(j)
<1>1. EarlyJobs \subseteq Jobs
  BY EarlyJobsAreJobs
<1>2. \A k \in EarlyJobs : /\ jobRow'[k] = IF k = j THEN row ELSE jobRow[k]
                           /\ rows'[k] = IF k = j THEN n ELSE rows[k]
  BY <1>1 DEF Moves, TypeOK
<1>3. [k \in EarlyJobs |-> jobRow'[k]] = [[k \in EarlyJobs |-> jobRow[k]] EXCEPT ![j] = row]
  BY <1>2
<1>4. [k \in EarlyJobs |-> rows'[k]] = [[k \in EarlyJobs |-> rows[k]] EXCEPT ![j] = n]
  BY <1>2
<1>5. [k \in EarlyJobs |-> jobRow[k]][j] = jobRow[j]
  OBVIOUS
<1>6. ASSUME jobRow[j] = PendingRow, row = RunningRow, n = rows[j] PROVE Ledger!Start(j)
  <2>1. [k \in EarlyJobs |-> rows'[k]] = [k \in EarlyJobs |-> rows[k]]
    BY <1>2, <1>6
  <2>2. QED
    BY <1>3, <1>5, <1>6, <2>1 DEF Ledger!Start, Ledger!Row, PendingRow, RunningRow
<1>7. ASSUME jobRow[j] = RunningRow, row \in Ledger!Finished, n = row.chunks
      PROVE  Ledger!Finish(j)
  BY <1>3, <1>4, <1>5, <1>7 DEF Ledger!Finish, Ledger!Row, RunningRow
<1>8. QED
  BY <1>6, <1>7

LEMMA CurrentRow ==
    ASSUME LedgerInv, NEW r \in CommitsFirst, pc[r] \in {"begin", "work"}, mode[r] = "queue"
    PROVE  /\ Job(r) \in EarlyJobs /\ Job(r) \in Jobs
           /\ jobRow[Job(r)] = IF pc[r] = "begin" THEN PendingRow ELSE RunningRow
<1>1. r \in Requests /\ TypeOK /\ pos[r] \in 1..Len(Batch[r]) /\ Job(r) \in JobsOf(r)
      /\ Job(r) = Batch[r][pos[r]]
  BY CurrentJob DEF LedgerInv, StoreInv, Job, TypeOK
<1>2. TaskInv(r, pos[r]) /\ pos[r] \in Nat
  BY <1>1 DEF LedgerInv, OrderInv, Early
<1>3. QED
  BY <1>1, <1>2, EarlyJobsAreJobs DEF TaskInv

LEMMA BeginMaps ==
    ASSUME LedgerInv, NEW r \in CommitsFirst, BeginTask(r)
    PROVE  Ledger!Next
<1>1. /\ TypeOK /\ WorkInv(r) /\ pc[r] = "begin" /\ r \in Requests
  BY DEF LedgerInv, StoreInv, BeginTask
<1>2. Job(r) \in EarlyJobs /\ Job(r) \in Jobs /\ jobRow[Job(r)] = PendingRow
  BY <1>1, CurrentRow DEF WorkInv
<1>3. Marked(Job(r), "running", 0) = RunningRow
  BY <1>2 DEF Marked, PendingRow, RunningRow
<1>4. PICK j \in EarlyJobs : j = Job(r)
  BY <1>2
<1>5. PICK n : n = rows[j]
  OBVIOUS
<1>6. Moves(j, RunningRow, n)
  BY <1>1, <1>2, <1>3, <1>4, <1>5 DEF BeginTask, Moves
<1>7. Ledger!Start(j)
  BY <1>1, <1>2, <1>4, <1>5, <1>6, MoveMaps
<1>8. QED
  BY <1>7 DEF Ledger!Next

LEMMA FinishMaps ==
    ASSUME LedgerInv, NEW r \in CommitsFirst, FinishTask(r)
    PROVE  Ledger!Next \/ Still
<1>1. /\ TypeOK /\ StoreInv /\ pc[r] = "work" /\ mode[r] = "queue" /\ stage[r] = "report"
      /\ r \in Requests
  BY DEF LedgerInv, StoreInv, FinishTask
<1>2. CASE Rollback("dead", {r})
  BY <1>2, EarlyJobsAreJobs DEF Rollback, Still
<1>3. CASE /\ jobRow' = [jobRow EXCEPT ![Job(r)] =
                            Marked(Job(r), report[r].verdict, report[r].chunks)]
           /\ rows' = [rows EXCEPT ![Job(r)] = @ + draftRows[Job(r)]]
  <2>1. PICK j \in EarlyJobs : j = Job(r)
    BY <1>1, CurrentRow
  <2>2. PICK row : row = [status |-> report[r].verdict, chunks |-> report[r].chunks]
    OBVIOUS
  <2>3. j \in Jobs /\ jobRow[j] = RunningRow
    BY <1>1, <2>1, CurrentRow
  <2>4. /\ row \in Ledger!Finished /\ draftRows[j] = row.chunks /\ rows[j] = 0
        /\ row.status = report[r].verdict /\ row.chunks = report[r].chunks
    BY <1>1, <2>1, <2>2, ReportIsFinished
  <2>5. draftRows[j] \in Nat
    BY <1>1, <2>3 DEF TypeOK, Chunks
  <2>6. Marked(j, report[r].verdict, report[r].chunks) = row
    BY <2>2, <2>3 DEF Marked, RunningRow
  <2>7. Moves(j, row, row.chunks)
    BY <1>1, <1>3, <2>1, <2>3, <2>4, <2>5, <2>6 DEF Moves, TypeOK
  <2>8. Ledger!Finish(j)
    BY <1>1, <2>3, <2>4, <2>7, MoveMaps
  <2>9. QED
    BY <2>8 DEF Ledger!Next
<1>4. QED
  BY <1>2, <1>3 DEF FinishTask

\* Requests that commit late, and steps that commit nothing, leave it alone.
LEMMA LedgerStep == LedgerInv /\ [Next]_vars => Ledger!Next \/ Still
<1> SUFFICES ASSUME LedgerInv, [Next]_vars PROVE Ledger!Next \/ Still
  OBVIOUS
<1>1. TypeOK /\ StoreInv
  BY DEF LedgerInv, StoreInv
<1>2. ASSUME NEW r \in Requests \ CommitsFirst,
             CommitRequest(r) \/ BeginTask(r) \/ FinishTask(r)
      PROVE  Still
  <2>1. /\ \A j \in EarlyJobs : j \in Jobs /\ j \notin JobsOf(r) /\ j # Job(r)
    BY <1>1, <1>2, EarlyJobsAreJobs, CurrentJob
  <2>2. QED
    BY <1>1, <1>2, <2>1 DEF CommitRequest, BeginTask, FinishTask, Rollback, Still, TypeOK
<1>3. ASSUME NEW r \in Requests, CommitRequest(r) \/ BeginTask(r) \/ FinishTask(r)
      PROVE  Ledger!Next \/ Still
  BY <1>2, <1>3, CommitAppears, BeginMaps, FinishMaps
<1>4. ASSUME NEW r \in Requests, NEW m, Submit(r, m) PROVE Still
  BY <1>4 DEF Submit, Still
<1>5. ASSUME NEW r \in Requests, StartInline(r) \/ FinishInline(r) \/ Pipeline(r)
      PROVE  Still
  BY <1>5 DEF StartInline, FinishInline, Pipeline, Crawl, CheckUnchanged, Prepare,
              UpsertVectors, PersistChunks, Rollback, Still
<1>6. ASSUME NEW r \in Requests, DbFailure(r) PROVE Still
  BY <1>6 DEF DbFailure, Rollback, Still
<1>7. CASE Crash
  BY <1>7 DEF Crash, Rollback, Still
<1>8. CASE UNCHANGED vars
  BY <1>8 DEF vars, Still
<1>9. QED
  BY <1>3, <1>4, <1>5, <1>6, <1>7, <1>8 DEF Next, Step

\* Where requests commit before their tasks run, the committed rows move as the
\* ledger says: a batch appears at once, a row never moves back, chunk rows come
\* with the verdict that counts them.
THEOREM LedgerIsImplemented == Spec => LedgerSpec
<1>1. Init => Ledger!Init
  <2>1. \A j \in EarlyJobs : j \in Jobs
    BY EarlyJobsAreJobs
  <2>2. QED
    BY <2>1 DEF Init, Ledger!Init, Ledger!Row, NoRow
<1>2. LedgerInv /\ [Next]_vars => [Ledger!Next]_(Ledger!ledger)
  BY LedgerStep, StillStutters
<1>3. QED
  BY <1>1, <1>2, LedgerInvariant, PTL DEF Spec, LedgerSpec, Ledger!Spec

=============================================================================
