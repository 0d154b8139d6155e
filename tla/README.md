# NowLens, specified

TLA+ models, TLC configurations and machine-checked proofs for NowLens, the
retrieval-augmented assistant in `src/src/nowlens`. Paths below are relative to
that directory unless they start with `docs/` or `tests/`.

## The system

NowLens is a FastAPI service. Several API processes share one PostgreSQL, one
Qdrant and one Redis; inside a process everything runs on one asyncio event
loop, so two handlers interleave exactly at their `await`s. PostgreSQL runs at
READ COMMITTED and each request has one session, opened and committed by the
dependency `get_session` (`db/session.py`).

| Component | State it keeps | Operations | What is hard |
|---|---|---|---|
| Ingestion requests and tasks (`api/routers/ingestion.py`, `workers/tasks.py`) | `ingestion_jobs` rows; the queue of background tasks of a response | submit, inline loop, background task per URL | two transactions per task, the request's own transaction, crashes, a task that raises |
| Ingestion pipeline (`ingestion/pipeline.py`, `ingestion/stages`) | Qdrant points, `document_chunks` rows, the report | crawl, check, chunk, embed, upsert, persist | two stores without a common transaction, errors captured at one level and raised at another |
| Vector store (`rag/vector_store.py`) | the Qdrant collection | upsert, search, delete, ensure_collection | calls that fail after they took effect |
| Rate limiter (`security/rate_limit.py`, `api/deps.py`) | a Redis sorted set and an in-process deque per identity | check | clock read before the wait, outages, expiry, rounding |
| Accounts and tenants (`api/routers/auth.py`, `tenants.py`) | `users`, `tenants` | register, create_tenant, create_tenant_user | look-up, count and insert are not atomic |
| Chat and sessions (`api/routers/chat.py`, `sessions.py`) | `chat_sessions`, `messages` | chat, stream, delete session | answers written long after the question, deletion meanwhile, disconnects, commit time |
| Retrieval (`rag/`) | none of its own | embed, two searches, fusion, rerank, compression, citations | ranks, ties, index ranges, filters that must agree with the tags of ingestion |
| Agents (`agents/`) | the state of one graph run | detect, route, retrieve, specialist, QA | fallbacks, replies that are not the JSON asked for, the QA verdict |
| Domain packs (`domain_packs/`, `core/domains.py`) | none | detect platforms and modules, relate modules | shared vocabulary, names inside other words |
| Text stages (`ingestion/stages/*.py`) | none | extract, clean, normalize, chunk, enrich, deduplicate | boundaries of sizes, fences, buffers |
| Providers (`llm/`) | HTTP clients | chat, stream, embed with retries | retries, partial batches, order of items |
| Crawler (`ingestion/stages/crawl.py`) | robots cache | fetch | cached failures, attempts, redirects |
| Authentication (`security/jwt.py`, `api/cookies.py`, `api/deps.py`) | cookies of a browser, tokens of a client | login, refresh, logout, the checks of a request | stale claims, responses out of order, two ways to find out who calls |
| Command line (`cli.py`), arq worker (`workers/arq_worker.py`) | the session of a run, arq's queue | ingest, bootstrap, run a job | one session for many URLs, re-runs after a crash |
| Front end (`frontend/src/lib/api.ts`) | none | requests of a page | which cookies and headers a page sends |
| Configuration, observability, migrations, manifests | none that the above do not keep | | |

Components interact through PostgreSQL rows (a chat reads the chunk rows that
ingestion commits, an admin polls job rows), through Qdrant points, and through
the session object that a handler, the pipeline and the repositories of one
request share. `PROJECT.json` lists each component with its status, and the
hazards of the code at their lines.

What makes each component correct:

- *Ingestion*: a verdict tells the truth about both stores; a batch is worked on
  in order; a job id given to a client exists; a request that failed left no
  rows; every job gets a verdict unless its request or its tasks died.
- *Rate limiter*: no window admits more than the limit; nobody is turned away
  whose budget is not spent; Retry-After is neither too early nor a second too late,
  up to the rounding of the code.
- *Accounts*: unique keys, no lost bootstrap, no tokens for accounts that do not
  exist, no leftovers of failed requests.
- *Chat*: no message without its session, no answer without its question,
  deletions are final, what a client was told is recorded.
- *Retrieval and agents*: citations name chunks that were retrieved, fused ranks
  are monotone, a QA verdict never accepts an index that is out of range, what is
  stored about a question reaches the model, and no reply that says something is dropped.
- *Text stages*: no text is lost between a page and its chunks, and every chunk
  gets its own vector.
- *Authentication*: rights follow the database and not the token, a call is charged
  to whom it acts as, cookies belong together.
- *Command line, worker, crawler*: one session has one fate, a job that runs again
  doubles a document only after a crash, no crawl begins at a page whose rules are
  known to forbid it, attempts and redirects are bounded, every run ends.

## One question the source leaves open: when a request commits

`get_session` commits in the exit code of a `yield` dependency. FastAPI runs that
code before the response is sent in some releases that `pyproject.toml`
(`fastapi>=0.111`) allows and after the response, background tasks included, in
others. Both orders occur in deployments of this code, so the modules cover both:
`CommitsFirst`, a constant of `IngestionJobs`, is the set of requests in processes
that commit first, and `commitFirst` is chosen in `Init` by `Accounts` and
`ChatTurns`. Properties that only hold in one order say
so in their formula.

## Modules

### IngestionJobs (the core)

One request per element of `Requests`, one job per URL of its batch. A job also
stands for its document id: `ingest_url` draws a fresh uuid for every run, so no
two jobs share rows or points.

| Variable | Code |
|---|---|
| `pc`, `mode`, `pos` | where the handler or the tasks behind it stand, `payload.wait`, the index in the loop over URLs |
| `stage`, `report` | the next stage of `_run`, the `IngestionReport` |
| `txn` | the state of the session the pipeline writes through: `open`, or `aborted` by a failed statement |
| `jobRow`, `rows` | committed `ingestion_jobs` rows, number of committed `document_chunks` rows of the job's document |
| `draft`, `draftRows` | what open transactions have written |
| `vectors` | points in Qdrant |

`Submit`, `CommitRequest`, `StartInline`, `FinishInline` are the handler;
`BeginTask` and `FinishTask` the two sessions of `run_ingestion_job`; `Crawl`,
`CheckUnchanged`, `Prepare`, `UpsertVectors`, `PersistChunks` the stages of
`_run`, each ending in `Report` when `ingest_url` captures an exception.
`DbFailure` is a statement or commit that fails outside the pipeline's `try`,
`Crash` the end of the process. Text is abstracted to the number of chunks that
reach the index.

Whether the database enforces `document_chunks.document_id -> documents.id` is
the constant `ForeignKeys`: PostgreSQL does, the SQLite of a default test setup
does not. With it enforced no insert of chunk rows succeeds, because nothing in
the code writes a `documents` row (finding below). The passing runs set it to
FALSE, which includes the failing insert (fault `db`) as well as the successful
one and so has every behaviour of TRUE; the proofs hold for both.

### JobLedger

What the readers of PostgreSQL rely on, in three actions: jobs of a request
appear together, start, and finish in the same instant as their chunk rows
appear. `IngestionJobs` implements it for the requests that commit before their
tasks: `Ledger == INSTANCE JobLedger WITH ...` maps `jobRow` and `rows`, restricted
to the jobs of those requests, and `LedgerSpec` is checked as a PROPERTY.

### RateLimiter

`Arrive` reads the clock; `CheckLocally`, `CheckInRedis` or `FallBack` decide, up
to `MaxLag` ticks later. The Redis pipeline is one step, as MULTI/EXEC is;
`FallBack` is a pipeline that raised, with or without having taken effect. `Tick`
advances the clock and expires idle keys. `calls` is the history the properties
are about. On the way to Redis two calls of an identity never read the same
instant: the code names members of the set by a timestamp of microseconds, the
ticks of the model are far coarser, and the collapse of equal timestamps is
listed as a hazard without a property.

A local denial rounds twice: `Rounded` is `round(retry_after, 2)`
(`security/rate_limit.py:72`; ties go to the even hundredth), `Header` the
`max(1, ceil(...))` of `api/app.py:89`. A tick is `1 / Second` of a second and a
fraction of a hundredth, so that the first rounding changes something.

### Accounts

A call goes through look-up, count, insert and commit. The unique index makes an
insert wait for an open transaction that holds the key, and fail once the key is
committed. `Fail` is any statement or commit that fails, the audit row included.

### ChatTurns

A turn resolves its session, inserts its question, waits for retrieval and model,
inserts its answer and commits. A message in an open transaction holds a
key-share lock on its session's row, so `Erase` waits for `Holders`, and a
question waits for a deletion under way. The answer is followed by `Touch`,
`sessions.touch` (`api/routers/chat.py:155`, `258`), an UPDATE whose row lock lasts
until the end of the transaction, so a turn waits for the turns of its session that
are `Touching` it. PostgreSQL may end a wait of an UPDATE and a DELETE for each other
as a deadlock; that is one of the failures of `DbFailure`.

`AddLostAnswer` is the insert of a streamed answer through a session that was
committed before the response started (`Lost`). It opens a second transaction which
no code ends: it stays in `draft`, locks and all, after the request has ended, until
`Collect`, the garbage collection of the session object. A disconnect either ends the response normally (the question commits) or
cancels a statement (it is rolled back). The order of messages is not modelled.

### Answering

What `ChatTurns` takes as one wait: a question from its embedding to its reviewed
answer. `run[q]` is the `AgentState` of the question together with the locals of
`retrieve`; `active[q]` is what the ContextVar `_active_ctx` holds in its task.

| Action | Code |
|---|---|
| `Begin` | `run_answer` up to the first node, or the start of a stream or a search |
| `Embed`, `VectorSearch`, `LexicalSearch`, `Rerank` | the awaits of `HybridRetriever.retrieve`; fusion runs with the second search's answer, citations and context with the reranker's |
| `Generate` | the specialist of the graph, or the streamed best-practice answer |
| `ReviewUngrounded`, `ReviewByModel`, `ReviewByCheck` | the three ways out of `quality_assurance` |
| `Retry` | a failed attempt that `tenacity` repeats |
| `Abort` | an exception that ends the question |

Detection and routing are pure functions of the question. They choose the
specialist and the domain filter; the specialists differ in wording, and a domain
filter is one more reason for a search to return any sequence of the tenant's
chunks. An answer is the set of numbers it puts in brackets. A fused score is an
exact fraction where the code has a float: two lists add at most two terms, and
equal ranks give equal floats in either order. The order of the fused candidates
is dropped behind the cut, because a reranker may return them in any order.
Compression shortens the text of passages and keeps their number, so it does not
show. Degraded mode (`ctx.retriever is None`) never arises from `services.py`.

### Corpus, with Crawler and Collection

Ingestion outside `POST /ingest`. `Corpus` composes two components that are
modules of their own: `Crawler` (the robots cache and the retry loop around
`fetch`) and `Collection` (`ensure_collection`, which several processes run at
start-up).

| Action | Code |
|---|---|
| `Begin` | `_ingest` builds session and pipeline, or `run_ingestion_job` marks the job |
| `Crawl`, `Check`, `Upsert`, `Insert` | the stages of `_run` that call others or end early |
| `Abort`, `Report`, `NextUrl` | what `ingest_url` captures, and the loop of the command |
| `Settle`, `FinishCli`, `FinishJob` | the one commit of a session, the exit code, the verdict |
| `Acknowledge`, `Expire`, `GiveUp`, `Crash` | arq's side: a job done, timed out, out of tries; a worker that dies |

A document is named by run, try and place of its URL, since every run of a URL
draws a new document id. Nothing calls `DocumentRepository.upsert`, so the table
`documents` stays empty and no page is ever found unchanged. Crawls of one
pipeline never overlap: `ingest_urls` is called by tests only. Reading robots.txt
has two outcomes, rules or none; a failure is the second, and is cached as such. A GET
follows redirects, so `Fetch` makes between one and `Chain` requests; where they go
is left open, since the code does not look at it either.

### Access

Who a request acts as, while time passes, responses overtake each other or are
lost, and an operator lowers roles or deactivates accounts. `jar` is the browser's
cookies with their lives, `held` an API client's tokens. A request carries what
its sender had when it left; `ServeUse` is the chain of dependencies of a protected
endpoint (`csrf_protect`, `current_user`, `rate_limit`, `require_role` or
`platform_admin`). `SendUse` is the front end's `request` for a page, and any other
program for a client. `request` reads `document.cookie` first and `fetch` attaches the
cookies afterwards; the model takes both as one step, so a response that replaces the
cookies between them is not covered. `standing` remembers the roles in the database at the time a
request was sent, for `RevocationHolds`.

### Knowledge, with TextStages, Detection and Catalogue

What `IngestionJobs` and `Answering` leave open: what the text of a page becomes,
and what a question finds of it. `Catalogue` holds the three domain packs with the
names, aliases and relations of every module. `Detection` reads platform, modules
and intent out of a text. `TextStages` is the pure stages of ingestion. `Knowledge`
composes them: a page goes through the stages in the order of the pipeline into
the stores, then one question goes through the nodes of the graph to a specialist.

| Action | Code |
|---|---|
| `Render`, `ExtractText`, `Clean`, `NormalizeText`, `Chunk`, `DropDuplicates`, `EmbedBatch`, `Index` | the stages of `IngestionPipeline._run`; `Chunk` is chunk and enrich, `Index` is validate and index |
| `Ask`, `Detect`, `Route`, `Search` | `run_answer`, the first nodes of the graph, both searches with their filters and their fusion |
| `Rerank`, `Compress` | the lexical reranker, and compression at its default (on) |
| `BestPractices`, `Research`, `BusinessAnalysis`, `MarketplaceAssessment`, `FeatureOverlap` | the specialists |

A text is a sequence of tokens of length one: phrases of the catalogue, other
words, spaces, line feeds, heading marks, fences, dashes and periods. Sizes count
tokens where the code counts characters, and what `str.__contains__` says of two
phrases is a table (`Words` for whole words in a phrase, `Inside` for phrases inside
words: "ci" is in "incident"). What remains open is what others decide: which
neighbours the vector index finds, what a model returns, the order and the errors
of the embedding service, what a browser renders. BLAKE2 is a constant operator
(`HashFeature`); similarity, majority and order of SimHash are the code's.

### MC modules and proofs

`MCIngestionJobs`, `MCRateLimiter`, `MCAnswering`, `MCCorpus`, `MCAccess` and
`MCKnowledge` give TLC its batches, symmetry, tenants, pages and questions;
`Accounts` and `ChatTurns` need no module of their own. The theorems are in
`IngestionJobsProofs` (with JobLedger), `RateLimiterProofs`, `AccountsProofs`,
`ChatTurnsProofs`, `AnsweringProofs`, `CorpusProofs` (with Crawler and Collection),
`AccessProofs` and `KnowledgeProofs` (with TextStages).

Each module contains mutants: operators whose comment starts with "Mutant of".
No specification uses them. Each is a plausible bug, and substituting it for the
operator it names makes TLC reject the property that `PROJECT.json` pairs it with.

## Runs

| Run | Question | Outcome |
|---|---|---|
| `ingestion_jobs` | two requests, one committed before its tasks and one after them: verdicts, stores, order, announcements, ledger, progress | holds |
| `ingestion_worker_crash` | does one bad URL leave the tasks behind it alone? | violated |
| `rate_limiter` | budgets, denials and Retry-After with outages and delays | holds |
| `accounts` | keys, bootstrap, tokens, clean failures, progress | holds |
| `accounts_bootstrap` | is only the first registration an admin? | violated |
| `chat_turns` | transcripts, deletions, progress | holds |
| `chat_stream` | is a streamed answer in the transcript? | violated |
| `answering` | tenants, fusion, citations, reviews, retries, progress | holds |
| `corpus` | the command line, arq's re-runs, crawling and the start of the collection, with every failure: fate of a session, copies, manners, progress | holds |
| `access` | revoked rights, the identity a call is charged to, cookies | holds |
| `knowledge` | text, code, vectors, recognised modules, evidence, replies | holds |
| `knowledge_platforms` | is a page about a module of another platform found by a question about it? | violated |

Type invariants are not among the properties of the runs: those of seven
modules with proofs are theorems (`TypeCorrect`, `LimiterStateIsTyped`,
`AccountTypes`, `ChatStateIsTyped`, `AnsweringTypes`, `CorpusStateIsTyped`,
`AccessTypes`). The types of `Knowledge` that matter, those of the text and its
chunks, are part of its inductive invariant `IngestionInv`.

### Bounds, and why they are enough

- *Ingestion*: two requests (two URLs and one), at most two chunks, one unchanged
  page. Two URLs are the least that have an order, something to lose behind a
  failure and something to roll back; requests share no row, and a second one
  shows that. Two chunks make a partial upsert differ from none and all.
- *Rate limiter*: two workers, limit 2, a window of 8 ticks, four of which make a
  second and two a hundredth to be rounded to, a lag of one tick, four calls, a
  horizon of 12 ticks: a full window, its expiry and a call of the next one, with one
  call in flight across each boundary, and waits on either side of a hundredth and of
  a second. The constraint `WorthExploring` leaves out behaviours that only differ in
  the instant of the first call, and what follows the decision of the last.
- *Accounts*: three calls, two emails, one slug: two rivals for a key and an admin
  who creates them, or three registrations.
- *Chat*: three requests: two turns and a deletion in one session, or a session, a
  turn in it and its deletion.

- *Answering*: two questions of two tenants, of which one has three chunks in two
  documents: two chunks that collapse into one citation, and three that two
  searches can find and a cut at two can drop. Two attempts per call, numbers up
  to 2 in answers: 0, the numbers of citations, and one beyond them.

- *Corpus*: a command with two URLs of one host, the first forbidden by its rules,
  or an arq job with two tries and two deaths; three attempts of a crawl, each with at
  most one redirect (httpx follows up to twenty, and only their number matters); two
  processes that create the collection. Runs share nothing but the collection, so
  one at a time is enough; two URLs are the least that share a cache and a session,
  and two tries the least that make a copy.
- *Access*: two users, one of whom loses rights; a browser and an API client; two
  requests under way; an access token lives for one tick and a refresh token for
  two; two logins or refreshes; one endpoint for operators with an unsafe method,
  one for platform admins with a safe one. Two responses that overtake each other
  are what a mixed cookie jar takes.
- *Knowledge*: every page of up to three elements of eight kinds, and five special
  ones (code larger than two chunks, code that contains a fence, a main element too small with a footer and
  inline code, a page that only scripts fill, an empty one); chunks of 8 tokens,
  an overlap of 2, a least size of 3; hashes of 6 bits; batches of two. Three
  elements suffice for every buffer to be filled, to overflow and to be left over,
  within sections and next to fences. Questions: nine about these pages, among
  them one for each specialist, and one for every name of every module of the three
  packs. Texts that differ in case only, or in the length of a word, are not told
  apart; every word may start a sentence.

`CHECK_DEADLOCK FALSE` is set where the system may rightly stop: every request
has been served, the page or the turn is done, or the clock has reached its bound.

### Fairness

`FairSpec` asks weak fairness of each request's own steps. The event loop resumes
every coroutine that can run, HTTP clients have timeouts, so a call to Qdrant, a
provider or a page ends in an answer or an exception, and PostgreSQL wakes a
transaction when the one it waits for ends. In `ChatTurns` nothing asks that a lost
answer's session object is ever collected: `RequestsEnd` says that every request ends
unless in its session the transaction of a lost answer stays open for ever. In `Answering` the attempts of a call
are fair like its answer: `RunsEnd` rests on their number. Nothing asks fairness of clients
(submitting, asking, deleting), of failures or of crashes. In `Corpus` a run's own
steps are fair, arq's included: its queue starts a job again whose worker has died,
as long as it has tries left, and `RunsSettle` rests on `MaxTries` and on the number
of attempts of a crawl. `RateLimiter`, `Access` and `Knowledge` have safety
properties only.

## Findings

With a run that shows them:

1. `ingestion_worker_crash`: `ingest_url` captures the exception of a failed chunk
   insert, but the transaction is aborted and the verdict goes through the same
   session: the task raises, the job stays RUNNING and the tasks behind it are
   dropped. With the foreign key enforced this is every page with text.
2. `accounts_bootstrap`: overlapping registrations each see an empty tenant.
3. `chat_stream`: with the early commit streamed answers are never committed. Worse,
   the INSERT and the UPDATE of such an answer (`api/routers/chat.py:247`-`266`) run
   in a second transaction that nothing ends: its locks and its pool connection stay
   until the session object is garbage-collected, and meanwhile a DELETE of the
   session and the next turns in it wait (`Collect` in `ChatTurns`).
4. `knowledge_platforms`: chunks are tagged with modules of the default pack only
   and searched by the modules of the platform of the question, so a Salesforce or
   Jira question that names a module finds nothing at all.

Seen while modelling, without a run of their own:

- `security/rate_limit.py:84` counts denied calls in Redis and not in memory, so a
  client that keeps retrying stays denied although fewer than `limit` of its calls
  were admitted, against the docstring at line 34.
- Retry-After may be a little too early: `security/rate_limit.py:72` rounds the wait to
  hundredths, down by up to 5 ms, before `api/app.py:89` rounds it up to seconds, so a
  wait of 5.004 s becomes 5 and a client that returns exactly then is denied again.
  `RetryAfterIsClose` allows for half a hundredth. With Redis the header is always the
  whole window, an upper bound that no property speaks of.
- `ingestion/stages/crawl.py:4` and `docs/INGESTION.md:14` promise that robots.txt is
  enforced. The client follows redirects (line 32) and only the URL that was asked for
  is looked up (line 57): an allowed page that redirects to a forbidden one, or to a host
  whose rules nobody has read, makes the crawler request that too.
  `CrawlStartsPolitely` is about the page a crawl begins at.
- A reply of a model that is empty, or blank (`llm/ollama.py:94` makes a missing content
  empty, `agents/base.py:68` strips), becomes an empty answer: `extract_json` finds
  nothing in it and the `or raw` of the specialists falls back on the empty reply itself.
  The turn ends as any other, and stores an empty message; only the review may say
  "revise". `RepliesAreKept` says that this is the one way to an empty answer.
- With the late commit a client polls job ids that no row has yet
  (`docs/API.md:158`), and the marks of the tasks update nothing.
- `docs/INGESTION.md:29` and the README describe incremental ingestion; as nothing
  fills `documents`, no page is ever skipped and `DELETE /documents/{id}` finds
  nothing.
- `rag/compression.py:9` promises code verbatim; a fenced block with a period in it
  is cut into sentences, and a middle sentence without a fence may be dropped.
- `ingestion/stages/normalize.py:5` says code stays as it is apart from NFKC; `normalize`
  works on the whole text, so quotes, dashes, zero-width characters and trailing spaces
  change in code as well. What holds up to this folding is `CodeSurvives`.
- A chunk that starts at a heading was split at the heading's mark and has lost it,
  so `enrich_chunk` does not see the heading.
- `AICleaner` cuts a long text at `max_chars`, perhaps inside a code block, and joins
  with a line feed even if the model failed or returned too little
  (`ingestion/stages/clean.py:92`-`97`), whereas the module's docstring (lines 8-12) has
  it degrade to the rule-cleaned text. `CodeSurvives` leaves out code that is cut so.
- A fence in the text of a page, in code or in prose, turns inside and outside around
  for the rest of the page: prose is then protected and code is filtered line by line.
  `CodeSurvives` is about pages without one.
- `extract` leaves out text that stands in a `div` of its own unless the page has no
  other, and repeats a paragraph inside a list item.
- `extract_json` takes everything from the first bracket to the last; its docstring
  says the first balanced span. Prose with a citation before the object is not
  parsed. `_render` of the overlap and marketplace specialists raises on a number
  where a list should be, and on a score that is NaN.
- Module names are found inside words ("ci" in "incident"), and such a hit filters
  the search like any other.
- The rate-limit identity of a cookie session is its address, not its subject.

## Proofs

The safety and action properties of every passing run, three of those of
`knowledge` excepted, and the refinement are theorems: the runs show them on small
instances, the proofs for all values of the constants. TLC agreed with every
inductive invariant below on the instances of the runs.

### IngestionJobs and JobLedger

`IngestionJobsProofs` proves, for every set of requests, batch, chunk bound,
fault set, either setting of the foreign key and either commit order:

- `StoreInvariant`: `Spec => []StoreInv`;
- `TypeCorrect`, `VerdictsAreTrue` (`VerdictMatchesStores`), `RowsHaveVectors`
  (`RowsBackedByVectors`), `FailureIsClean` (`FailedRequestLeavesNoRows`), which
  follow from it.

Assumptions: `BatchAssumption` (a batch is a non-empty sequence of jobs, every
job has exactly one place in one batch: ids are uuids) and
`DeploymentAssumption` (types of the constants).

`VerdictMatchesStores` is not inductive: it says nothing of a verdict about to be
committed. `StoreInv` therefore also speaks of the draft rows, of the report of
the URL at work (at stage `sink` the vectors are written and counted, at stage
`report` a success counts what is in both stores) and of URLs the request has not
reached, whose stores are empty. It is a conjunction of `TypeOK`, one `WorkInv`
per request and one `JobInv` per place of a batch. Each action has a lemma that
shows the type invariant, that requests it is not about are `Untouched`, and the
invariant of its own request; the lemma `RollbackKeeps` serves all the ways a
session can be lost.

The same module proves on top of it:

- `LedgerInvariant`: `Spec => []LedgerInv`;
- `BatchesStayInOrder` (`BatchInOrder`) and `AcknowledgedJobsExist`
  (`EarlyAcknowledgementsHold`), which follow from it;
- `LedgerIsImplemented`: `Spec => LedgerSpec`, the refinement of `JobLedger`.

`BatchInOrder` says how two jobs of a batch compare, and not what either is. `OrderInv`
says it of each one by its place: for background tasks (`TaskInv`) verdicts before
the current place, RUNNING or PENDING at it, PENDING behind; for a request that waits
(`InlineInv`) draft verdicts that count the draft chunk rows; nothing committed while
a request that commits late is under way. When a process dies what remains is
`InLine`, the order alone. The refinement then goes by action: a commit that makes a
batch appear is `Appear` (for a request that waited, with all verdicts in it),
`BeginTask` is `Start`, `FinishTask` is `Finish`, which needs the counts of `StoreInv`
because the ledger says that chunk rows and their verdict appear together, and every
other action is a stutter on the mapped variables.

### RateLimiter

`RateLimiterProofs` proves, for every limit, window, resolution, lag up to a window,
set of workers and identities, and any number of calls:

- `LimiterInvariant`: `Spec => []LimiterInv`;
- `LimiterStateIsTyped` (`TypeOK`), `RedisAdmitsNoMoreThanTheLimit` (`SharedBudget`),
  `WorkersAdmitNoMoreThanTheLimit` (`LocalBudget`), `DenialsAreJustified`
  (`DeniedOnlyWhenSpent`) and `RetryAfterIsRight` (`RetryAfterIsClose`), which follow
  from it.

Assumption: `LimiterAssumption` (a window is a whole number of seconds, a second of
hundredths, the lag is at most a window). `RoundedFacts` says that the
first rounding moves a wait by half a hundredth at most, `HeaderFacts` that both
together give whole seconds that fall short of the wait by no more than that, and
would fall short of it with one second less. The budgets speak of calls, the limiter only has timestamps, and with
a lag these are not in the order of the decisions. `Records` bridges that: a witness
`g` names for every entry of a deque the call behind it, different calls for different
entries, in the order in which they were decided, and no admitted call that is younger
than a window is missing. `SetInv` says the last part of the sorted set. A call is
admitted when fewer than `Limit` entries are fresh; by `CallInv` (a decision comes at
most `Lag` after its stamp) every call that was admitted within `Window - Lag` is still
such an entry, so `BudgetInv`, the budget of every span up to now, is kept. `StampInv`
is the modelling assumption on Redis members made explicit: calls of an identity on
the way to Redis have different stamps. A denial by a deque conversely has `Limit`
entries, hence by `g` that many admitted calls.

### Accounts

`AccountsProofs` proves, for every set of calls, emails and slugs, with and
without database failures and for both orders of commit and response:

- `AccountInvariant`: `Spec => []AccountInv`;
- `AccountTypes` (`TypeOK`), `KeysStayUnique` (`KeysUnique`), `BootstrapHolds`
  (`DefaultTenantHasAdmin`) and `AnswersHold` (`AnswersAreTrue`), which follow from it.

Assumption: `AccountsAssumption` (types of the constants). `KeysUnique` and
`DefaultTenantHasAdmin` speak of committed rows only, and a commit could break
either. `AccountInv` therefore adds that an open transaction already excludes its
rivals (`row[c] # "none"` and not only `"stored"`), and `BootstrapInv`: a
registration past its count is to become an admin, or there is an admin already.
This holds although the count may be stale when the row is stored, because
committed accounts are never removed (lemma `AdminsStay`). `PhaseInv` ties a
call's row and answer to how far it has come. The lemma `CallKeeps` is what a
step of one call owes the invariant; each action has a lemma that pays it.

### ChatTurns

`ChatTurnsProofs` proves, for every set of requests and faults and for both orders of
commit and response:

- `ChatInvariant`: `Spec => []ChatInv`;
- `ChatStateIsTyped` (`TypeOK`), `MessagesHaveSessions` (`NoOrphans`),
  `AnswersFollowQuestions` (`AnswersHaveQuestions`), `AnnouncedSessionsExist`
  (`KnownSessionsExist`) and `FinishedChatsAreRecorded` (`ChatsAreRecorded`), which
  follow from it;
- `DeletionIsFinal` (`DeletedStaysDeleted`), an action property, from the same
  invariant.

Assumption: `ChatAssumption` (the names of the faults). All properties speak of what
is committed. `ChatInv` adds what the open transaction of a turn holds at each step
(`DraftInv`: its question from the moment it is written until it is committed or given
up, and its answer only with the question, unless it is the lost answer of a stream),
when the session a turn creates appears
(`SessionInv`), and that whatever a turn writes to the session of another finds it
stored (`PlaceInv`). The only conjunct about two requests is `LockInv`: a deletion
that has erased its session and a turn with an uncommitted question never share that
session. It is the key-share lock of the foreign key; without it a commit would leave
a message behind its session.

### Answering

`AnsweringProofs` proves, for every set of questions, tenants and chunks and all
limits:

- `AnsweringInvariant`: `Spec => []AnsweringInv`;
- `AnsweringTypes` (`TypeOK`), `TenantsAreIsolated` (`PassagesAreTheAskers`) and
  `NoFalseGrounding` (`UngroundedIsSaid`), which follow from it;
- `DraftsSurviveReview` (`ReviewNeverFails`), an action property, from the same
  invariant;
- `AgreementHolds` (`AgreementSurvives`) and `CitationsAreResolved`
  (`CitationsResolve`), each from a small invariant on top of it.

Assumption: `AnsweringAssumption` (types of the constants; `Nobody` is no tenant).
`PassagesAreTheAskers` alone is not inductive: a search uses whatever the
ContextVar holds. `RunInv` adds that it holds the asker's tenant as long as a
question is under way in the graph. `UpdateKeeps` is what a step of one question
owes the invariant, `PlainKeeps` its special case for steps that keep the context;
`SeqOfIsSeq` and `HitsAreOwned` say what the searches and the reranker can return.

For fusion the proof shows that sorting by falling score with ties by first occurrence
is a strict order of what was found (`OrderIsStrict`; scores are compared by
cross-multiplication, `TimesOrder` and `PlusIsHigher` are the arithmetic), that the
first k of a strictly ordered finite set are k unless the set is smaller and are closed
downwards (`ForemostFill`), and that a chunk which both searches rank ahead has the
higher score (`AgreementLeads`). `FusionInv` carries this to the reranker: hit lists
have no repetitions, and the candidates are those of the two lists beside them.

For citations the loop of `build_citations` is a recursive function. `BuildsExist` and
`CitationsCite` show that it exists and lists each document once and no other, by the
least number of passages at which it could fail (`LeastExists`) instead of an
induction theorem, which the provers cannot instantiate. `CitedInv` says that a
verdict with valid citations has checked them, and `OnlyVerdictsEnd` that a question
of the graph is answered by a verdict only.

### Corpus, Crawler and Collection

`CorpusProofs` proves, for every set of commands and jobs, batch, host and rules, any
number of tries, attempts, deaths and starting processes, with and without failures
and with either setting of the foreign key:

- `CorpusInvariant`: `Spec => []CorpusInv`;
- `CorpusStateIsTyped` (`TypeOK`), `CrawlsStartPolitely`
  (`CrawlStartsPolitely`),
  `IncompleteCollectionsAreKnown` (`IncompleteCollectionIsKnown`),
  `SessionsHaveOneFate` (`OneSessionOneFate`) and `EachCopyCostsACrash`
  (`CopiesNeedACrash`), which follow from it.

Assumptions: `CorpusAssumption` (a job has one URL, a command no URL twice, as its
code drops duplicates), `CrawlerAssumption` and `CollectionAssumption` (types).
`CorpusInv` has one `RunInv` per run and `CollectionInv` for the starters. `CrawlInv`
counts requests against attempts, `Before(a)` being the most that attempts before a
can have made: pages behind the current one were never asked for, which is what makes
the bound per page hold for the whole run. `SessionInv` and
`DocInv` say of every try and URL what is in Qdrant and in PostgreSQL: rows only with
all their points, nothing for tries to come, draft rows only in the open session,
nothing in Qdrant behind the failure that broke the session. `TriesInv` bounds tries
by deaths, and as a try before the current one has left no more than one document,
copies are counted by an injection into the tries. `CollectionInv` needs the builder
itself: as long as nobody has raised and the collection exists, some starter has
passed the first part and built all before its next. Actions are sorted by what they
do to their run (move on, take a verdict, store, close the session) so that each kind
has one lemma.

### Access

`AccessProofs` proves, for every set of users, requests and endpoints and all
lives of tokens and cookies:

- `AccessInvariant`: `Spec => []AccessInv`;
- `RevocationIsFinal` (`RevocationHolds`), `ChargesAreRight` (`ChargedAsActing`) and
  `CookiesBelongTogether` (`JarIsWhole`), which follow from it;
- `AccessTypes` (`TypeOK`), with `Shapes`, the types nothing else depends on.

Assumption: `AccessAssumption` (types of the constants, and that an access token
does not outlive the refresh token, as the defaults of `core/config.py` have it).
`RevocationHolds` compares a right that was granted with what stood when the request
was sent, and the server reads the database later. `AccessInv` therefore adds
`StandingOK`: rights only shrink, so what a request under way stood on covers what
is stored by the time it is served (lemma `StandingSuffices`). `JarOK` adds the lives
of the three cookies to their kinds, because `JarIsWhole` would break if the refresh
or the CSRF cookie expired first, and `AnswerOK` says that a response not yet
received already carries tokens that belong together.

### Knowledge and TextStages

`KnowledgeProofs` proves, for every set of pages of any size, every size of chunks,
overlap, least size, batch and hash, each outcome of a model's cleaning, in whatever
order embeddings come back, and for every set of questions:

- `IngestionHolds`: `Spec => []IngestionInv`;
- `SplittingKeepsTheText` (`TextSurvives`) and `EachPointIsItsOwn`
  (`PointsAreTheirs`), which follow from it;
- `RepliesKept` (`RepliesAreKept`), from a small invariant on the fields of a turn.

Assumptions: `KnowledgeAssumption`, `TextAssumption` and `DetectionAssumption` (types
of the constants; chunks and batches are not of size 0).

`IngestionInv` says of each stage what it made of the result of the stage before it:
the text is a sequence of tokens without a blank at either end (`TextIsTyped`), the
chunks are those of the text (`ChunksAreOfTheText`), what is embedded is a prefix of
the unique chunks, each with the vector of its own text (`EmbeddedAreUnique`), and the
store is what is valid of it (`StoreIsEmbedded`). What remains is what the functions of
the stages compute:

- Each loop of the code is a recursive function, and `_recursive_split` one over the
  number of separators left. `LoopExists` shows that such a function exists, and `UpTo` replaces the induction theorem, which the provers cannot
  instantiate: a set of numbers that holds 0 and with each number below a bound the
  next holds all up to the bound.
- The words and fences of a text are the text `Without` its blanks and marks.
  `WithoutConcat` and `WithoutConcats` say that this commutes with concatenation.
  `StripInk` and `SplitIs` (the parts of `split`, joined by separators, are the text)
  make the rest of the splitter a matter of what is put where: `SegmentsAre`, `GatherIs`
  (the invariant of the buffer: emitted chunks, buffer and what is to come are the
  text, and both fit), `HardSplitIs`, `RecursiveSplitIs`, `PiecesAre`, `OverlapIs` and `ChunksAre`.
- `DeduplicateIs` is the invariant of the greedy loop: what is kept comes in the order
  of the chunks, no kept chunk is near an earlier kept one, and a chunk that was dropped
  is near a kept one before it. With `index` increasing this is the equivalence of
  `PointsAreTheirs`.
- `SortedIs`: the orders of a batch are permutations (`OrdersAre`), a strictly
  increasing map of 1 .. n to itself is the identity (`IncreasingIsIdentity`), so
  sorting by index undoes any order in which the items come.

The proofs say nothing of the sense in which a text is similar to another: `Near` is
whatever `HashFeature` makes it.

### Only model-checked

- Liveness: `RequestsEnd` of `IngestionJobs` and of `ChatTurns`, `CallsEnd`, `RunsEnd`
  and `RunsSettle`. `ENABLED` and fairness are outside what the installed provers
  handle.
- `CodeSurvives`. Besides the pages with fences, which its formula leaves out, it needs
  pages that hold no placeholder of `rule_clean` (the code's `\x00CODE0\x00` does not
  occur in a page, and the model has six of them). TLC checks it on the pages of the
  run; without either of its exceptions it fails there.
- `ModulesAreRecognised` depends on the names in the three packs and on the wording of
  a question; the run asks for every name of every module. It is a statement about
  that data.
- `EvidenceReachesTheModel` depends on limits (an adaptive limit of at least 3, five
  tags per chunk) that make it fail for other constants; it is checked for those of the
  run.
- The negations that the four runs with violations show need an execution, which TLC
  gives.

## Plan

Done: the modules above, and theorems on every module with state. What is left:

1. `Detection` over any catalogue instead of the three packs: which properties of the
   names make `ModulesAreRecognised` true.
2. Timestamps of messages and of the sorted set, the two hazards without a property.

## Not modelled

- `IngestionPipeline.ingest_urls` and `BM25Retriever`: only tests call them, so the
  concurrency of one crawler's cache and semaphore never happens in the program.
- `DELETE /documents/{id}`: it looks up a table that nothing fills.
- The detected role of a user, keywords, languages and metrics: reported, never read.
- The cross-encoder: `Answering` takes any order of a reranker.
- Input screening (`security/sanitize.py`, `prompt_injection.py`): patterns on single
  texts without state. Signatures and password hashes are taken to be sound.
- Migrations, configuration, logging, metrics, the manifests and, but for the cookies
  and headers of its requests, the front end: no state of their own, or run once by an
  operator.
- The order of messages by timestamps, and equal timestamps in the rate limiter's
  sorted set: listed as hazards without a property.
