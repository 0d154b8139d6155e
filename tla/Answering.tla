------------------------------- MODULE Answering -------------------------------
(***************************************************************************)
(* One question, from its embedding to its reviewed answer: the hybrid     *)
(* retriever (rag/), the answering graph (agents/) and the calls of        *)
(* providers with their retries (llm/), for many questions at once.        *)
(*                                                                         *)
(* POST /chat runs the graph, which is compiled once and shared: its nodes *)
(* find the context of their question in a ContextVar.  POST /chat/stream  *)
(* and POST /search call the retriever themselves.                         *)
(*                                                                         *)
(* Text is abstracted to what numbers mean: an answer is the set of        *)
(* bracketed numbers in it, a passage is its chunk.  Detection and routing *)
(* are functions of the question alone; they choose the specialist and the *)
(* domain filter, both left open here.                                     *)
(***************************************************************************)
EXTENDS Naturals, FiniteSets, SequencesExt

CONSTANTS
    Questions,         \* questions in flight
    Tenants,
    Nobody,            \* no tenant: the context of a task outside run_answer
    Chunks,            \* indexed chunks
    Asker,             \* Asker[q]: the tenant of the user who asks q
    Owner,             \* Owner[c]: the tenant that indexed chunk c
    Document,          \* Document[c]: the document chunk c is a part of
    VectorTopK,        \* vector_top_k
    LexicalTopK,       \* lexical_top_k
    RrfK,              \* rrf_k
    RerankCandidates,  \* rerank_candidates
    FinalTopK,         \* the largest final_top_k a request or adaptive_top_k asks for
    MaxRetries,        \* attempts of a provider call
    MaxNumber          \* bound: the largest number an answer puts in brackets

ASSUME AnsweringAssumption ==
    /\ Nobody \notin Tenants
    /\ Asker \in [Questions -> Tenants]
    /\ Owner \in [Chunks -> Tenants]
    /\ VectorTopK \in Nat /\ LexicalTopK \in Nat /\ RrfK \in Nat
    /\ RerankCandidates \in Nat /\ FinalTopK \in Nat \ {0}
    /\ MaxRetries \in Nat \ {0} /\ MaxNumber \in Nat

VARIABLES
    active,  \* active[q]: what _active_ctx holds in the task of q, as its tenant
    run      \* run[q]: how far q is, and what its code has in hand

vars == <<active, run>>

Modes == {"chat", "stream", "search"}

Nodes == {"idle", "embed", "vector", "lexical", "rerank", "generate", "review", "done", "failed"}

Run == [mode : Modes, node : Nodes, tries : 0 .. MaxRetries - 1, vector : Seq(Chunks),
        lexical : Seq(Chunks), fused : SUBSET Chunks, chunks : Seq(Chunks),
        cited : SUBSET (0 .. MaxNumber), qa : [grounded : BOOLEAN, valid : BOOLEAN]]

TypeOK ==
    /\ active \in [Questions -> Tenants \cup {Nobody}]
    /\ run \in [Questions -> Run]

Fresh ==
    [mode |-> "chat", node |-> "idle", tries |-> 0, vector |-> <<>>, lexical |-> <<>>,
     fused |-> {}, chunks |-> <<>>, cited |-> {}, qa |-> [grounded |-> FALSE, valid |-> FALSE]]

Init ==
    /\ active = [q \in Questions |-> Nobody]
    /\ run = [q \in Questions |-> Fresh]

-----------------------------------------------------------------------------
(* Fusion and citations *)

Found(vector, lexical) == ToSet(vector) \cup ToSet(lexical)

\* What a hit list adds to a score: 1 / (k + rank), a fraction.
Share(list, c) ==
    IF \E i \in DOMAIN list : list[i] = c
    THEN <<1, RrfK + (CHOOSE i \in DOMAIN list : list[i] = c)>>
    ELSE <<0, 1>>

Score(vector, lexical, c) ==
    LET a == Share(vector, c)
        b == Share(lexical, c)
    IN  <<a[1] * b[2] + b[1] * a[2], a[2] * b[2]>>

\* Mutant of Higher: the sort has lost its reverse=True.
HigherLast(x, y) == x[1] * y[2] < y[1] * x[2]

Higher(x, y) == x[1] * y[2] > y[1] * x[2]

\* The sort is stable: of equal scores the chunk that was seen first leads.
Leads(vector, lexical, c, d) ==
    LET x == Score(vector, lexical, c)
        y == Score(vector, lexical, d)
        seen == vector \o lexical
    IN  \/ Higher(x, y)
        \/ /\ ~Higher(y, x)
           /\ \E i \in DOMAIN seen : seen[i] = c /\ \A j \in 1 .. i : seen[j] # d

\* reciprocal_rank_fusion: what the searches found, sorted by falling score and
\* cut to its first RerankCandidates.  The order inside the cut is lost in the
\* reranker, which sorts anew.
Candidates(vector, lexical) ==
    LET found == Found(vector, lexical)
    IN  {c \in found :
            Cardinality({d \in found \ {c} : Leads(vector, lexical, d, c)}) < RerankCandidates}

AddCitation(citations, c) ==
    IF \E i \in DOMAIN citations : Document[citations[i]] = Document[c]
    THEN citations
    ELSE Append(citations, c)

\* build_citations: the chunk that introduces each document.
Citations(chunks) ==
    LET seen[n \in 0 .. Len(chunks)] ==
            IF n = 0 THEN <<>> ELSE AddCitation(seen[n - 1], chunks[n])
    IN  seen[Len(chunks)]

\* format_context: the number in the header of passage i.
Number(chunks, i) ==
    LET citations == Citations(chunks)
    IN  CHOOSE n \in DOMAIN citations : Document[citations[n]] = Document[chunks[i]]

-----------------------------------------------------------------------------
(* Steps of a question *)

At(q, node) == run[q].node = node

Update(q, r) == run' = [run EXCEPT ![q] = r]

\* run_answer takes its context back in a finally block.
Leave(q) == active' = [active EXCEPT ![q] = Nobody]

\* Mutant of Begin: the context is a global of the module, not of the task.
BeginGlobal(q, mode) ==
    /\ At(q, "idle")
    /\ active' = IF mode = "chat" THEN [p \in Questions |-> Asker[q]] ELSE active
    /\ Update(q, [run[q] EXCEPT !.mode = mode, !.node = "embed"])

Begin(q, mode) ==
    /\ At(q, "idle")
    /\ active' = IF mode = "chat" THEN [active EXCEPT ![q] = Asker[q]] ELSE active
    /\ Update(q, [run[q] EXCEPT !.mode = mode, !.node = "embed"])

\* The tenant the retriever at hand is bound to.
Context(q) == IF run[q].mode = "chat" THEN active[q] ELSE Asker[q]

Embed(q) ==
    /\ At(q, "embed")
    /\ Update(q, [run[q] EXCEPT !.node = "vector", !.tries = 0])
    /\ UNCHANGED active

\* What a store returns for some query, domain filter and limit: distinct
\* chunks of the tenant, in an order of its own.
Hits(tenant, limit) ==
    {hits \in SeqOf({c \in Chunks : Owner[c] = tenant}, limit) : IsInjective(hits)}

VectorSearch(q) ==
    /\ At(q, "vector")
    /\ \E hits \in Hits(Context(q), VectorTopK) :
          Update(q, [run[q] EXCEPT !.node = "lexical", !.vector = hits])
    /\ UNCHANGED active

AfterRetrieval(q) == IF run[q].mode = "search" THEN "done" ELSE "generate"

\* The second search; its answer is fused at once with that of the first.
LexicalSearch(q) ==
    /\ At(q, "lexical")
    /\ \E hits \in Hits(Context(q), LexicalTopK) :
          LET fused == Candidates(run[q].vector, hits)
          IN  Update(q, [run[q] EXCEPT !.node = IF fused = {} THEN AfterRetrieval(q) ELSE "rerank",
                                       !.lexical = hits, !.fused = fused])
    /\ UNCHANGED active

\* The best candidates in the reranker's order; the hit lists go out of scope.
Rerank(q) ==
    /\ At(q, "rerank")
    /\ \E k \in 1 .. FinalTopK : \E chunks \in SeqOf(run[q].fused, k) :
          /\ IsInjective(chunks)
          /\ Len(chunks) = k \/ ToSet(chunks) = run[q].fused
          /\ Update(q, [run[q] EXCEPT !.node = AfterRetrieval(q), !.vector = <<>>,
                                      !.lexical = <<>>, !.fused = {}, !.chunks = chunks])
    /\ UNCHANGED active

\* The specialist, or the streamed best-practice answer: the model may cite
\* anything.  Only the graph goes on to a review.
Generate(q) ==
    /\ At(q, "generate")
    /\ \E cited \in SUBSET (0 .. MaxNumber) :
          Update(q, [run[q] EXCEPT !.node = IF run[q].mode = "chat" THEN "review" ELSE "done",
                                   !.tries = 0, !.cited = cited])
    /\ UNCHANGED active

\* Mutant of CitationCheck: numbers up to the count of passages pass.
CitationCheckPassages(r) == r.cited \subseteq 1 .. Len(r.chunks)

CitationCheck(r) == r.cited \subseteq 1 .. Len(Citations(r.chunks))

Verdict(q, review) ==
    /\ Update(q, [run[q] EXCEPT !.node = "done", !.tries = 0, !.qa = review])
    /\ Leave(q)

\* No context: the verdict is given without asking the model.
ReviewUngrounded(q) ==
    /\ At(q, "review") /\ run[q].chunks = <<>>
    /\ Verdict(q, [grounded |-> FALSE, valid |-> CitationCheck(run[q])])

\* The model returned an object: its claims stand (grounded, citations_valid
\* unless it says false), but for citations that the check found out of range.
ReviewByModel(q) ==
    /\ At(q, "review") /\ run[q].chunks # <<>>
    /\ \E grounded, valid \in BOOLEAN :
          Verdict(q, [grounded |-> grounded, valid |-> valid /\ CitationCheck(run[q])])

\* The review could not be had, or could not be parsed.
ReviewByCheck(q) ==
    /\ At(q, "review") /\ run[q].chunks # <<>>
    /\ Verdict(q, [grounded |-> TRUE, valid |-> CitationCheck(run[q])])

\* Streaming asks once; a review without context does not ask.
Asking(q) ==
    \/ At(q, "embed")
    \/ At(q, "generate") /\ run[q].mode = "chat"
    \/ At(q, "review") /\ run[q].chunks # <<>>

\* Mutant of Retry: attempts are counted from zero again and again.
RetryForever(q) ==
    /\ Asking(q)
    /\ Update(q, [run[q] EXCEPT !.tries = (@ + 1) % MaxRetries])
    /\ UNCHANGED active

\* An attempt failed with an error worth another one (tenacity, reraise).
Retry(q) ==
    /\ Asking(q)
    /\ run[q].tries + 1 < MaxRetries
    /\ Update(q, [run[q] EXCEPT !.tries = @ + 1])
    /\ UNCHANGED active

\* The exception ends the question and takes along what its code had in hand.
\* (A stream has sent its citations by the time its generation fails.)
Fails(q) ==
    /\ Update(q, [Fresh EXCEPT !.mode = run[q].mode, !.node = "failed"])
    /\ Leave(q)

\* Mutant of Abort: the review's errors are not caught.
AbortAnywhere(q) ==
    /\ run[q].node \notin {"idle", "done", "failed"}
    /\ Fails(q)

\* ProviderError, RetrievalError, a database error, a reranker without its
\* model, a specialist that cannot render what it parsed.
Abort(q) ==
    /\ run[q].node \in {"embed", "vector", "lexical", "rerank", "generate"}
    /\ Fails(q)

Step(q) ==
    \/ Embed(q) \/ VectorSearch(q) \/ LexicalSearch(q) \/ Rerank(q) \/ Generate(q)
    \/ ReviewUngrounded(q) \/ ReviewByModel(q) \/ ReviewByCheck(q)
    \/ Retry(q) \/ Abort(q)

Next ==
    \E q \in Questions :
        \/ \E mode \in Modes : Begin(q, mode)
        \/ Step(q)

Spec == Init /\ [][Next]_vars

\* The event loop resumes every question; each call ends in an answer, an error
\* or a timeout.
FairSpec == Spec /\ \A q \in Questions : WF_vars(Step(q))

-----------------------------------------------------------------------------
(* Properties *)

Retrieved(r) == Found(r.vector, r.lexical) \cup r.fused \cup ToSet(r.chunks)

\* A tenant is only ever shown its own passages, although the questions of all
\* tenants run through one compiled graph.
PassagesAreTheAskers ==
    \A q \in Questions : \A c \in Retrieved(run[q]) : Owner[c] = Asker[q]

\* Each search that found d ranks c before it.
Beats(list, c, d) ==
    \A j \in DOMAIN list : list[j] = d => \E i \in 1 .. j - 1 : list[i] = c

\* Fusion fills its cut, and never drops a chunk for one that every search
\* ranked behind it.
AgreementSurvives ==
    \A q \in Questions :
        LET r == run[q]
        IN  At(q, "rerank") =>
              /\ Cardinality(r.fused) <= RerankCandidates
              /\ \A c \in Found(r.vector, r.lexical) \ r.fused :
                    /\ Cardinality(r.fused) = RerankCandidates
                    /\ \A d \in r.fused : ~(Beats(r.vector, c, d) /\ Beats(r.lexical, c, d))

Reviewed(q) == run[q].mode = "chat" /\ At(q, "done")

\* A number stands for one document throughout the prompt, and a review that
\* lets the citations of an answer pass has found each on a passage the model
\* was shown.
CitationsResolve ==
    \A q \in Questions :
        LET r == run[q]
        IN  /\ \A i, j \in DOMAIN r.chunks :
                  Number(r.chunks, i) = Number(r.chunks, j)
                      <=> Document[r.chunks[i]] = Document[r.chunks[j]]
            /\ Reviewed(q) /\ r.qa.valid =>
                  r.cited \subseteq {Number(r.chunks, i) : i \in DOMAIN r.chunks}

\* An answer nothing was retrieved for is never called grounded.
UngroundedIsSaid ==
    \A q \in Questions :
        Reviewed(q) /\ run[q].chunks = <<>> => ~run[q].qa.grounded

\* The review annotates a drafted answer and never loses it.
ReviewNeverFails ==
    [][\A q \in Questions :
          At(q, "review") => /\ run'[q].node \in {"review", "done"}
                             /\ run'[q].cited = run[q].cited]_vars

Underway(r) == r.node \notin {"idle", "done", "failed"}

\* What the context of the task, the passages in hand and the verdict owe each
\* other at every step; the inductive invariant behind the safety properties.
RunInv(q) ==
    /\ run[q].mode = "chat" /\ Underway(run[q]) => active[q] = Asker[q]
    /\ \A c \in Retrieved(run[q]) : Owner[c] = Asker[q]
    /\ Reviewed(q) /\ run[q].chunks = <<>> => ~run[q].qa.grounded

AnsweringInv == TypeOK /\ \A q \in Questions : RunInv(q)

\* Every question that began ends, however often providers fail.
RunsEnd ==
    \A q \in Questions : ~At(q, "idle") ~> run[q].node \in {"done", "failed"}

=============================================================================
