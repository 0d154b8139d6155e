---------------------------- MODULE AnsweringProofs ----------------------------
(***************************************************************************)
(* Theorems about Answering, for every set of questions, tenants and       *)
(* chunks, all limits and any number of attempts: tenants are kept apart,  *)
(* reviews are true and change nothing, fusion keeps what the searches     *)
(* agree on, and citations name passages.  What the loop of citations      *)
(* builds is shown from the least number of passages it could fail at.     *)
(***************************************************************************)
EXTENDS Answering, FiniteSetTheorems, WellFoundedInduction, TLAPS

USE AnsweringAssumption

-----------------------------------------------------------------------------
(* What the searches and the reranker can return *)

\* SeqOf returns sequences.
LEMMA SeqOfIsSeq ==
    ASSUME NEW S, NEW n \in Nat, NEW s \in SeqOf(S, n)
    PROVE  s \in Seq(S) /\ ToSet(s) \subseteq S
<1>1. PICK m \in 0 .. n : s \in [1 .. m -> S]
  BY DEF SeqOf
<1>2. m \in Nat
  BY <1>1
<1>3. s \in Seq(S)
  BY <1>1, <1>2
<1>4. QED
  BY <1>1, <1>3 DEF ToSet

\* A store that filters by tenant returns chunks of that tenant.
LEMMA HitsAreOwned ==
    ASSUME NEW t, NEW n \in Nat, NEW hits \in Hits(t, n)
    PROVE  hits \in Seq(Chunks) /\ \A c \in ToSet(hits) : c \in Chunks /\ Owner[c] = t
<1>1. hits \in SeqOf({c \in Chunks : Owner[c] = t}, n)
  BY DEF Hits
<1>2. /\ hits \in Seq({c \in Chunks : Owner[c] = t})
      /\ ToSet(hits) \subseteq {c \in Chunks : Owner[c] = t}
  BY <1>1, SeqOfIsSeq
<1>3. QED
  BY <1>2

-----------------------------------------------------------------------------
(* Steps *)

\* What a step of question q owes the invariant.
LEMMA UpdateKeeps ==
    ASSUME AnsweringInv, NEW q \in Questions, NEW r \in Run, Update(q, r),
           active' \in [Questions -> Tenants \cup {Nobody}],
           \A p \in Questions \ {q} : active'[p] = active[p],
           r.mode = "chat" /\ Underway(r) => active'[q] = Asker[q],
           \A c \in Retrieved(r) : Owner[c] = Asker[q],
           r.mode = "chat" /\ r.node = "done" /\ r.chunks = <<>> => ~r.qa.grounded
    PROVE  AnsweringInv'
<1>1. TypeOK'
  BY DEF AnsweringInv, TypeOK, Update
<1>2. run'[q] = r /\ \A p \in Questions \ {q} : run'[p] = run[p]
  BY DEF AnsweringInv, TypeOK, Update
<1>3. RunInv(q)'
  BY <1>2 DEF RunInv, Reviewed, At
<1>4. ASSUME NEW p \in Questions \ {q} PROVE RunInv(p)'
  BY <1>2, <1>4 DEF AnsweringInv, RunInv, Reviewed, At
<1>5. QED
  BY <1>1, <1>3, <1>4 DEF AnsweringInv

\* The graph sets the ContextVar before it works.
LEMMA BeginKeeps ==
    ASSUME AnsweringInv, NEW q \in Questions, NEW mode \in Modes, Begin(q, mode)
    PROVE  AnsweringInv'
<1> DEFINE r == [run[q] EXCEPT !.mode = mode, !.node = "embed"]
<1>1. run[q] \in Run
  BY DEF AnsweringInv, TypeOK
<1>2. r \in Run /\ r.mode = mode /\ r.node = "embed" /\ Retrieved(r) = Retrieved(run[q])
  BY <1>1 DEF Run, Nodes, Modes, Retrieved
<1>3. active' \in [Questions -> Tenants \cup {Nobody}]
  BY DEF Begin, AnsweringInv, TypeOK
<1>4. \A p \in Questions \ {q} : active'[p] = active[p]
  BY DEF Begin, AnsweringInv, TypeOK
<1>5. mode = "chat" => active'[q] = Asker[q]
  BY DEF Begin, AnsweringInv, TypeOK
<1>6. \A c \in Retrieved(r) : Owner[c] = Asker[q]
  BY <1>2 DEF AnsweringInv, RunInv
<1>7. Update(q, r)
  BY DEF Begin
<1>8. QED
  BY <1>2, <1>3, <1>4, <1>5, <1>6, <1>7, UpdateKeeps

\* A step that keeps mode, context and passages, and ends no review.
LEMMA PlainKeeps ==
    ASSUME AnsweringInv, NEW q \in Questions, NEW r \in Run, Update(q, r), UNCHANGED active,
           Underway(run[q]), r.mode = run[q].mode, \A c \in Retrieved(r) : Owner[c] = Asker[q],
           r.mode = "chat" => r.node # "done"
    PROVE  AnsweringInv'
<1>1. r.mode = "chat" => active'[q] = Asker[q]
  BY DEF AnsweringInv, RunInv
<1>2. active' \in [Questions -> Tenants \cup {Nobody}]
  BY DEF AnsweringInv, TypeOK
<1>3. QED
  BY <1>1, <1>2, UpdateKeeps

\* Embedding leaves the context and the passages alone.
LEMMA EmbedKeeps ==
    ASSUME AnsweringInv, NEW q \in Questions, Embed(q)
    PROVE  AnsweringInv'
<1> DEFINE r == [run[q] EXCEPT !.node = "vector", !.tries = 0]
<1>1. run[q] \in Run /\ Underway(run[q])
  BY DEF AnsweringInv, TypeOK, Embed, At, Underway
<1>2. 0 \in 0 .. MaxRetries - 1
  OBVIOUS
<1>3. r \in Run
  BY <1>1, <1>2 DEF Run, Nodes
<1>4. r.mode = run[q].mode /\ r.node = "vector" /\ Retrieved(r) = Retrieved(run[q])
  BY <1>1 DEF Run, Nodes, Retrieved
<1>5. \A c \in Retrieved(r) : Owner[c] = Asker[q]
  BY <1>4 DEF AnsweringInv, RunInv
<1>6. Update(q, r) /\ UNCHANGED active
  BY DEF Embed
<1>7. QED
  BY <1>1, <1>3, <1>4, <1>5, <1>6, PlainKeeps

\* The retriever a question uses is bound to its asker's tenant.
LEMMA ContextIsAskers ==
    ASSUME AnsweringInv, NEW q \in Questions, Underway(run[q])
    PROVE  Context(q) = Asker[q]
BY DEF Context, AnsweringInv, RunInv

\* The first search asks for the tenant of the asker.
LEMMA VectorSearchKeeps ==
    ASSUME AnsweringInv, NEW q \in Questions, VectorSearch(q)
    PROVE  AnsweringInv'
<1>1. run[q] \in Run /\ Underway(run[q])
  BY DEF AnsweringInv, TypeOK, VectorSearch, At, Underway
<1>2. PICK hits \in Hits(Asker[q], VectorTopK) :
         Update(q, [run[q] EXCEPT !.node = "lexical", !.vector = hits])
  BY <1>1, ContextIsAskers DEF VectorSearch
<1> DEFINE r == [run[q] EXCEPT !.node = "lexical", !.vector = hits]
<1>3. hits \in Seq(Chunks) /\ \A c \in ToSet(hits) : Owner[c] = Asker[q]
  BY <1>2, HitsAreOwned
<1>4. r \in Run /\ r.mode = run[q].mode /\ r.node = "lexical"
  BY <1>1, <1>3 DEF Run, Nodes
<1>5. Retrieved(r) \subseteq Retrieved(run[q]) \cup ToSet(hits)
  BY <1>1 DEF Retrieved, Found, Run
<1>6. \A c \in Retrieved(r) : Owner[c] = Asker[q]
  BY <1>3, <1>5 DEF AnsweringInv, RunInv
<1>7. QED
  BY <1>1, <1>2, <1>4, <1>6, PlainKeeps DEF VectorSearch

\* So does the second, and fusion adds nothing to what the two found.
LEMMA LexicalSearchKeeps ==
    ASSUME AnsweringInv, NEW q \in Questions, LexicalSearch(q)
    PROVE  AnsweringInv'
<1>1. run[q] \in Run /\ Underway(run[q])
  BY DEF AnsweringInv, TypeOK, LexicalSearch, At, Underway
<1> DEFINE Fused(hits) == Candidates(run[q].vector, hits)
           r(hits) ==
              [run[q] EXCEPT !.node = IF Fused(hits) = {} THEN AfterRetrieval(q) ELSE "rerank",
                             !.lexical = hits, !.fused = Fused(hits)]
<1>2. PICK hits \in Hits(Asker[q], LexicalTopK) : Update(q, r(hits))
  BY <1>1, ContextIsAskers DEF LexicalSearch
<1>3. hits \in Seq(Chunks) /\ \A c \in ToSet(hits) : c \in Chunks /\ Owner[c] = Asker[q]
  BY <1>2, HitsAreOwned
<1>4. Fused(hits) \subseteq Found(run[q].vector, hits)
  BY DEF Candidates
<1>5. Found(run[q].vector, hits) \subseteq ToSet(run[q].vector) \cup ToSet(hits)
  BY DEF Found
<1>6. run[q].vector \in Seq(Chunks)
  BY <1>1 DEF Run
<1>7. ToSet(run[q].vector) \subseteq Chunks
  BY <1>6 DEF ToSet
<1>8. Fused(hits) \in SUBSET Chunks
  BY <1>3, <1>4, <1>5, <1>7
<1>9. /\ AfterRetrieval(q) \in {"done", "generate"}
      /\ run[q].mode = "chat" => AfterRetrieval(q) = "generate"
  BY DEF AfterRetrieval
<1> HIDE DEF Fused
<1>10. /\ r(hits) \in Run /\ r(hits).mode = run[q].mode
       /\ r(hits).mode = "chat" => r(hits).node # "done"
  BY <1>1, <1>3, <1>8, <1>9 DEF Run, Nodes
<1>11. Retrieved(r(hits)) \subseteq Retrieved(run[q]) \cup ToSet(hits)
  <2>1. /\ r(hits).vector = run[q].vector /\ r(hits).lexical = hits
        /\ r(hits).fused = Fused(hits) /\ r(hits).chunks = run[q].chunks
    BY <1>1 DEF Run
  <2>2. QED
    BY <2>1, <1>4, <1>5 DEF Retrieved, Found
<1>12. \A c \in Retrieved(r(hits)) : Owner[c] = Asker[q]
  BY <1>3, <1>11 DEF AnsweringInv, RunInv
<1>13. UNCHANGED active
  BY DEF LexicalSearch
<1> HIDE DEF r
<1>14. QED
  BY <1>1, <1>2, <1>10, <1>12, <1>13, PlainKeeps

\* The reranker only orders and cuts what fusion gave it.
LEMMA RerankKeeps ==
    ASSUME AnsweringInv, NEW q \in Questions, Rerank(q)
    PROVE  AnsweringInv'
<1>1. run[q] \in Run /\ Underway(run[q])
  BY DEF AnsweringInv, TypeOK, Rerank, At, Underway
<1> DEFINE r(chunks) == [run[q] EXCEPT !.node = AfterRetrieval(q), !.vector = <<>>,
                                       !.lexical = <<>>, !.fused = {}, !.chunks = chunks]
<1>2. PICK k \in 1 .. FinalTopK : \E chunks \in SeqOf(run[q].fused, k) : Update(q, r(chunks))
  BY DEF Rerank
<1>3. PICK chunks \in SeqOf(run[q].fused, k) : Update(q, r(chunks))
  BY <1>2
<1>4. chunks \in Seq(run[q].fused) /\ ToSet(chunks) \subseteq run[q].fused
  BY <1>2, <1>3, SeqOfIsSeq
<1>5. run[q].fused \subseteq Chunks
  BY <1>1 DEF Run
<1>6. chunks \in Seq(Chunks)
  BY <1>4, <1>5
<1>7. /\ AfterRetrieval(q) \in {"done", "generate"}
      /\ run[q].mode = "chat" => AfterRetrieval(q) = "generate"
  BY DEF AfterRetrieval
<1>8. r(chunks) \in Run
  <2>1. AfterRetrieval(q) \in Nodes
    BY <1>7 DEF Nodes
  <2>2. <<>> \in Seq(Chunks) /\ {} \in SUBSET Chunks
    OBVIOUS
  <2>3. QED
    BY <1>1, <1>6, <2>1, <2>2, ZenonT(30) DEF Run
<1>9. r(chunks).mode = run[q].mode /\ (r(chunks).mode = "chat" => r(chunks).node # "done")
  BY <1>1, <1>7 DEF Run
<1>10. Retrieved(r(chunks)) \subseteq Retrieved(run[q])
  <2>1. /\ r(chunks).vector = <<>> /\ r(chunks).lexical = <<>>
        /\ r(chunks).fused = {} /\ r(chunks).chunks = chunks
    BY <1>1 DEF Run
  <2>2. ToSet(<<>>) = {}
    BY DEF ToSet
  <2>3. QED
    BY <2>1, <2>2, <1>4 DEF Retrieved, Found
<1>11. \A c \in Retrieved(r(chunks)) : Owner[c] = Asker[q]
  BY <1>10 DEF AnsweringInv, RunInv
<1>12. UNCHANGED active
  BY DEF Rerank
<1> HIDE DEF r
<1>13. QED
  BY <1>1, <1>3, <1>8, <1>9, <1>11, <1>12, PlainKeeps

\* A specialist's answer leaves the passages alone.
LEMMA GenerateKeeps ==
    ASSUME AnsweringInv, NEW q \in Questions, Generate(q)
    PROVE  AnsweringInv'
<1>1. run[q] \in Run /\ Underway(run[q])
  BY DEF AnsweringInv, TypeOK, Generate, At, Underway
<1> DEFINE node == IF run[q].mode = "chat" THEN "review" ELSE "done"
           r(cited) == [run[q] EXCEPT !.node = node, !.tries = 0, !.cited = cited]
<1>2. PICK cited \in SUBSET (0 .. MaxNumber) : Update(q, r(cited))
  BY DEF Generate
<1>3. 0 \in 0 .. MaxRetries - 1
  OBVIOUS
<1>4. r(cited) \in Run
  BY <1>1, <1>3 DEF Run, Nodes
<1>5. r(cited).mode = run[q].mode /\ (r(cited).mode = "chat" => r(cited).node # "done")
  BY <1>1 DEF Run
<1>6. Retrieved(r(cited)) = Retrieved(run[q])
  BY <1>1 DEF Run, Retrieved
<1>7. \A c \in Retrieved(r(cited)) : Owner[c] = Asker[q]
  BY <1>6 DEF AnsweringInv, RunInv
<1>8. UNCHANGED active
  BY DEF Generate
<1> HIDE DEF r
<1>9. QED
  BY <1>1, <1>2, <1>4, <1>5, <1>7, <1>8, PlainKeeps

\* A verdict keeps the passages, and may call an answer grounded only if there
\* are any.
LEMMA VerdictKeeps ==
    ASSUME AnsweringInv, NEW q \in Questions, At(q, "review"),
           NEW review \in [grounded : BOOLEAN, valid : BOOLEAN], Verdict(q, review),
           run[q].chunks = <<>> => ~review.grounded
    PROVE  AnsweringInv'
<1> DEFINE r == [run[q] EXCEPT !.node = "done", !.tries = 0, !.qa = review]
<1>1. run[q] \in Run
  BY DEF AnsweringInv, TypeOK
<1>2. 0 \in 0 .. MaxRetries - 1
  OBVIOUS
<1>3. r \in Run
  BY <1>1, <1>2 DEF Run, Nodes
<1>4. r.node = "done" /\ r.qa = review /\ r.chunks = run[q].chunks
  BY <1>1 DEF Run
<1>5. Retrieved(r) = Retrieved(run[q])
  BY <1>1 DEF Run, Retrieved
<1>6. \A c \in Retrieved(r) : Owner[c] = Asker[q]
  BY <1>5 DEF AnsweringInv, RunInv
<1>7. Update(q, r)
  BY DEF Verdict
<1>8. /\ active' \in [Questions -> Tenants \cup {Nobody}]
      /\ \A p \in Questions \ {q} : active'[p] = active[p]
  BY DEF Verdict, Leave, AnsweringInv, TypeOK
<1>9. ~Underway(r)
  BY <1>4 DEF Underway
<1> HIDE DEF r
<1>10. QED
  BY <1>3, <1>4, <1>6, <1>7, <1>8, <1>9, UpdateKeeps

\* Each of the three ways to a verdict; only the one without context is bound.
LEMMA ReviewKeeps ==
    ASSUME AnsweringInv, NEW q \in Questions,
           ReviewUngrounded(q) \/ ReviewByModel(q) \/ ReviewByCheck(q)
    PROVE  AnsweringInv'
<1>1. CitationCheck(run[q]) \in BOOLEAN
  BY DEF CitationCheck
<1>2. CASE ReviewUngrounded(q)
  <2> DEFINE review == [grounded |-> FALSE, valid |-> CitationCheck(run[q])]
  <2>1. review \in [grounded : BOOLEAN, valid : BOOLEAN] /\ ~review.grounded
    BY <1>1
  <2>2. At(q, "review") /\ Verdict(q, review)
    BY <1>2 DEF ReviewUngrounded
  <2> HIDE DEF review
  <2>3. QED
    BY <2>1, <2>2, VerdictKeeps
<1>3. CASE ReviewByModel(q)
  <2> DEFINE review(grounded, valid) ==
               [grounded |-> grounded, valid |-> valid /\ CitationCheck(run[q])]
  <2>1. PICK grounded \in BOOLEAN, valid \in BOOLEAN : Verdict(q, review(grounded, valid))
    BY <1>3 DEF ReviewByModel
  <2>2. review(grounded, valid) \in [grounded : BOOLEAN, valid : BOOLEAN]
    BY <1>1
  <2>3. At(q, "review") /\ run[q].chunks # <<>>
    BY <1>3 DEF ReviewByModel
  <2> HIDE DEF review
  <2>4. QED
    BY <2>1, <2>2, <2>3, VerdictKeeps
<1>4. CASE ReviewByCheck(q)
  <2> DEFINE review == [grounded |-> TRUE, valid |-> CitationCheck(run[q])]
  <2>1. review \in [grounded : BOOLEAN, valid : BOOLEAN]
    BY <1>1
  <2>2. At(q, "review") /\ run[q].chunks # <<>> /\ Verdict(q, review)
    BY <1>4 DEF ReviewByCheck
  <2> HIDE DEF review
  <2>3. QED
    BY <2>1, <2>2, VerdictKeeps
<1>5. QED
  BY <1>2, <1>3, <1>4

\* Another attempt is counted below max_retries.
LEMMA RetryKeeps ==
    ASSUME AnsweringInv, NEW q \in Questions, Retry(q)
    PROVE  AnsweringInv'
<1> DEFINE r == [run[q] EXCEPT !.tries = @ + 1]
<1>1. run[q] \in Run /\ Underway(run[q])
  BY DEF AnsweringInv, TypeOK, Retry, Asking, At, Underway
<1>2. run[q].tries + 1 \in 0 .. MaxRetries - 1
  <2>1. run[q].tries \in 0 .. MaxRetries - 1 /\ MaxRetries \in Nat
    BY <1>1 DEF Run
  <2>2. run[q].tries + 1 < MaxRetries
    BY DEF Retry
  <2> QED  BY <2>1, <2>2
<1>3. r \in Run
  <2>1. ASSUME NEW n \in 0 .. MaxRetries - 1 PROVE [run[q] EXCEPT !.tries = n] \in Run
    BY <1>1 DEF Run
  <2> QED  BY <1>2, <2>1
<1>4. r.mode = run[q].mode /\ r.node = run[q].node /\ Retrieved(r) = Retrieved(run[q])
  <2>1. /\ r.mode = run[q].mode /\ r.node = run[q].node /\ r.vector = run[q].vector
        /\ r.lexical = run[q].lexical /\ r.fused = run[q].fused /\ r.chunks = run[q].chunks
    BY <1>1 DEF Run
  <2> HIDE DEF r
  <2> QED  BY <2>1 DEF Retrieved
<1>5. \A c \in Retrieved(r) : Owner[c] = Asker[q]
  BY <1>4 DEF AnsweringInv, RunInv
<1>6. Update(q, r) /\ UNCHANGED active
  BY DEF Retry
<1>7. r.node # "done"
  BY <1>1, <1>4 DEF Underway
<1> HIDE DEF r
<1>8. QED
  BY <1>1, <1>3, <1>4, <1>5, <1>6, <1>7, PlainKeeps

\* The record of a question that holds nothing.
LEMMA FreshIsRun == Fresh \in Run /\ Retrieved(Fresh) = {}
<1>1. 0 \in 0 .. MaxRetries - 1
  OBVIOUS
<1>2. <<>> \in Seq(Chunks) /\ ToSet(<<>>) = {}
  BY DEF ToSet
<1>3. Fresh \in Run
  BY <1>1, <1>2 DEF Fresh, Run, Modes, Nodes
<1>4. QED
  BY <1>2, <1>3 DEF Fresh, Retrieved, Found

\* A failed question leaves nothing behind, not even its context.
LEMMA AbortKeeps ==
    ASSUME AnsweringInv, NEW q \in Questions, Abort(q)
    PROVE  AnsweringInv'
<1> DEFINE r == [Fresh EXCEPT !.mode = run[q].mode, !.node = "failed"]
<1>1. run[q] \in Run
  BY DEF AnsweringInv, TypeOK
<1>2. r \in Run /\ r.node = "failed" /\ Retrieved(r) = Retrieved(Fresh)
  BY <1>1, FreshIsRun DEF Run, Nodes, Retrieved
<1>3. Update(q, r)
  BY DEF Abort, Fails
<1>4. /\ active' \in [Questions -> Tenants \cup {Nobody}]
      /\ \A p \in Questions \ {q} : active'[p] = active[p]
  BY DEF Abort, Fails, Leave, AnsweringInv, TypeOK
<1>5. ~Underway(r)
  BY <1>2 DEF Underway
<1> HIDE DEF r
<1>6. QED
  BY <1>2, <1>3, <1>4, <1>5, FreshIsRun, UpdateKeeps

-----------------------------------------------------------------------------
(* Theorems *)

\* No question holds anything at first.
LEMMA InitEstablishes == Init => AnsweringInv
<1> SUFFICES ASSUME Init PROVE AnsweringInv
  OBVIOUS
<1>1. TypeOK
  BY FreshIsRun DEF Init, TypeOK
<1>2. ASSUME NEW q \in Questions PROVE RunInv(q)
  <2>1. run[q] = Fresh
    BY DEF Init
  <2>2. run[q].node = "idle"
    BY <2>1 DEF Fresh
  <2>3. QED
    BY <2>1, <2>2, FreshIsRun DEF RunInv, Underway, Reviewed, At
<1>3. QED
  BY <1>1, <1>2 DEF AnsweringInv

\* Every step of every question keeps the invariant.
LEMMA StepKeeps == AnsweringInv /\ [Next]_vars => AnsweringInv'
<1> SUFFICES ASSUME AnsweringInv, [Next]_vars PROVE AnsweringInv'
  OBVIOUS
<1>1. CASE UNCHANGED vars
  BY <1>1 DEF vars, AnsweringInv, TypeOK, RunInv, Reviewed, At
<1>2. ASSUME NEW q \in Questions, NEW mode \in Modes, Begin(q, mode) PROVE AnsweringInv'
  BY <1>2, BeginKeeps
<1>3. ASSUME NEW q \in Questions, Step(q) PROVE AnsweringInv'
  BY <1>3, EmbedKeeps, VectorSearchKeeps, LexicalSearchKeeps, RerankKeeps, GenerateKeeps,
     ReviewKeeps, RetryKeeps, AbortKeeps DEF Step
<1>4. QED
  BY <1>1, <1>2, <1>3 DEF Next

\* The inductive invariant: while the graph works on a question the ContextVar
\* of its task holds its asker's tenant, everything retrieved for it belongs to
\* that tenant, and a finished review told the truth about an empty context.
THEOREM AnsweringInvariant == Spec => []AnsweringInv
<1>1. Init => AnsweringInv
  BY InitEstablishes
<1>2. AnsweringInv /\ [Next]_vars => AnsweringInv'
  BY StepKeeps
<1>3. QED
  BY <1>1, <1>2, PTL DEF Spec

\* Every variable keeps its type.
THEOREM AnsweringTypes == Spec => []TypeOK
<1>1. AnsweringInv => TypeOK
  BY DEF AnsweringInv
<1>2. QED
  BY <1>1, AnsweringInvariant, PTL

\* Tenants never see each other's passages through the shared graph, however
\* many questions are interleaved and whichever of them fail.
THEOREM TenantsAreIsolated == Spec => []PassagesAreTheAskers
<1>1. AnsweringInv => PassagesAreTheAskers
  BY DEF AnsweringInv, RunInv, PassagesAreTheAskers
<1>2. QED
  BY <1>1, AnsweringInvariant, PTL

\* No review calls an answer grounded that nothing was retrieved for.
THEOREM NoFalseGrounding == Spec => []UngroundedIsSaid
<1>1. AnsweringInv => UngroundedIsSaid
  BY DEF AnsweringInv, RunInv, UngroundedIsSaid
<1>2. QED
  BY <1>1, AnsweringInvariant, PTL

-----------------------------------------------------------------------------
(* What a review may do to the answer it reviews *)

\* A step of a question updates the record of that question and of no other.
LEMMA StepsAreApart ==
    ASSUME AnsweringInv, NEW q \in Questions, NEW p \in Questions \ {q},
           Step(p) \/ \E mode \in Modes : Begin(p, mode)
    PROVE  run'[q] = run[q]
<1>1. run \in [Questions -> Run]
  BY DEF AnsweringInv, TypeOK
<1>2. \E r : Update(p, r)
  BY DEF Step, Begin, Embed, VectorSearch, LexicalSearch, Rerank, Generate, ReviewUngrounded,
         ReviewByModel, ReviewByCheck, Verdict, Retry, Abort, Fails
<1>3. QED
  BY <1>1, <1>2 DEF Update

\* What the review of a question changes of it.
LEMMA StepAtReview ==
    ASSUME AnsweringInv, NEW q \in Questions, At(q, "review"), Next
    PROVE  run'[q].node \in {"review", "done"} /\ run'[q].cited = run[q].cited
<1>1. run \in [Questions -> Run] /\ run[q].node = "review"
  BY DEF AnsweringInv, TypeOK, At
<1>2. PICK p \in Questions : Step(p) \/ \E mode \in Modes : Begin(p, mode)
  BY DEF Next
<1>3. CASE p # q
  BY <1>1, <1>2, <1>3, StepsAreApart
<1>4. CASE p = q
  <2>1. ReviewUngrounded(q) \/ ReviewByModel(q) \/ ReviewByCheck(q) \/ Retry(q)
    BY <1>1, <1>2, <1>4 DEF Step, Begin, Embed, VectorSearch, LexicalSearch, Rerank, Generate,
                            Abort, At
  <2>2. ASSUME NEW review, Verdict(q, review)
        PROVE  run'[q].node = "done" /\ run'[q].cited = run[q].cited
    <3>1. run'[q] = [run[q] EXCEPT !.node = "done", !.tries = 0, !.qa = review]
      BY <1>1, <2>2 DEF Verdict, Update
    <3>2. QED
      BY <1>1, <3>1 DEF Run
  <2>3. CASE Retry(q)
    <3>1. run'[q] = [run[q] EXCEPT !.tries = @ + 1]
      BY <1>1, <2>3 DEF Retry, Update
    <3>2. QED
      BY <1>1, <3>1 DEF Run
  <2>4. CASE ~Retry(q)
    <3>1. \E review : Verdict(q, review)
      BY <2>1, <2>4 DEF ReviewUngrounded, ReviewByModel, ReviewByCheck
    <3>2. QED
      BY <2>2, <3>1
  <2>5. QED
    BY <2>3, <2>4
<1>5. QED
  BY <1>3, <1>4

\* Whatever the reviewing model does, the drafted answer is returned as it was.
THEOREM DraftsSurviveReview == Spec => ReviewNeverFails
<1> DEFINE Kept == \A q \in Questions :
              At(q, "review") => /\ run'[q].node \in {"review", "done"}
                                 /\ run'[q].cited = run[q].cited
<1>1. AnsweringInv /\ [Next]_vars => [Kept]_vars
  BY StepAtReview
<1>2. QED
  BY <1>1, AnsweringInvariant, PTL DEF Spec, ReviewNeverFails

-----------------------------------------------------------------------------
(* Fractions, as scores are compared and added *)

\* A positive factor keeps an order.
LEMMA TimesMore ==
    ASSUME NEW a \in Nat, NEW b \in Nat, NEW c \in Nat, c > 0
    PROVE  /\ a * c \in Nat /\ b * c \in Nat
           /\ a * c > b * c <=> a > b
           /\ a * c >= b * c <=> a >= b
  OBVIOUS

\* Products of three, rearranged.
LEMMA Swap ==
    ASSUME NEW a \in Nat, NEW b \in Nat, NEW c \in Nat
    PROVE  /\ (a * b) * c = (a * c) * b
           /\ (a * b) * c = (b * c) * a
           /\ (a * b) * c = a * (b * c)
           /\ a * b = b * a
  OBVIOUS

\* Comparing quotients by cross-multiplication is transitive.
LEMMA TimesOrder ==
    ASSUME NEW x1 \in Nat, NEW x2 \in Nat, NEW y1 \in Nat, NEW y2 \in Nat,
           NEW z1 \in Nat, NEW z2 \in Nat, x2 > 0, y2 > 0, z2 > 0,
           x1 * y2 >= y1 * x2, y1 * z2 >= z1 * y2
    PROVE  /\ x1 * z2 >= z1 * x2
           /\ x1 * y2 > y1 * x2 \/ y1 * z2 > z1 * y2 => x1 * z2 > z1 * x2
<1>1. /\ x1 * y2 \in Nat /\ y1 * x2 \in Nat /\ y1 * z2 \in Nat /\ z1 * y2 \in Nat
      /\ x1 * z2 \in Nat /\ z1 * x2 \in Nat
  OBVIOUS
<1>2. /\ (x1 * y2) * z2 >= (y1 * x2) * z2
      /\ x1 * y2 > y1 * x2 => (x1 * y2) * z2 > (y1 * x2) * z2
  BY <1>1, TimesMore
<1>3. /\ (y1 * z2) * x2 >= (z1 * y2) * x2
      /\ y1 * z2 > z1 * y2 => (y1 * z2) * x2 > (z1 * y2) * x2
  BY <1>1, TimesMore
<1>4. /\ (y1 * x2) * z2 = (y1 * z2) * x2
      /\ (x1 * y2) * z2 = (x1 * z2) * y2
      /\ (z1 * y2) * x2 = (z1 * x2) * y2
  BY Swap
<1>5. (x1 * z2) * y2 >= (z1 * x2) * y2
  BY <1>1, <1>2, <1>3, <1>4
<1>6. x1 * y2 > y1 * x2 \/ y1 * z2 > z1 * y2 => (x1 * z2) * y2 > (z1 * x2) * y2
  BY <1>1, <1>2, <1>3, <1>4
<1>7. QED  BY <1>1, <1>5, <1>6, TimesMore

\* Scores are fractions, written as pairs.
IsFraction(x) == x \in Nat \X Nat /\ x[2] > 0

Plus(a, b) == <<a[1] * b[2] + b[1] * a[2], a[2] * b[2]>>

\* Higher compares fractions as a sort needs it: of three in falling order the
\* first is above the last if one step falls at all.
LEMMA HigherOrder ==
    ASSUME NEW x, NEW y, NEW z, IsFraction(x), IsFraction(y), IsFraction(z)
    PROVE  /\ ~Higher(x, x) /\ ~(Higher(x, y) /\ Higher(y, x))
           /\ ~Higher(y, x) /\ ~Higher(z, y) =>
                 ~Higher(z, x) /\ (Higher(x, y) \/ Higher(y, z) => Higher(x, z))
<1>1. /\ x[1] \in Nat /\ x[2] \in Nat /\ x[2] > 0 /\ y[1] \in Nat /\ y[2] \in Nat /\ y[2] > 0
      /\ z[1] \in Nat /\ z[2] \in Nat /\ z[2] > 0
  BY DEF IsFraction
<1>2. /\ x[1] * x[2] \in Nat /\ x[1] * y[2] \in Nat /\ y[1] * x[2] \in Nat /\ y[1] * z[2] \in Nat
      /\ z[1] * y[2] \in Nat /\ x[1] * z[2] \in Nat /\ z[1] * x[2] \in Nat
  BY <1>1
<1>3. ASSUME ~Higher(y, x), ~Higher(z, y)
      PROVE  ~Higher(z, x) /\ (Higher(x, y) \/ Higher(y, z) => Higher(x, z))
  <2>1. x[1] * y[2] >= y[1] * x[2] /\ y[1] * z[2] >= z[1] * y[2]
    BY <1>2, <1>3 DEF Higher
  <2>2. /\ x[1] * z[2] >= z[1] * x[2]
        /\ x[1] * y[2] > y[1] * x[2] \/ y[1] * z[2] > z[1] * y[2] => x[1] * z[2] > z[1] * x[2]
    BY <1>1, <2>1, TimesOrder
  <2> QED  BY <1>2, <2>2 DEF Higher
<1> QED  BY <1>2, <1>3 DEF Higher

\* Shares add up to a fraction.
LEMMA PlusIsFraction ==
    ASSUME NEW a, NEW b, IsFraction(a), IsFraction(b)
    PROVE  IsFraction(Plus(a, b))
<1>1. a[1] \in Nat /\ a[2] \in Nat /\ a[2] > 0 /\ b[1] \in Nat /\ b[2] \in Nat /\ b[2] > 0
  BY DEF IsFraction
<1>2. a[1] * b[2] \in Nat /\ b[1] * a[2] \in Nat /\ a[2] * b[2] \in Nat /\ 0 * b[2] = 0
  BY <1>1
<1>3. a[2] * b[2] > 0
  BY <1>1, <1>2, TimesMore
<1> QED  BY <1>2, <1>3 DEF IsFraction, Plus

\* Two sums whose terms compare the same way compare so too.
LEMMA PlusIsHigher ==
    ASSUME NEW a, NEW b, NEW c, NEW d,
           IsFraction(a), IsFraction(b), IsFraction(c), IsFraction(d),
           ~Higher(c, a), ~Higher(d, b), Higher(a, c) \/ Higher(b, d)
    PROVE  Higher(Plus(a, b), Plus(c, d))
<1>1. /\ a[1] \in Nat /\ a[2] \in Nat /\ a[2] > 0 /\ b[1] \in Nat /\ b[2] \in Nat /\ b[2] > 0
      /\ c[1] \in Nat /\ c[2] \in Nat /\ c[2] > 0 /\ d[1] \in Nat /\ d[2] \in Nat /\ d[2] > 0
  BY DEF IsFraction
<1> DEFINE ac == a[1] * c[2]
           ca == c[1] * a[2]
           bd == b[1] * d[2]
           db == d[1] * b[2]
           P == b[2] * d[2]
           Q == a[2] * c[2]
<1>2. /\ ac \in Nat /\ ca \in Nat /\ bd \in Nat /\ db \in Nat
      /\ P \in Nat /\ Q \in Nat /\ P > 0 /\ Q > 0
  BY <1>1
<1>3. ac >= ca /\ bd >= db /\ (ac > ca \/ bd > db)
  BY <1>2 DEF Higher
<1>4. ac * P + bd * Q > ca * P + db * Q
  <2> HIDE DEF ac, ca, bd, db, P, Q
  <2>1. /\ ac * P \in Nat /\ bd * Q \in Nat /\ ca * P \in Nat /\ db * Q \in Nat
        /\ ac * P >= ca * P /\ bd * Q >= db * Q
        /\ ac > ca => ac * P > ca * P
        /\ bd > db => bd * Q > db * Q
    BY <1>2, <1>3, TimesMore
  <2> QED  BY <1>3, <2>1
<1>5. (a[1] * b[2] + b[1] * a[2]) * (c[2] * d[2]) = ac * P + bd * Q
  BY <1>1
<1>6. (c[1] * d[2] + d[1] * c[2]) * (a[2] * b[2]) = ca * P + db * Q
  BY <1>1
<1> QED  BY <1>4, <1>5, <1>6 DEF Higher, Plus

-----------------------------------------------------------------------------
(* The foremost members of a strict order *)

\* Every nonempty set of numbers has a least member.
LEMMA LeastExists ==
    ASSUME NEW T \in SUBSET Nat, T # {}
    PROVE  \E m \in T : \A n \in T : m <= n
<1> DEFINE R == {s \in Nat \X Nat : s[1] < s[2]}
<1>1. IsWellFoundedOn(R, Nat)
  BY NatLessThanWellFounded DEF OpToRel
<1>2. \E m \in T : \A n \in T : ~(<<n, m>> \in R)
  <2> HIDE DEF R
  <2> QED  BY <1>1, WFMin
<1>3. PICK m \in T : \A n \in T : ~(<<n, m>> \in R)
  BY <1>2
<1>4. ASSUME NEW n \in T PROVE m <= n
  <2>1. <<n, m>> \in Nat \X Nat /\ ~(n < m)
    BY <1>3
  <2> QED  BY <2>1
<1> QED  BY <1>4

\* The members of S that R puts before c.
Before(S, R, c) == {d \in S \ {c} : <<d, c>> \in R}

\* R orders S strictly and totally.
StrictOrder(S, R) ==
    /\ \A c \in S : <<c, c>> \notin R
    /\ \A c, d, e \in S : <<c, d>> \in R /\ <<d, e>> \in R => <<c, e>> \in R
    /\ \A c, d \in S : c # d => <<c, d>> \in R \/ <<d, c>> \in R

\* The first k members of S in the order R.
Foremost(S, R, k) == {c \in S : Cardinality(Before(S, R, c)) < k}

\* In a strict order what comes earlier has fewer in front of it.
LEMMA BeforeGrows ==
    ASSUME NEW S, IsFiniteSet(S), NEW R, StrictOrder(S, R), NEW c \in S, NEW d \in S,
           <<c, d>> \in R
    PROVE  /\ Cardinality(Before(S, R, c)) \in Nat /\ Cardinality(Before(S, R, d)) \in Nat
           /\ Cardinality(Before(S, R, c)) < Cardinality(Before(S, R, d))
<1>1. Before(S, R, c) \subseteq Before(S, R, d) /\ c \in Before(S, R, d) /\ c \notin Before(S, R, c)
  BY DEF Before, StrictOrder
<1>2. IsFiniteSet(Before(S, R, d))
  <2>1. Before(S, R, d) \in SUBSET S
    BY DEF Before
  <2> QED  BY <2>1, FS_Subset
<1>3. IsFiniteSet(Before(S, R, c)) /\ Cardinality(Before(S, R, c)) <= Cardinality(Before(S, R, d))
      /\ Cardinality(Before(S, R, c)) # Cardinality(Before(S, R, d))
  BY <1>1, <1>2, FS_Subset
<1>4. Cardinality(Before(S, R, c)) \in Nat /\ Cardinality(Before(S, R, d)) \in Nat
  BY <1>2, <1>3, FS_CardinalityType
<1> QED  BY <1>3, <1>4

\* The first k of a finite, strictly ordered set are k at most, exactly k if any
\* is left out, and nothing left out comes before one of them.
LEMMA ForemostFill ==
    ASSUME NEW S, IsFiniteSet(S), NEW R, StrictOrder(S, R), NEW k \in Nat
    PROVE  /\ Cardinality(Foremost(S, R, k)) <= k
           /\ Foremost(S, R, k) # S => Cardinality(Foremost(S, R, k)) = k
           /\ \A c, d \in S : <<c, d>> \in R /\ d \in Foremost(S, R, k) => c \in Foremost(S, R, k)
<1> DEFINE A == Foremost(S, R, k)
           place(c) == Cardinality(Before(S, R, c))
<1>1. \A c \in S : place(c) \in Nat
  <2>1. \A c \in S : Before(S, R, c) \in SUBSET S
    BY DEF Before
  <2> QED  BY <2>1, FS_Subset, FS_CardinalityType
<1>2. \A c, d \in S : <<c, d>> \in R => place(c) < place(d)
  BY BeforeGrows
<1>3. A = {c \in S : place(c) < k}
  BY DEF Foremost
<1>4. IsFiniteSet(A) /\ Cardinality(A) \in Nat
  <2>1. A \in SUBSET S
    BY <1>3
  <2> QED  BY <2>1, FS_Subset, FS_CardinalityType
<1>5. Cardinality(A) <= k
  <2> DEFINE f == [c \in A |-> place(c) + 1]
  <2>1. f \in [A -> 1..k]
    BY <1>1, <1>3
  <2>2. ASSUME NEW c \in A, NEW d \in A, c # d PROVE f[c] # f[d]
    <3>1. c \in S /\ d \in S /\ f[c] = place(c) + 1 /\ f[d] = place(d) + 1
      BY <1>3
    <3>2. <<c, d>> \in R \/ <<d, c>> \in R
      BY <2>2, <3>1 DEF StrictOrder
    <3>3. place(c) # place(d) /\ place(c) \in Nat /\ place(d) \in Nat
      BY <1>1, <1>2, <3>1, <3>2
    <3> QED  BY <3>1, <3>3
  <2> HIDE DEF f, A
  <2>3. f \in Injection(A, 1..k)
    BY <2>1, <2>2 DEF Injection, IsInjective
  <2>4. IsFiniteSet(1..k) /\ Cardinality(1..k) = k
    BY FS_Interval
  <2> QED  BY <2>3, <2>4, FS_Injection
<1>6. ASSUME A # S PROVE Cardinality(A) >= k
  <2> DEFINE places == {place(c) : c \in S \ A}
  <2>1. places \in SUBSET Nat /\ places # {}
    BY <1>1, <1>3, <1>6
  <2>2. PICK m \in places : \A n \in places : m <= n
    <3> HIDE DEF places
    <3> QED  BY <2>1, LeastExists
  <2>3. PICK c \in S \ A : m = place(c)
    BY <2>2
  <2>4. Before(S, R, c) \subseteq A
    <3> SUFFICES ASSUME NEW d \in Before(S, R, c), d \notin A PROVE FALSE
      OBVIOUS
    <3>1. d \in S /\ place(d) < place(c)
      BY <1>2, <2>3 DEF Before
    <3>2. place(d) \in places
      BY <3>1
    <3>3. place(c) <= place(d) /\ place(c) \in Nat /\ place(d) \in Nat
      BY <1>1, <2>2, <2>3, <3>1, <3>2
    <3> QED  BY <3>1, <3>3
  <2>5. place(c) <= Cardinality(A)
    BY <1>4, <2>4, FS_Subset
  <2>6. place(c) >= k
    BY <1>1, <1>3, <2>3
  <2> QED  BY <1>1, <1>4, <2>3, <2>5, <2>6
<1>7. ASSUME NEW c \in S, NEW d \in S, <<c, d>> \in R, d \in A PROVE c \in A
  <2>1. place(c) < place(d) /\ place(d) < k /\ place(c) \in Nat /\ place(d) \in Nat
    BY <1>1, <1>2, <1>3, <1>7
  <2>2. place(c) < k
    BY <2>1
  <2> QED  BY <1>3, <2>2
<1> QED  BY <1>4, <1>5, <1>6, <1>7

-----------------------------------------------------------------------------
(* Reciprocal rank fusion *)

\* Seen(s, c, d): c occurs in s before d does.
Seen(s, c, d) == \E i \in DOMAIN s : s[i] = c /\ \A j \in 1 .. i : s[j] # d

\* First occurrences in a sequence are strictly ordered.
LEMMA SeenOrder ==
    ASSUME NEW s \in Seq(Chunks), NEW c, NEW d, NEW e
    PROVE  /\ ~Seen(s, c, c)
           /\ Seen(s, c, d) /\ Seen(s, d, e) => Seen(s, c, e)
           /\ c # d /\ c \in ToSet(s) => Seen(s, c, d) \/ Seen(s, d, c)
<1>1. Len(s) \in Nat /\ DOMAIN s = 1 .. Len(s)
  OBVIOUS
<1>2. ~Seen(s, c, c)
  BY <1>1 DEF Seen
<1>3. ASSUME Seen(s, c, d), Seen(s, d, e) PROVE Seen(s, c, e)
  <2>1. PICK i \in 1 .. Len(s) : s[i] = c /\ \A j \in 1 .. i : s[j] # d
    BY <1>1, <1>3 DEF Seen
  <2>2. PICK k \in 1 .. Len(s) : s[k] = d /\ \A j \in 1 .. k : s[j] # e
    BY <1>1, <1>3 DEF Seen
  <2>3. k \notin 1 .. i
    BY <2>1, <2>2
  <2>4. \A j \in 1 .. i : j \in 1 .. k
    BY <2>1, <2>2, <2>3, <1>1
  <2> QED  BY <1>1, <2>1, <2>2, <2>4 DEF Seen
<1>4. ASSUME c # d, c \in ToSet(s), ~Seen(s, c, d) PROVE Seen(s, d, c)
  <2>1. PICK i \in 1 .. Len(s) : s[i] = c
    BY <1>1, <1>4 DEF ToSet
  <2>2. \A n \in 1 .. Len(s) : s[n] = c => \E j \in 1 .. n : s[j] = d
    BY <1>1, <1>4 DEF Seen
  <2> DEFINE firsts == {n \in 1 .. Len(s) : s[n] \in {c, d}}
  <2>3. firsts \in SUBSET Nat /\ firsts # {}
    BY <1>1, <2>1
  <2>4. PICK m \in firsts : \A n \in firsts : m <= n
    <3> HIDE DEF firsts
    <3> QED  BY <2>3, LeastExists
  <2>5. s[m] # c
    <3> SUFFICES ASSUME s[m] = c PROVE FALSE
      OBVIOUS
    <3>1. PICK j \in 1 .. m : s[j] = d
      BY <2>2, <2>4
    <3>2. j \in firsts
      BY <1>1, <2>4, <3>1
    <3> QED  BY <1>1, <1>4, <2>4, <3>1, <3>2
  <2>6. s[m] = d /\ m \in 1 .. Len(s)
    BY <2>4, <2>5
  <2>7. ASSUME NEW j \in 1 .. m, s[j] = c PROVE FALSE
    <3>1. j \in firsts
      BY <1>1, <2>6, <2>7
    <3> QED  BY <1>1, <2>4, <2>5, <2>6, <2>7, <3>1
  <2> QED  BY <1>1, <2>6, <2>7 DEF Seen
<1> QED  BY <1>2, <1>3, <1>4

\* What a list adds to the score of c: nothing, or 1 / (k + its rank).
LEMMA ShareFacts ==
    ASSUME NEW list \in Seq(Chunks), NEW c
    PROVE  /\ IsFraction(Share(list, c))
           /\ c \notin ToSet(list) => Share(list, c) = <<0, 1>>
           /\ \A i \in 1 .. Len(list) :
                 IsInjective(list) /\ list[i] = c => Share(list, c) = <<1, RrfK + i>>
<1>1. Len(list) \in Nat /\ DOMAIN list = 1 .. Len(list)
  OBVIOUS
<1>2. CASE ~\E i \in DOMAIN list : list[i] = c
  <2>1. Share(list, c) = <<0, 1>>
    BY <1>2 DEF Share
  <2> QED  BY <1>1, <1>2, <2>1 DEF IsFraction
<1>3. CASE \E i \in DOMAIN list : list[i] = c
  <2> DEFINE m == CHOOSE i \in DOMAIN list : list[i] = c
  <2>1. m \in 1 .. Len(list) /\ list[m] = c
    BY <1>1, <1>3
  <2>2. Share(list, c) = <<1, RrfK + m>>
    BY <1>3 DEF Share
  <2> HIDE DEF m
  <2>3. RrfK + m \in Nat /\ RrfK + m > 0
    BY <1>1, <2>1
  <2>4. c \in ToSet(list)
    BY <1>3 DEF ToSet
  <2>5. \A i \in 1 .. Len(list) : IsInjective(list) /\ list[i] = c => i = m
    BY <1>1, <2>1 DEF IsInjective
  <2> QED  BY <2>2, <2>3, <2>4, <2>5 DEF IsFraction
<1> QED  BY <1>2, <1>3

\* A score is the sum of the two shares.
LEMMA ScoreIsSum ==
    ASSUME NEW vector \in Seq(Chunks), NEW lexical \in Seq(Chunks), NEW c
    PROVE  /\ Score(vector, lexical, c) = Plus(Share(vector, c), Share(lexical, c))
           /\ IsFraction(Score(vector, lexical, c))
<1>1. Score(vector, lexical, c) = Plus(Share(vector, c), Share(lexical, c))
  BY DEF Score, Plus
<1> QED  BY <1>1, ShareFacts, PlusIsFraction

\* A list that finds d finds what beats it there at a better rank.
LEMMA BetterInAList ==
    ASSUME NEW list \in Seq(Chunks), IsInjective(list), NEW c, NEW d, Beats(list, c, d)
    PROVE  /\ ~Higher(Share(list, d), Share(list, c))
           /\ d \in ToSet(list) => Higher(Share(list, c), Share(list, d))
<1>1. Len(list) \in Nat /\ DOMAIN list = 1 .. Len(list)
  OBVIOUS
<1>2. CASE d \notin ToSet(list)
  <2>1. Share(list, d) = <<0, 1>> /\ IsFraction(Share(list, c))
    BY <1>2, ShareFacts
  <2> QED  BY <1>2, <2>1 DEF Higher, IsFraction
<1>3. CASE d \in ToSet(list)
  <2>1. PICK j \in 1 .. Len(list) : list[j] = d
    BY <1>1, <1>3 DEF ToSet
  <2>2. PICK i \in 1 .. j - 1 : list[i] = c
    BY <1>1, <2>1 DEF Beats
  <2>3. i \in 1 .. Len(list) /\ i < j /\ i \in Nat /\ j \in Nat
    BY <1>1, <2>1, <2>2
  <2>4. Share(list, c) = <<1, RrfK + i>> /\ Share(list, d) = <<1, RrfK + j>>
    BY <2>1, <2>2, <2>3, ShareFacts
  <2> QED  BY <2>3, <2>4 DEF Higher
<1> QED  BY <1>2, <1>3

\* The order in which fusion sorts what the searches found.
Order(vector, lexical) ==
    {p \in Found(vector, lexical) \X Found(vector, lexical) : Leads(vector, lexical, p[1], p[2])}

\* Leads, with its tie-breaking by first occurrence named.
LEMMA LeadsUnfolded ==
    ASSUME NEW vector, NEW lexical, NEW c, NEW d
    PROVE  Leads(vector, lexical, c, d) <=>
              \/ Higher(Score(vector, lexical, c), Score(vector, lexical, d))
              \/ /\ ~Higher(Score(vector, lexical, d), Score(vector, lexical, c))
                 /\ Seen(vector \o lexical, c, d)
BY DEF Leads, Seen

\* A stable sort by falling score is a strict order of what was found.
LEMMA OrderIsStrict ==
    ASSUME NEW vector \in Seq(Chunks), NEW lexical \in Seq(Chunks)
    PROVE  StrictOrder(Found(vector, lexical), Order(vector, lexical))
<1> DEFINE S == Found(vector, lexical)
           R == Order(vector, lexical)
           sc(c) == Score(vector, lexical, c)
           seen == vector \o lexical
           L(c, d) == Leads(vector, lexical, c, d)
<1>1. seen \in Seq(Chunks) /\ \A c \in S : c \in ToSet(seen)
  <2>1. /\ Len(vector) \in Nat /\ DOMAIN vector = 1 .. Len(vector)
        /\ Len(lexical) \in Nat /\ DOMAIN lexical = 1 .. Len(lexical)
    OBVIOUS
  <2>2. seen \in Seq(Chunks) /\ Len(seen) = Len(vector) + Len(lexical)
    OBVIOUS
  <2>3. DOMAIN seen = 1 .. (Len(vector) + Len(lexical))
    BY <2>2
  <2>4. \A i \in 1 .. Len(vector) : i \in DOMAIN seen /\ seen[i] = vector[i]
    BY <2>1, <2>3
  <2>5. \A i \in 1 .. Len(lexical) :
           Len(vector) + i \in DOMAIN seen /\ seen[Len(vector) + i] = lexical[i]
    BY <2>1, <2>3
  <2> HIDE DEF seen
  <2> QED  BY <2>1, <2>2, <2>4, <2>5 DEF Found, ToSet
<1>2. \A c : IsFraction(sc(c))
  BY ScoreIsSum
<1>3. \A c, d : L(c, d) <=> Higher(sc(c), sc(d)) \/ (~Higher(sc(d), sc(c)) /\ Seen(seen, c, d))
  BY LeadsUnfolded
<1>4. \A c, d : <<c, d>> \in R <=> c \in S /\ d \in S /\ L(c, d)
  BY DEF Order
<1> HIDE DEF S, R, sc, seen, L
<1>5. \A c : ~L(c, c)
  BY <1>1, <1>2, <1>3, HigherOrder, SeenOrder
<1>6. ASSUME NEW c, NEW d, NEW e, L(c, d), L(d, e) PROVE L(c, e)
  <2>1. /\ ~Higher(sc(d), sc(c)) /\ ~Higher(sc(e), sc(d))
        /\ Higher(sc(c), sc(d)) \/ Seen(seen, c, d)
        /\ Higher(sc(d), sc(e)) \/ Seen(seen, d, e)
    BY <1>2, <1>3, <1>6, HigherOrder
  <2>2. /\ ~Higher(sc(e), sc(c))
        /\ Higher(sc(c), sc(d)) \/ Higher(sc(d), sc(e)) => Higher(sc(c), sc(e))
    BY <1>2, <2>1, HigherOrder
  <2>3. Seen(seen, c, d) /\ Seen(seen, d, e) => Seen(seen, c, e)
    BY <1>1, SeenOrder
  <2> QED  BY <1>3, <2>1, <2>2, <2>3
<1>7. ASSUME NEW c \in S, NEW d \in S, c # d PROVE L(c, d) \/ L(d, c)
  <2>1. Seen(seen, c, d) \/ Seen(seen, d, c)
    BY <1>1, <1>7, SeenOrder
  <2> QED  BY <1>3, <2>1
<1>8. StrictOrder(S, R)
  BY <1>4, <1>5, <1>6, <1>7 DEF StrictOrder
<1> QED  BY <1>8 DEF S, R

\* The cut keeps the foremost RerankCandidates of that order.
LEMMA CandidatesAreForemost ==
    ASSUME NEW vector, NEW lexical
    PROVE  Candidates(vector, lexical) =
              Foremost(Found(vector, lexical), Order(vector, lexical), RerankCandidates)
<1> DEFINE S == Found(vector, lexical)
<1>1. \A c \in S : {d \in S \ {c} : Leads(vector, lexical, d, c)}
                      = Before(S, Order(vector, lexical), c)
  BY DEF Before, Order
<1> QED  BY <1>1 DEF Candidates, Foremost

\* A chunk that every search ranks ahead of another leads it.
LEMMA AgreementLeads ==
    ASSUME NEW vector \in Seq(Chunks), NEW lexical \in Seq(Chunks),
           IsInjective(vector), IsInjective(lexical), NEW c, NEW d \in Found(vector, lexical),
           Beats(vector, c, d), Beats(lexical, c, d)
    PROVE  Leads(vector, lexical, c, d)
<1>1. /\ ~Higher(Share(vector, d), Share(vector, c))
      /\ ~Higher(Share(lexical, d), Share(lexical, c))
      /\ \/ Higher(Share(vector, c), Share(vector, d))
         \/ Higher(Share(lexical, c), Share(lexical, d))
  BY BetterInAList DEF Found
<1>2. Higher(Score(vector, lexical, c), Score(vector, lexical, d))
  BY <1>1, ShareFacts, ScoreIsSum, PlusIsHigher
<1> QED  BY <1>2, LeadsUnfolded

\* What fusion promises of two hit lists without repetitions.
LEMMA FusionAgrees ==
    ASSUME NEW vector \in Seq(Chunks), NEW lexical \in Seq(Chunks),
           IsInjective(vector), IsInjective(lexical)
    PROVE  LET fused == Candidates(vector, lexical)
           IN  /\ Cardinality(fused) <= RerankCandidates
               /\ \A c \in Found(vector, lexical) \ fused :
                     /\ Cardinality(fused) = RerankCandidates
                     /\ \A d \in fused : ~(Beats(vector, c, d) /\ Beats(lexical, c, d))
<1> DEFINE S == Found(vector, lexical)
           R == Order(vector, lexical)
           A == Candidates(vector, lexical)
<1>1. IsFiniteSet(S)
  <2>1. ASSUME NEW s \in Seq(Chunks) PROVE IsFiniteSet(ToSet(s))
    <3>1. Len(s) \in Nat /\ DOMAIN s = 1 .. Len(s)
      OBVIOUS
    <3>2. IsFiniteSet(1 .. Len(s))
      BY <3>1, FS_Interval
    <3>3. s \in [1 .. Len(s) -> ToSet(s)] /\ \A c \in ToSet(s) : \E i \in 1 .. Len(s) : s[i] = c
      BY <3>1 DEF ToSet
    <3>4. s \in Surjection(1 .. Len(s), ToSet(s))
      BY <3>3 DEF Surjection
    <3> QED  BY <3>2, <3>4, FS_Surjection
  <2> QED  BY <2>1, FS_Union DEF Found
<1>2. StrictOrder(S, R) /\ A = Foremost(S, R, RerankCandidates)
  BY OrderIsStrict, CandidatesAreForemost
<1>3. A \subseteq S
  BY DEF Candidates
<1>4. RerankCandidates \in Nat
  BY DEF AnsweringAssumption
<1>5. /\ Cardinality(A) <= RerankCandidates
      /\ A # S => Cardinality(A) = RerankCandidates
      /\ \A c, d \in S : <<c, d>> \in R /\ d \in A => c \in A
  <2> HIDE DEF S, R, A
  <2> QED  BY <1>1, <1>2, <1>4, ForemostFill
<1>6. ASSUME NEW c \in S \ A, NEW d \in A, Beats(vector, c, d), Beats(lexical, c, d) PROVE FALSE
  <2>1. d \in S
    BY <1>3
  <2>2. Leads(vector, lexical, c, d)
    BY <1>6, <2>1, AgreementLeads
  <2>3. <<c, d>> \in R
    BY <2>1, <2>2 DEF Order
  <2> QED  BY <1>5, <2>1, <2>3
<1> HIDE DEF S, A
<1> QED
  <2>1. ASSUME NEW c \in S \ A PROVE Cardinality(A) = RerankCandidates
    BY <1>5
  <2>2. \A c \in S \ A : /\ Cardinality(A) = RerankCandidates
                         /\ \A d \in A : ~(Beats(vector, c, d) /\ Beats(lexical, c, d))
    BY <1>6, <2>1
  <2> QED  BY <1>5, <2>2 DEF S, A

-----------------------------------------------------------------------------
(* What fusion keeps for the reranker *)

\* What fusion is owed and owes: each search returns a chunk once, and the
\* candidates at the reranker are those of the two hit lists beside them.
FusionInv(q) ==
    /\ At(q, "lexical") => IsInjective(run[q].vector)
    /\ At(q, "rerank") =>
          /\ IsInjective(run[q].vector) /\ IsInjective(run[q].lexical)
          /\ run[q].fused = Candidates(run[q].vector, run[q].lexical)

\* A step that does not end in front of the reranker or the second search.
LEMMA ElsewhereFuses ==
    ASSUME AnsweringInv, NEW q \in Questions, FusionInv(q), NEW p \in Questions,
           NEW r, Update(p, r),
           r.node \notin {"lexical", "rerank"} \/ r = [run[p] EXCEPT !.tries = @ + 1]
    PROVE  FusionInv(q)'
<1>1. run \in [Questions -> Run]
  BY DEF AnsweringInv, TypeOK
<1>2. CASE p # q
  <2>1. run'[q] = run[q]
    BY <1>1, <1>2 DEF Update
  <2> QED  BY <2>1 DEF FusionInv, At
<1>3. CASE p = q /\ r.node \notin {"lexical", "rerank"}
  <2>1. run'[q] = r
    BY <1>1, <1>3 DEF Update
  <2> QED  BY <1>3, <2>1 DEF FusionInv, At
<1>4. CASE p = q /\ r = [run[p] EXCEPT !.tries = @ + 1]
  <2>1. run'[q] = [run[q] EXCEPT !.tries = @ + 1]
    BY <1>1, <1>4 DEF Update
  <2>2. /\ run'[q].node = run[q].node /\ run'[q].vector = run[q].vector
        /\ run'[q].lexical = run[q].lexical /\ run'[q].fused = run[q].fused
    BY <1>1, <2>1 DEF Run
  <2> QED  BY <2>2 DEF FusionInv, At
<1> QED  BY <1>2, <1>3, <1>4

\* Every step of every question keeps FusionInv.
LEMMA FusionStep ==
    ASSUME AnsweringInv, NEW q \in Questions, FusionInv(q), [Next]_vars
    PROVE  FusionInv(q)'
<1>1. run \in [Questions -> Run]
  BY DEF AnsweringInv, TypeOK
<1>2. CASE UNCHANGED vars
  BY <1>2 DEF vars, FusionInv, At
<1>3. ASSUME NEW p \in Questions, NEW mode \in Modes, Begin(p, mode) PROVE FusionInv(q)'
  <2>1. Update(p, [run[p] EXCEPT !.mode = mode, !.node = "embed"])
    BY <1>3 DEF Begin
  <2>2. [run[p] EXCEPT !.mode = mode, !.node = "embed"].node = "embed"
    BY <1>1 DEF Run
  <2> QED  BY <2>1, <2>2, ElsewhereFuses
<1>4. ASSUME NEW p \in Questions, Step(p) PROVE FusionInv(q)'
  <2>1. CASE VectorSearch(p)
    <3>1. PICK hits \in Hits(Context(p), VectorTopK) :
             Update(p, [run[p] EXCEPT !.node = "lexical", !.vector = hits])
      BY <2>1 DEF VectorSearch
    <3>2. run'[q] = IF p = q THEN [run[q] EXCEPT !.node = "lexical", !.vector = hits] ELSE run[q]
      BY <1>1, <3>1 DEF Update
    <3>3. p = q => run'[q].node = "lexical" /\ run'[q].vector = hits
      BY <1>1, <3>2 DEF Run
    <3>4. IsInjective(hits)
      BY <3>1 DEF Hits
    <3> QED  BY <3>2, <3>3, <3>4 DEF FusionInv, At
  <2>2. CASE LexicalSearch(p)
    <3> DEFINE fused(hits) == Candidates(run[p].vector, hits)
               node(hits) == IF fused(hits) = {} THEN AfterRetrieval(p) ELSE "rerank"
               r(hits) == [run[p] EXCEPT !.node = node(hits), !.lexical = hits,
                                         !.fused = fused(hits)]
    <3>1. PICK hits \in Hits(Context(p), LexicalTopK) : Update(p, r(hits))
      BY <2>2 DEF LexicalSearch
    <3>2. run'[q] = IF p = q THEN r(hits) ELSE run[q]
      BY <1>1, <3>1 DEF Update
    <3>3. /\ r(hits).node = node(hits) /\ r(hits).vector = run[p].vector
          /\ r(hits).lexical = hits /\ r(hits).fused = fused(hits)
      BY <1>1 DEF Run
    <3>4. r(hits).node # "lexical"
      BY <3>3 DEF AfterRetrieval
    <3>5. IsInjective(hits) /\ At(p, "lexical")
      BY <2>2, <3>1 DEF Hits, LexicalSearch
    <3> HIDE DEF r
    <3> QED  BY <3>2, <3>3, <3>4, <3>5 DEF FusionInv, At
  <2>3. CASE Retry(p)
    BY <2>3, ElsewhereFuses DEF Retry
  <2>4. CASE Embed(p)
    <3>1. [run[p] EXCEPT !.node = "vector", !.tries = 0].node = "vector"
      BY <1>1 DEF Run
    <3> QED  BY <2>4, <3>1, ElsewhereFuses DEF Embed
  <2>5. CASE Rerank(p)
    <3>1. PICK chunks : Update(p, [run[p] EXCEPT !.node = AfterRetrieval(p), !.vector = <<>>,
                                      !.lexical = <<>>, !.fused = {}, !.chunks = chunks])
      BY <2>5 DEF Rerank
    <3>2. [run[p] EXCEPT !.node = AfterRetrieval(p), !.vector = <<>>,
               !.lexical = <<>>, !.fused = {}, !.chunks = chunks].node \notin {"lexical", "rerank"}
      BY <1>1 DEF Run, AfterRetrieval
    <3> QED  BY <3>1, <3>2, ElsewhereFuses
  <2>6. CASE Generate(p)
    <3> DEFINE node == IF run[p].mode = "chat" THEN "review" ELSE "done"
    <3>1. PICK cited :
             Update(p, [run[p] EXCEPT !.node = node, !.tries = 0, !.cited = cited])
      BY <2>6 DEF Generate
    <3>2. [run[p] EXCEPT !.node = node, !.tries = 0, !.cited = cited].node
             \notin {"lexical", "rerank"}
      BY <1>1 DEF Run
    <3> QED  BY <3>1, <3>2, ElsewhereFuses
  <2>7. CASE ReviewUngrounded(p) \/ ReviewByModel(p) \/ ReviewByCheck(p)
    <3>1. PICK review : Update(p, [run[p] EXCEPT !.node = "done", !.tries = 0, !.qa = review])
      BY <2>7 DEF ReviewUngrounded, ReviewByModel, ReviewByCheck, Verdict
    <3>2. [run[p] EXCEPT !.node = "done", !.tries = 0, !.qa = review].node = "done"
      BY <1>1 DEF Run
    <3> QED  BY <3>1, <3>2, ElsewhereFuses
  <2>8. CASE Abort(p)
    <3>1. Update(p, [Fresh EXCEPT !.mode = run[p].mode, !.node = "failed"])
      BY <2>8 DEF Abort, Fails
    <3>2. [Fresh EXCEPT !.mode = run[p].mode, !.node = "failed"].node = "failed"
      BY DEF Fresh
    <3> QED  BY <3>1, <3>2, ElsewhereFuses
  <2> QED  BY <1>4, <2>1, <2>2, <2>3, <2>4, <2>5, <2>6, <2>7, <2>8 DEF Step
<1> QED  BY <1>2, <1>3, <1>4 DEF Next

\* However the two searches of a question answer, fusion fills its cut and never
\* drops a chunk for one that every search ranked behind it.
THEOREM AgreementHolds == Spec => []AgreementSurvives
<1> DEFINE Inv == AnsweringInv /\ \A q \in Questions : FusionInv(q)
<1>1. Init => Inv
  <2>1. Init => \A q \in Questions : FusionInv(q)
    BY DEF Init, Fresh, FusionInv, At
  <2> QED  BY <2>1, InitEstablishes
<1>2. Inv /\ [Next]_vars => Inv'
  BY StepKeeps, FusionStep
<1>3. Inv => AgreementSurvives
  <2> DEFINE Cut(vector, lexical, fused) ==
                /\ Cardinality(fused) <= RerankCandidates
                /\ \A c \in Found(vector, lexical) \ fused :
                      /\ Cardinality(fused) = RerankCandidates
                      /\ \A d \in fused : ~(Beats(vector, c, d) /\ Beats(lexical, c, d))
  <2> SUFFICES ASSUME Inv, NEW q \in Questions, At(q, "rerank")
               PROVE  Cut(run[q].vector, run[q].lexical, run[q].fused)
    BY DEF AgreementSurvives
  <2>1. run[q].vector \in Seq(Chunks) /\ run[q].lexical \in Seq(Chunks)
    BY DEF AnsweringInv, TypeOK, Run
  <2>2. /\ IsInjective(run[q].vector) /\ IsInjective(run[q].lexical)
        /\ run[q].fused = Candidates(run[q].vector, run[q].lexical)
    BY DEF FusionInv
  <2> QED  BY <2>1, <2>2, FusionAgrees
<1>4. QED
  BY <1>1, <1>2, <1>3, PTL DEF Spec

-----------------------------------------------------------------------------
(* Citations *)

\* f[n] is what build_citations has after n passages.
Builds(f, chunks, n) ==
    f = [k \in 0 .. n |-> IF k = 0 THEN <<>> ELSE AddCitation(f[k - 1], chunks[k])]

\* The loop of build_citations, which never fails to build its list.
LEMMA BuildsExist ==
    ASSUME NEW chunks \in Seq(Chunks), NEW n \in 0 .. Len(chunks)
    PROVE  \E f : Builds(f, chunks, n)
<1>1. Len(chunks) \in Nat
  OBVIOUS
<1> DEFINE Missing == {k \in 0 .. Len(chunks) : ~\E f : Builds(f, chunks, k)}
<1> SUFFICES ASSUME Missing # {} PROVE FALSE
  OBVIOUS
<1>2. PICK m \in Missing : \A k \in Missing : m <= k
  <2>1. Missing \in SUBSET Nat
    BY <1>1
  <2> HIDE DEF Missing
  <2> QED  BY <2>1, LeastExists
<1>3. m # 0
  <2>1. Builds([k \in 0 .. 0 |-> <<>>], chunks, 0)
    BY DEF Builds
  <2> QED  BY <2>1, <1>2
<1>4. m - 1 \in 0 .. Len(chunks) /\ ~(m <= m - 1)
  BY <1>1, <1>2, <1>3
<1>5. PICK f : Builds(f, chunks, m - 1)
  BY <1>2, <1>4
<1> DEFINE g == [k \in 0 .. m |-> IF k = m THEN AddCitation(f[m - 1], chunks[m]) ELSE f[k]]
<1>6. \A k \in 0 .. (m - 1) : f[k] = IF k = 0 THEN <<>> ELSE AddCitation(f[k - 1], chunks[k])
  BY <1>5 DEF Builds
<1>7. ASSUME NEW k \in 0 .. m
      PROVE  g[k] = IF k = 0 THEN <<>> ELSE AddCitation(g[k - 1], chunks[k])
  <2>1. CASE k = m
    <3>1. g[k - 1] = f[m - 1] /\ k # 0
      BY <1>1, <1>2, <1>3, <2>1
    <3> QED  BY <2>1, <3>1
  <2>2. CASE k # m
    <3>1. k \in 0 .. (m - 1) /\ g[k] = f[k]
      BY <1>1, <1>2, <2>2
    <3>2. k # 0 => k - 1 \in 0 .. m /\ k - 1 # m /\ g[k - 1] = f[k - 1]
      BY <1>1, <1>2, <2>2
    <3> HIDE DEF g
    <3> QED  BY <1>6, <3>1, <3>2
  <2> QED  BY <2>1, <2>2
<1>8. Builds(g, chunks, m)
  <2>1. g = [k \in 0 .. m |-> g[k]]
    OBVIOUS
  <2> HIDE DEF g
  <2> QED  BY <1>7, <2>1 DEF Builds
<1> QED  BY <1>2, <1>8

\* Citations is what that loop has built at the end.
LEMMA CitationsAreBuilt ==
    ASSUME NEW chunks \in Seq(Chunks)
    PROVE  \E f : Builds(f, chunks, Len(chunks)) /\ Citations(chunks) = f[Len(chunks)]
<1> DEFINE f == CHOOSE s : s = [n \in 0 .. Len(chunks) |->
                     IF n = 0 THEN <<>> ELSE AddCitation(s[n - 1], chunks[n])]
<1>1. Len(chunks) \in 0 .. Len(chunks)
  OBVIOUS
<1>2. \E s : Builds(s, chunks, Len(chunks))
  BY <1>1, BuildsExist
<1>3. \E s : s = [n \in 0 .. Len(chunks) |->
                     IF n = 0 THEN <<>> ELSE AddCitation(s[n - 1], chunks[n])]
  BY <1>2 DEF Builds
<1>4. f = [n \in 0 .. Len(chunks) |-> IF n = 0 THEN <<>> ELSE AddCitation(f[n - 1], chunks[n])]
  BY <1>3
<1>5. Citations(chunks) = f[Len(chunks)]
  BY DEF Citations
<1> HIDE DEF f
<1> QED  BY <1>4, <1>5 DEF Builds

\* A list of citations of the first n passages: passages of its own documents
\* only, each document once, none forgotten.
Cites(list, chunks, n) ==
    /\ list \in Seq(Chunks)
    /\ \A i \in DOMAIN list : \E j \in 1 .. n : list[i] = chunks[j]
    /\ \A i, j \in DOMAIN list : Document[list[i]] = Document[list[j]] => i = j
    /\ \A j \in 1 .. n : \E i \in DOMAIN list : Document[list[i]] = Document[chunks[j]]

\* The step of the loop.
LEMMA AddCites ==
    ASSUME NEW chunks \in Seq(Chunks), NEW n \in 1 .. Len(chunks), NEW list,
           Cites(list, chunks, n - 1)
    PROVE  Cites(AddCitation(list, chunks[n]), chunks, n)
<1> DEFINE c == chunks[n]
           longer == Append(list, c)
<1>1. /\ Len(chunks) \in Nat /\ n \in Nat /\ n > 0
      /\ list \in Seq(Chunks) /\ c \in Chunks /\ Len(list) \in Nat /\ DOMAIN list = 1 .. Len(list)
  BY DEF Cites
<1>2. \A j \in 1 .. n : j = n \/ j \in 1 .. (n - 1)
  BY <1>1
<1>3. \A j \in 1 .. (n - 1) : j \in 1 .. n
  BY <1>1
<1>4. n \in 1 .. n
  BY <1>1
<1>5. CASE \E i \in DOMAIN list : Document[list[i]] = Document[c]
  <2>1. AddCitation(list, c) = list
    BY <1>5 DEF AddCitation
  <2>2. Cites(list, chunks, n)
    BY <1>2, <1>3, <1>5 DEF Cites
  <2> QED  BY <2>1, <2>2
<1>6. CASE ~\E i \in DOMAIN list : Document[list[i]] = Document[c]
  <2>1. AddCitation(list, c) = longer
    BY <1>6 DEF AddCitation
  <2>2. /\ longer \in Seq(Chunks) /\ DOMAIN longer = 1 .. (Len(list) + 1)
        /\ longer[Len(list) + 1] = c
        /\ \A i \in 1 .. Len(list) : longer[i] = list[i]
    BY <1>1
  <2>3. \A i \in DOMAIN longer : i = Len(list) + 1 \/ i \in DOMAIN list
    BY <1>1, <2>2
  <2>4. Len(list) + 1 \in DOMAIN longer /\ \A i \in DOMAIN list : i \in DOMAIN longer
    BY <1>1, <2>2
  <2> HIDE DEF longer, c
  <2>5. \A i \in DOMAIN longer : \E j \in 1 .. n : longer[i] = chunks[j]
    <3> TAKE i \in DOMAIN longer
    <3>1. CASE i = Len(list) + 1
      BY <1>4, <2>2, <3>1 DEF c
    <3>2. CASE i \in DOMAIN list
      <4>1. PICK j \in 1 .. (n - 1) : list[i] = chunks[j]
        BY <3>2, Zenon DEF Cites
      <4>2. longer[i] = list[i] /\ j \in 1 .. n
        BY <1>1, <1>3, <2>2, <3>2
      <4> QED  BY <4>1, <4>2
    <3> QED  BY <2>3, <3>1, <3>2
  <2>6. \A i, j \in DOMAIN longer : Document[longer[i]] = Document[longer[j]] => i = j
    <3> TAKE i, j \in DOMAIN longer
    <3> HAVE Document[longer[i]] = Document[longer[j]]
    <3>1. CASE i \in DOMAIN list /\ j \in DOMAIN list
      <4>1. longer[i] = list[i] /\ longer[j] = list[j]
        BY <1>1, <2>2, <3>1
      <4>2. Document[list[i]] = Document[list[j]]
        BY <4>1
      <4> QED  BY <3>1, <4>2, Zenon DEF Cites
    <3>2. CASE i \in DOMAIN list /\ j = Len(list) + 1
      BY <1>1, <1>6, <2>2, <3>2
    <3>3. CASE i = Len(list) + 1 /\ j \in DOMAIN list
      BY <1>1, <1>6, <2>2, <3>3
    <3> QED  BY <2>3, <3>1, <3>2, <3>3
  <2>7. \A j \in 1 .. n : \E i \in DOMAIN longer : Document[longer[i]] = Document[chunks[j]]
    <3> TAKE j \in 1 .. n
    <3>1. CASE j = n
      BY <2>2, <2>4, <3>1 DEF c
    <3>2. CASE j \in 1 .. (n - 1)
      <4>1. PICK i \in DOMAIN list : Document[list[i]] = Document[chunks[j]]
        BY <3>2, Zenon DEF Cites
      <4>2. i \in DOMAIN longer /\ longer[i] = list[i]
        BY <1>1, <2>2, <2>4, <4>1
      <4>3. Document[longer[i]] = Document[chunks[j]]
        BY <4>1, <4>2
      <4> QED  BY <4>2, <4>3
    <3> QED  BY <1>2, <3>1, <3>2
  <2> QED  BY <2>1, <2>2, <2>5, <2>6, <2>7 DEF Cites, c
<1> QED  BY <1>5, <1>6

\* build_citations lists each document of the passages once, and no other.
LEMMA CitationsCite ==
    ASSUME NEW chunks \in Seq(Chunks)
    PROVE  Cites(Citations(chunks), chunks, Len(chunks))
<1>1. Len(chunks) \in Nat
  OBVIOUS
<1>2. PICK f : Builds(f, chunks, Len(chunks)) /\ Citations(chunks) = f[Len(chunks)]
  BY CitationsAreBuilt
<1>3. \A k \in 0 .. Len(chunks) :
         f[k] = IF k = 0 THEN <<>> ELSE AddCitation(f[k - 1], chunks[k])
  BY <1>2 DEF Builds
<1> DEFINE Wrong == {k \in 0 .. Len(chunks) : ~Cites(f[k], chunks, k)}
<1>4. Wrong = {}
  <2> SUFFICES ASSUME Wrong # {} PROVE FALSE
    OBVIOUS
  <2>1. PICK m \in Wrong : \A k \in Wrong : m <= k
    <3>1. Wrong \in SUBSET Nat
      BY <1>1
    <3> HIDE DEF Wrong
    <3> QED  BY <3>1, LeastExists
  <2>2. CASE m = 0
    <3>1. f[0] = <<>>
      BY <1>1, <1>3
    <3>2. Cites(<<>>, chunks, 0)
      BY DEF Cites
    <3> QED  BY <2>1, <2>2, <3>1, <3>2
  <2>3. CASE m # 0
    <3>1. /\ m - 1 \in 0 .. Len(chunks) /\ m \in 1 .. Len(chunks) /\ ~(m <= m - 1)
      BY <1>1, <2>1, <2>3
    <3>2. Cites(f[m - 1], chunks, m - 1)
      BY <2>1, <3>1
    <3>3. Cites(AddCitation(f[m - 1], chunks[m]), chunks, m)
      BY <3>1, <3>2, AddCites
    <3>4. f[m] = AddCitation(f[m - 1], chunks[m])
      BY <1>3, <2>1, <2>3
    <3> QED  BY <2>1, <3>3, <3>4
  <2> QED  BY <2>2, <2>3
<1> QED  BY <1>1, <1>2, <1>4

\* Numbers tell documents apart, and each number names a passage.
LEMMA NumbersNameDocuments ==
    ASSUME NEW chunks \in Seq(Chunks)
    PROVE  /\ \A i, j \in DOMAIN chunks :
                 Number(chunks, i) = Number(chunks, j)
                     <=> Document[chunks[i]] = Document[chunks[j]]
           /\ 1 .. Len(Citations(chunks)) \subseteq {Number(chunks, i) : i \in DOMAIN chunks}
<1> DEFINE list == Citations(chunks)
<1>1. Len(chunks) \in Nat /\ DOMAIN chunks = 1 .. Len(chunks)
  OBVIOUS
<1>2. Cites(list, chunks, Len(chunks))
  BY CitationsCite
<1>3. \A i \in DOMAIN chunks :
         Number(chunks, i) = CHOOSE n \in DOMAIN list : Document[list[n]] = Document[chunks[i]]
  BY DEF Number
<1> HIDE DEF list
<1> DEFINE Num(i) == Number(chunks, i)
           Doc(n) == Document[list[n]]
<1>4. /\ \A i \in DOMAIN chunks : Num(i) \in DOMAIN list /\ Doc(Num(i)) = Document[chunks[i]]
      /\ \A m, n \in DOMAIN list : Doc(m) = Doc(n) => m = n
      /\ \A n \in DOMAIN list : \E i \in DOMAIN chunks : list[n] = chunks[i]
      /\ DOMAIN list = 1 .. Len(list)
  <2>1. ASSUME NEW i \in DOMAIN chunks
        PROVE  Num(i) \in DOMAIN list /\ Doc(Num(i)) = Document[chunks[i]]
    <3>1. \E n \in DOMAIN list : Document[list[n]] = Document[chunks[i]]
      BY <1>1, <1>2, Zenon DEF Cites
    <3>2. Num(i) = CHOOSE n \in DOMAIN list : Document[list[n]] = Document[chunks[i]]
      BY <1>3
    <3> HIDE DEF Num
    <3> QED  BY <3>1, <3>2
  <2>2. \A m, n \in DOMAIN list : Doc(m) = Doc(n) => m = n
    BY <1>2, Zenon DEF Cites
  <2>3. \A n \in DOMAIN list : \E i \in DOMAIN chunks : list[n] = chunks[i]
    BY <1>1, <1>2, Zenon DEF Cites
  <2>4. DOMAIN list = 1 .. Len(list)
    BY <1>2 DEF Cites
  <2> QED  BY <2>1, <2>2, <2>3, <2>4
<1>5. ASSUME NEW n \in 1 .. Len(list) PROVE \E i \in DOMAIN chunks : Num(i) = n
  <2>1. n \in DOMAIN list
    BY <1>4
  <2>2. PICK i \in DOMAIN chunks : list[n] = chunks[i]
    BY <1>4, <2>1
  <2>3. Doc(Num(i)) = Doc(n) /\ Num(i) \in DOMAIN list
    BY <1>4, <2>2
  <2> HIDE DEF Num, Doc
  <2>4. Num(i) = n
    BY <1>4, <2>1, <2>3, Zenon
  <2> QED  BY <2>4
<1>6. ASSUME NEW i \in DOMAIN chunks, NEW j \in DOMAIN chunks
      PROVE  Num(i) = Num(j) <=> Document[chunks[i]] = Document[chunks[j]]
  <2> HIDE DEF Num, Doc
  <2>1. /\ Num(i) \in DOMAIN list /\ Doc(Num(i)) = Document[chunks[i]]
        /\ Num(j) \in DOMAIN list /\ Doc(Num(j)) = Document[chunks[j]]
    BY <1>4, Zenon
  <2> QED  BY <1>4, <2>1, Zenon
<1> QED
  <2>1. 1 .. Len(list) \subseteq {Num(i) : i \in DOMAIN chunks}
    BY <1>5
  <2> QED  BY <1>6, <2>1 DEF list

\* What a passed check says of an answer at rest.
CitedInv(q) == Reviewed(q) /\ run[q].qa.valid => CitationCheck(run[q])

\* Only a verdict ends a question of the graph with an answer.
LEMMA OnlyVerdictsEnd ==
    ASSUME AnsweringInv, NEW q \in Questions, Reviewed(q)',
           Step(q) \/ \E mode \in Modes : Begin(q, mode)
    PROVE  \E review : Verdict(q, review) /\ (review.valid => CitationCheck(run[q]))
<1>1. run \in [Questions -> Run] /\ run[q] \in Run
  BY DEF AnsweringInv, TypeOK
<1>2. \A r : Update(q, r) => run'[q] = r
  BY <1>1 DEF Update
<1>3. run'[q].mode = "chat" /\ run'[q].node = "done"
  BY DEF Reviewed, At
<1>4. ASSUME NEW mode \in Modes, Begin(q, mode) PROVE FALSE
  <2>1. run'[q] = [run[q] EXCEPT !.mode = mode, !.node = "embed"]
    BY <1>2, <1>4 DEF Begin
  <2> QED  BY <1>1, <1>3, <2>1 DEF Run
<1>5. ~Embed(q) /\ ~VectorSearch(q)
  <2>1. Embed(q) => run'[q] = [run[q] EXCEPT !.node = "vector", !.tries = 0]
    BY <1>2 DEF Embed
  <2>2. VectorSearch(q) =>
           \E hits : run'[q] = [run[q] EXCEPT !.node = "lexical", !.vector = hits]
    BY <1>2 DEF VectorSearch
  <2> QED  BY <1>1, <1>3, <2>1, <2>2 DEF Run
<1>6. ~LexicalSearch(q) /\ ~Rerank(q)
  <2>1. LexicalSearch(q) =>
           \E hits, fused, node :
              /\ run'[q] = [run[q] EXCEPT !.node = node, !.lexical = hits, !.fused = fused]
              /\ node \in {AfterRetrieval(q), "rerank"}
    BY <1>2 DEF LexicalSearch
  <2>2. Rerank(q) =>
           \E chunks :
              run'[q] = [run[q] EXCEPT !.node = AfterRetrieval(q), !.vector = <<>>,
                                       !.lexical = <<>>, !.fused = {}, !.chunks = chunks]
    BY <1>2 DEF Rerank
  <2>3. run[q].mode = "chat" => AfterRetrieval(q) = "generate"
    BY DEF AfterRetrieval
  <2> QED  BY <1>1, <1>3, <2>1, <2>2, <2>3 DEF Run
<1>7. ~Generate(q)
  <2> DEFINE node == IF run[q].mode = "chat" THEN "review" ELSE "done"
  <2>1. Generate(q) =>
           \E cited : run'[q] = [run[q] EXCEPT !.node = node, !.tries = 0, !.cited = cited]
    BY <1>2 DEF Generate
  <2> QED  BY <1>1, <1>3, <2>1 DEF Run
<1>8. ~Retry(q)
  <2>1. Retry(q) => run'[q] = [run[q] EXCEPT !.tries = @ + 1] /\ run[q].node # "done"
    BY <1>2 DEF Retry, Asking, At
  <2> QED  BY <1>1, <1>3, <2>1 DEF Run
<1>9. ~Abort(q)
  <2>1. Abort(q) => run'[q] = [Fresh EXCEPT !.mode = run[q].mode, !.node = "failed"]
    BY <1>2 DEF Abort, Fails
  <2> QED  BY <1>3, <2>1 DEF Fresh
<1>10. ReviewUngrounded(q) \/ ReviewByModel(q) \/ ReviewByCheck(q)
  BY <1>4, <1>5, <1>6, <1>7, <1>8, <1>9 DEF Step
<1> QED
  <2>1. CASE ReviewUngrounded(q)
    <3>1. Verdict(q, [grounded |-> FALSE, valid |-> CitationCheck(run[q])])
      BY <2>1 DEF ReviewUngrounded
    <3> QED  BY <3>1
  <2>2. CASE ReviewByModel(q)
    <3>1. PICK grounded, valid \in BOOLEAN :
             Verdict(q, [grounded |-> grounded, valid |-> valid /\ CitationCheck(run[q])])
      BY <2>2 DEF ReviewByModel
    <3>2. [grounded |-> grounded, valid |-> valid /\ CitationCheck(run[q])].valid
             => CitationCheck(run[q])
      OBVIOUS
    <3> QED  BY <3>1, <3>2
  <2>3. CASE ReviewByCheck(q)
    <3>1. Verdict(q, [grounded |-> TRUE, valid |-> CitationCheck(run[q])])
      BY <2>3 DEF ReviewByCheck
    <3> QED  BY <3>1
  <2> QED  BY <1>10, <2>1, <2>2, <2>3

\* No step turns a passed check false.
LEMMA CitedStep ==
    ASSUME AnsweringInv, NEW q \in Questions, CitedInv(q), [Next]_vars
    PROVE  CitedInv(q)'
<1>1. run \in [Questions -> Run] /\ run[q] \in Run
  BY DEF AnsweringInv, TypeOK
<1>2. CASE run'[q] = run[q]
  BY <1>2 DEF CitedInv, Reviewed, At, CitationCheck
<1>3. CASE run'[q] # run[q]
  <2>1. PICK p \in Questions : Step(p) \/ \E mode \in Modes : Begin(p, mode)
    BY <1>3 DEF Next, vars
  <2>2. p = q
    BY <1>3, <2>1, StepsAreApart
  <2> SUFFICES ASSUME Reviewed(q)', run'[q].qa.valid PROVE CitationCheck(run'[q])
    BY DEF CitedInv, CitationCheck
  <2>3. PICK review : Verdict(q, review) /\ (review.valid => CitationCheck(run[q]))
    BY <2>1, <2>2, OnlyVerdictsEnd
  <2>4. run'[q] = [run[q] EXCEPT !.node = "done", !.tries = 0, !.qa = review]
    BY <1>1, <2>3 DEF Verdict, Update
  <2>5. /\ run'[q].qa = review /\ run'[q].cited = run[q].cited
        /\ run'[q].chunks = run[q].chunks
    BY <1>1, <2>4 DEF Run
  <2> QED  BY <2>3, <2>5 DEF CitationCheck
<1> QED  BY <1>2, <1>3

\* A number stands for one document throughout the prompt, and the citations of
\* an answer whose review lets them pass are all numbers of passages shown.
THEOREM CitationsAreResolved == Spec => []CitationsResolve
<1> DEFINE Inv == AnsweringInv /\ \A q \in Questions : CitedInv(q)
<1>1. Init => Inv
  <2>1. Init => \A q \in Questions : CitedInv(q)
    BY DEF Init, Fresh, CitedInv, Reviewed, At
  <2> QED  BY <2>1, InitEstablishes
<1>2. Inv /\ [Next]_vars => Inv'
  BY StepKeeps, CitedStep
<1>3. Inv => CitationsResolve
  <2> SUFFICES ASSUME Inv, NEW q \in Questions
               PROVE  /\ \A i, j \in DOMAIN run[q].chunks :
                            Number(run[q].chunks, i) = Number(run[q].chunks, j)
                                <=> Document[run[q].chunks[i]] = Document[run[q].chunks[j]]
                      /\ Reviewed(q) /\ run[q].qa.valid =>
                            run[q].cited \subseteq
                               {Number(run[q].chunks, i) : i \in DOMAIN run[q].chunks}
    BY DEF CitationsResolve
  <2>1. run[q].chunks \in Seq(Chunks)
    BY DEF AnsweringInv, TypeOK, Run
  <2>2. Reviewed(q) /\ run[q].qa.valid => run[q].cited \subseteq 1 .. Len(Citations(run[q].chunks))
    BY DEF CitedInv, CitationCheck
  <2> QED  BY <2>1, <2>2, NumbersNameDocuments
<1>4. QED
  BY <1>1, <1>2, <1>3, PTL DEF Spec

=============================================================================
