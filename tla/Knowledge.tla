------------------------------ MODULE Knowledge ------------------------------
(***************************************************************************)
(* From a page to an answer: one page goes through the stages of its       *)
(* ingestion into the two stores, and one question about it through        *)
(* detection, routing, search, reranking and compression to a specialist.  *)
(*                                                                         *)
(* What is left to chance is what others decide: the HTML a browser        *)
(* renders, what the language model returns, the order and the errors of   *)
(* the embedding service, the neighbours the vector index finds.           *)
(* Concurrency, failures of the stores and tenants are in the modules      *)
(* IngestionJobs and Answering.                                            *)
(***************************************************************************)
EXTENDS TextStages

CONSTANTS
    Pages,             \* [title, main, rest, live]: live is what scripts would show
    Asked(_),          \* Asked(page): the questions asked once the page is stored
    AIMax,             \* max_chars of AICleaner
    AIMin,             \* the least that AICleaner accepts
    BatchSize,         \* batch_size of embed_chunks
    VectorTopK,
    LexicalTopK,
    RerankCandidates,
    FinalTopK,
    StopWords          \* words that the 'english' text search leaves out

ASSUME KnowledgeAssumption ==
    /\ AIMax \in Nat /\ AIMin \in Nat /\ BatchSize \in Nat \ {0}
    /\ {VectorTopK, LexicalTopK, RerankCandidates, FinalTopK} \subseteq Nat \ {0}
    /\ Pages \subseteq [title : Seq(STRING), main : Nodes, rest : Nodes, live : Nodes]

VARIABLES
    stage,  \* the last stage that is done
    page,   \* the page, as crawled or as rendered
    doc,    \* its text, its chunks, those that are unique, and those with vectors
    store,  \* points of Qdrant, and rows of document_chunks
    turn    \* the question, what the graph's state holds of it, and the reply that the
            \* specialist's model gave (history)

vars == <<stage, page, doc, store, turn>>

NoDoc == [text |-> <<>>, chunks |-> <<>>, unique |-> <<>>, embedded |-> <<>>]

NoQuestion == [text |-> <<>>, history |-> <<>>, requested |-> <<>>, topK |-> 0]

NoTurn == [question |-> NoQuestion, platform |-> "", domains |-> <<>>, intent |-> "",
           found |-> {}, passages |-> {}, reply |-> "",
           answer |-> "", analysis |-> ""]

Init ==
    /\ stage = "crawled"
    /\ page \in Pages
    /\ doc = NoDoc
    /\ store = {}
    /\ turn = NoTurn

Reach(from, to) == stage = from /\ stage' = to

-----------------------------------------------------------------------------
(* Ingestion *)

\* Off, missing, failing: the crawled page is used as it is.
Render ==
    /\ Reach("crawled", "rendered")
    /\ page' \in {page, [page EXCEPT !.main = @ \o page.live]}
    /\ UNCHANGED <<doc, store, turn>>

\* A page without text ends its ingestion.
ExtractText ==
    /\ stage = "rendered"
    /\ LET text == Extract(page)
       IN  /\ stage' = IF Strip(text) = <<>> THEN "nothing" ELSE "extracted"
           /\ doc' = [doc EXCEPT !.text = text]
    /\ UNCHANGED <<page, store, turn>>

\* What a language model may return: all of the text, or its first half.
Returned(text) == {Strip(text), Strip(SubSeq(text, 1, Len(text) \div 2))}

\* The slice itself when the model fails or returns too little.
CleanSlice(slice) ==
    {slice} \cup {out \in Returned(slice) : Len(out) >= Max({AIMin, Len(slice) \div 5})}

\* What the model is given of a text.
Slice(text) == SubSeq(text, 1, Min({AIMax, Len(text)}))

\* What becomes of the text when its slice has become head: a line feed parts the
\* two, whether the model has changed the slice or not.
Rejoin(head, text) ==
    IF Len(text) <= AIMax THEN head
    ELSE Strip(head \o <<NL>> \o SubSeq(text, AIMax + 1, Len(text)))

\* A long text is cleaned up to AIMax only.
AIClean(text) == {Rejoin(head, text) : head \in CleanSlice(Slice(text))}

\* Rules always; the model if ai_cleaning is on.
Clean ==
    /\ Reach("extracted", "cleaned")
    /\ LET clean == RuleClean(doc.text)
       IN  \E text \in {clean} \cup AIClean(clean) :
              doc' = [doc EXCEPT !.text = text]
    /\ UNCHANGED <<page, store, turn>>

NormalizeText ==
    /\ Reach("cleaned", "normalized")
    /\ doc' = [doc EXCEPT !.text = Normalize(@)]
    /\ UNCHANGED <<page, store, turn>>

\* Chunk and enrich; a text without chunks ends its ingestion.
Chunk ==
    /\ stage = "normalized"
    /\ LET chunks == ChunkDocument(doc.text, page.title)
       IN  /\ stage' = IF chunks = <<>> THEN "nothing" ELSE "chunked"
           /\ doc' = [doc EXCEPT !.chunks = [i \in DOMAIN chunks |-> EnrichChunk(chunks[i])]]
    /\ UNCHANGED <<page, store, turn>>

DropDuplicates ==
    /\ Reach("chunked", "deduplicated")
    /\ doc' = [doc EXCEPT !.unique = Deduplicate(doc.chunks)]
    /\ UNCHANGED <<page, store, turn>>

\* The vector of a text; "nan" stands for what upsets the embedding model.
Vector(text) == [of |-> text, finite |-> "nan" \notin ToSet(text)]

\* Mutant of Sorted: the items are taken as they come.
SortedNot(items) == items

\* An item echoes the index of its text, and items come in any order.
Sorted(items) ==
    CHOOSE sorted \in [DOMAIN items -> ToSet(items)] :
        \A i, j \in DOMAIN items : i < j => sorted[i].index < sorted[j].index

\* The chunks without a vector that are embedded next.
Batch == SubSeq(doc.unique, Len(doc.embedded) + 1,
                Min({Len(doc.embedded) + BatchSize, Len(doc.unique)}))

EmbedBatch ==
    /\ stage = "deduplicated" /\ Batch # <<>>
    /\ \E order \in SetToSeqs(DOMAIN Batch) :
          LET items == Sorted([i \in DOMAIN Batch |->
                                  [index |-> order[i],
                                   vector |-> Vector(EmbeddingText(Batch[order[i]]))]])
          IN  doc' = [doc EXCEPT !.embedded = @ \o
                         [i \in DOMAIN Batch |-> [chunk |-> Batch[i], vector |-> items[i].vector]]]
    /\ UNCHANGED <<stage, page, store, turn>>

\* An error of the provider, or fewer vectors than texts.
EmbedFails ==
    /\ stage = "deduplicated" /\ Batch # <<>>
    /\ stage' = "failed"
    /\ UNCHANGED <<page, doc, store, turn>>

\* validate_embedded
IsValid(item) == Strip(item.chunk.text) # <<>> /\ item.vector.finite

\* _to_point
ToPoint(item) == [index |-> item.chunk.index, text |-> item.chunk.text,
                  domains |-> ToSet(item.chunk.domains), vector |-> item.vector]

\* Validate and index, points and rows.
Index ==
    /\ stage = "deduplicated" /\ Batch = <<>>
    /\ stage' = "stored"
    /\ store' = {ToPoint(item) : item \in {x \in ToSet(doc.embedded) : IsValid(x)}}
    /\ UNCHANGED <<page, doc, turn>>

-----------------------------------------------------------------------------
(* Answering *)

Ask ==
    /\ Reach("stored", "asked")
    /\ \E question \in Asked(page) : turn' = [turn EXCEPT !.question = question]
    /\ UNCHANGED <<page, doc, store>>

\* The platform is read from the question and the history, modules from the
\* question alone.
Detect ==
    /\ Reach("asked", "detected")
    /\ LET q == turn.question
           platform == DetectPlatform(q.text \o <<" ">> \o q.history)
       IN  turn' = [turn EXCEPT !.platform = platform,
                                !.domains = IF q.requested # <<>> THEN q.requested
                                            ELSE DetectModule(q.text, platform)]
    /\ UNCHANGED <<page, doc, store>>

Route ==
    /\ Reach("detected", "routed")
    /\ turn' = [turn EXCEPT !.intent = RouteIntent(turn.question.text, turn.domains)]
    /\ UNCHANGED <<page, doc, store>>

\* Both stores filter by domains, if there are any.
Allowed(domains) ==
    {p \in store : domains = <<>> \/ p.domains \cap ToSet(domains) # {}}

\* Every word but stop words is in the row, and there is one.
Matches(p, text) ==
    LET words == ToSet(Tokens(text)) \ StopWords
        lexemes == ToSet(p.text) \cup {w[2] : w \in {x \in Words : x[1] \in ToSet(p.text)}}
    IN  words # {} /\ words \subseteq lexemes

\* The ways to take the best up to limit of a set.
Best(set, limit) == kSubset(Min({limit, Cardinality(set)}), set)

\* The vector search, which finds any neighbours, and the full-text search;
\* their fusion keeps RerankCandidates.
Search ==
    /\ Reach("routed", "searched")
    /\ LET text == turn.question.text
           domains == IF turn.domains # <<>> THEN turn.domains
                      ELSE DomainsFor(text, turn.question.requested)
           rows == {p \in Allowed(domains) : Matches(p, text)}
       IN  \E vector \in Best(Allowed(domains), VectorTopK) :
           \E lexical \in Best(rows, LexicalTopK) :
           \E fused \in Best(vector \cup lexical, RerankCandidates) :
               turn' = [turn EXCEPT !.domains = domains, !.found = fused]
    /\ UNCHANGED <<page, doc, store>>

\* 0.7 * coverage + 0.3 * density, times ten times the words of the question.
OverlapScore(text, question) ==
    LET q == ToSet(Tokens(question))
        c == ToSet(Tokens(text))
        both == Cardinality(q \cap c)
    IN  IF c = {} THEN <<0, 1>>
        ELSE <<both * (7 * Cardinality(c) + 3 * Cardinality(q)), Cardinality(c)>>

Better(x, y) == x[1] * y[2] > y[1] * x[2]

Count(text, tokens) == Cardinality({i \in DOMAIN text : text[i] \in tokens})

\* More for long questions and for each clause, between 3 and 12.
AdaptiveTopK(text) ==
    LET words == Len(SelectSeq(text, LAMBDA t : t \notin Blank))
        clauses == Count(text, {",", "and", "vs"})
    IN  Max({3, Min({12, FinalTopK + words \div 25 + clauses})})

TopK(question) == IF question.topK # 0 THEN question.topK ELSE AdaptiveTopK(question.text)

\* The best of the candidates; ties are broken by their fused order.
Rerank ==
    /\ Reach("searched", "reranked")
    /\ LET text == turn.question.text
           score(p) == OverlapScore(p.text, text)
       IN  \E best \in Best(turn.found, TopK(turn.question)) :
              /\ \A p \in best, r \in turn.found \ best : ~Better(score(r), score(p))
              /\ turn' = [turn EXCEPT !.passages = best]
    /\ UNCHANGED <<page, doc, store>>

\* A sentence ends at a period that is followed by a space and a word; every
\* word may start one.
Sentences(text) ==
    LET last(i) == /\ text[i] = "." /\ text[i + 1] \in Blank
                   /\ LET after == Strip(SubSeq(text, i + 1, Len(text)))
                      IN  after # <<>> /\ Head(after) \notin Marks
        ends == SetToSortSeq({Len(text)} \cup {i \in 1 .. Len(text) - 1 : last(i)}, <)
        sentence(k) == Strip(SubSeq(text, IF k = 1 THEN 1 ELSE ends[k - 1] + 1, ends[k]))
    IN  SelectSeq([k \in DOMAIN ends |-> sentence(k)], LAMBDA s : s # <<>>)

LooksLikeCode(sentence) == Fence \in ToSet(sentence)

Coverage(sentence, question) ==
    Cardinality(ToSet(Tokens(sentence)) \cap ToSet(Tokens(question)))

\* Mutant of Relevant: code is scored as prose is.
RelevantProse(sentence, question, best) == 5 * Coverage(sentence, question) >= 3 * best

\* Code, and what scores at least 0.6 of the best sentence.
Relevant(sentence, question, best) ==
    LooksLikeCode(sentence) \/ 5 * Coverage(sentence, question) >= 3 * best

CompressChunk(text, question) ==
    LET sentences == Sentences(text)
        best == Max({0} \cup {Coverage(s, question) :
                                 s \in {x \in ToSet(sentences) : ~LooksLikeCode(x)}})
    IN  IF Len(sentences) <= 1 \/ Tokens(question) = <<>> THEN text
        ELSE Join(SelectSeq(sentences, LAMBDA s : Relevant(s, question, best)), <<" ">>)

Compress ==
    /\ Reach("reranked", "compressed")
    /\ turn' = [turn EXCEPT !.passages =
                   {[index |-> p.index, text |-> CompressChunk(p.text, turn.question.text)] :
                       p \in turn.passages}]
    /\ UNCHANGED <<page, doc, store>>

\* What a specialist's model may reply: nothing but blanks; prose; an object, alone,
\* fenced, inside prose, or after prose with a bracketed citation; a list; an
\* object without a section; one that cannot be rendered.
Replies == {"empty", "prose", "object", "fenced", "wrapped", "after citation", "list", "hollow", "odd"}

\* extract_json: the whole reply without its fence, or else from its first
\* bracket or brace to the last of that kind.
ExtractJson(reply) ==
    CASE reply \in {"object", "fenced", "wrapped", "hollow", "odd"} -> "object"
      [] reply = "list"                                             -> "list"
      [] reply \in {"empty", "prose", "after citation"}             -> "none"

\* What _render makes of an object: an odd one has a number where a list should
\* be or a score that is none, a hollow one has none of the sections.
BusinessText(reply) == IF reply = "hollow" THEN "" ELSE "rendered"

\* The readiness is always said, if only as unknown.
MarketplaceText(reply) == IF reply = "odd" THEN "raises" ELSE "rendered"

\* The domains of the question stand in for those the object lacks.
OverlapText(reply, domains) ==
    CASE reply = "odd"                       -> "raises"
      [] reply = "hollow" /\ domains = <<>> -> ""
      [] OTHER                               -> "rendered"

\* The reply, stripped.
Raw(reply) == IF reply = "empty" THEN "" ELSE "raw"

\* Mutant of AnswerOf: without the `or raw`.
AnswerOfRendered(rendered, reply) == rendered

AnswerOf(rendered, reply) == IF rendered = "" THEN Raw(reply) ELSE rendered

Draft(reply, answer, analysis) ==
    /\ stage' = "drafted"
    /\ turn' = [turn EXCEPT !.reply = reply, !.answer = answer, !.analysis = analysis]

\* A reply without an object is the answer as it is.
Unparsed(reply) == Draft(reply, Raw(reply), "unparsed")

\* What is rendered of an object, or else the reply as it is.
Parsed(reply, rendered) == Draft(reply, AnswerOf(rendered, reply), "object")

Fail == stage' = "failed" /\ UNCHANGED turn

\* The turn of a specialist.
Serves(intent) == stage = "compressed" /\ turn.intent = intent /\ UNCHANGED <<page, doc, store>>

BestPractices ==
    Serves("best_practice") /\ \E reply \in Replies : Draft(reply, Raw(reply), "")

Research ==
    Serves("research") /\ \E reply \in Replies : Draft(reply, Raw(reply), "")

BusinessAnalysis ==
    /\ Serves("business_analysis")
    /\ \E reply \in Replies :
          IF ExtractJson(reply) # "object" THEN Unparsed(reply)
          ELSE Parsed(reply, BusinessText(reply))

MarketplaceAssessment ==
    /\ Serves("marketplace")
    /\ \E reply \in Replies :
          IF ExtractJson(reply) # "object" THEN Unparsed(reply)
          ELSE IF MarketplaceText(reply) = "raises" THEN Fail
          ELSE Parsed(reply, MarketplaceText(reply))

FeatureOverlap ==
    /\ Serves("feature_overlap")
    /\ \E reply \in Replies :
          IF ExtractJson(reply) # "object" THEN Unparsed(reply)
          ELSE IF OverlapText(reply, turn.domains) = "raises" THEN Fail
          ELSE Parsed(reply, OverlapText(reply, turn.domains))

Next ==
    \/ Render \/ ExtractText \/ Clean \/ NormalizeText \/ Chunk \/ DropDuplicates
    \/ EmbedBatch \/ EmbedFails \/ Index
    \/ Ask \/ Detect \/ Route \/ Search \/ Rerank \/ Compress
    \/ BestPractices \/ Research \/ BusinessAnalysis \/ MarketplaceAssessment \/ FeatureOverlap

Spec == Init /\ [][Next]_vars

-----------------------------------------------------------------------------
(* Properties *)

\* Words and fences.
Ink(text) == Without(text, (Blank \cup Marks) \ {Fence})

Holds(text, part) ==
    \E i \in 0 .. Len(text) - Len(part) : SubSeq(text, i + 1, i + Len(part)) = part

\* The code elements that the extracted part of the page shows.
CodeOf(nodes) == {node.text : node \in {n \in ToSet(nodes) : n.tag \in {"pre", "p/code"}}}

\* Splitting neither loses, repeats nor reorders a word, every piece fits, code
\* that is not too large is in one piece, and a piece that is not too small ends
\* a chunk.
TextSurvives ==
    stage = "chunked" =>
        LET pieces == Pieces(doc.text)
        IN  /\ Ink(FlattenSeq(pieces)) = Ink(doc.text)
            /\ \A piece \in ToSet(pieces) :
                  /\ Len(piece) <= (IF IsCode(piece) THEN 2 ELSE 1) * ChunkSize
                  /\ Len(piece) >= MinChunk =>
                        \E i \in DOMAIN doc.chunks : IsSuffix(piece, doc.chunks[i].text)
            /\ \A segment \in ToSet(Segments(doc.text)) :
                  IsCode(segment) /\ Len(segment) <= 2 * ChunkSize => segment \in ToSet(pieces)

\* A code element between its fences.
Fenced(code) == <<Fence, NL>> \o Strip(code) \o <<NL, Fence>>

\* Every occurrence of a part of a text begins before AIMax and ends after it.
CutInTwo(text, part) ==
    \A i \in 0 .. Len(text) - Len(part) :
        SubSeq(text, i + 1, i + Len(part)) = part => i < AIMax /\ AIMax < i + Len(part)

\* "Protect code fences from line-level filtering" (clean.py:42): rules alone leave
\* all code of a page in the text, to the letter, even where its lines look like
\* navigation or repeat.  So does an AICleaner whose model fails or returns too
\* little, but for a code element that max_chars cuts in two: there it puts a line
\* feed all the same.  Normalizing then folds quotes and drops zero-width
\* characters and blanks at ends of lines, in code as elsewhere, and nothing else.
\* This is said of pages whose own words hold no fence, since one more fence turns
\* code and prose around, and not of texts that a model rewrote.
CodeSurvives ==
    stage \in {"cleaned", "normalized"}
    /\ (\A node \in ToSet(Container(page)) : Fence \notin ToSet(node.text)) =>
        LET clean == RuleClean(Extract(page))
            now(text) == IF stage = "cleaned" THEN text ELSE Normalize(text)
        IN  \A code \in CodeOf(Container(page)) :
              \/ doc.text = now(clean)
              \/ doc.text = now(Rejoin(Slice(clean), clean)) /\ ~CutInTwo(clean, Fenced(code))
              => Holds(doc.text, now(Fenced(code)))

\* Of near-duplicates the first is kept and nothing is dropped for the sake of a
\* chunk that was dropped itself; every point has the vector of its own chunk,
\* whatever the order of the answers and the borders of batches; only a bad
\* vector keeps a chunk out of the stores.
PointsAreTheirs ==
    stage = "stored" =>
        /\ \A chunk \in ToSet(doc.chunks) :
              chunk \notin ToSet(doc.unique)
                  <=> \E kept \in ToSet(doc.unique) : kept.index < chunk.index /\ Near(kept, chunk)
        /\ \A point \in store :
              \E chunk \in ToSet(doc.unique) :
                  /\ point.index = chunk.index /\ point.text = chunk.text
                  /\ point.vector = Vector(EmbeddingText(chunk))
        /\ \A chunk \in ToSet(doc.unique) :
              Vector(EmbeddingText(chunk)).finite
                  => \E point \in store : point.index = chunk.index

Platforms == {Packs[i].key : i \in DOMAIN Packs}

\* The domains a text calls by a name.
NamedIn(text, domains) ==
    {d \in ToSet(domains) : (ToSet(d.names) \cup {d.spelled}) \cap Terms(text) # {}}

\* A question that names one platform and one of its modules, by whichever name,
\* is searched with this platform's modules, that one among them; the hint for
\* its specialist never speaks of another platform.
ModulesAreRecognised ==
    stage = "detected" /\ turn.question.history = <<>> /\ turn.question.requested = <<>> =>
        LET text == turn.question.text
        IN  \A pack \in ToSet(Packs) :
              ToSet(text) \cap Platforms = {pack.key} =>
                  /\ turn.platform = pack.key
                  /\ \A d \in ToSet(pack.domains) :
                        ToSet(d.names) \cap ToSet(text) # {} => d.key \in ToSet(turn.domains)
                  /\ \A fact \in StructuralHint(turn.domains) :
                        {fact.a, fact.b} \cup fact.shared \subseteq {d.key : d \in ToSet(pack.domains)}

\* A stored chunk with all words of the question, and a module that the question
\* names if it names one, reaches the prompt together with its sentences that
\* say most about the question and those that show code, unless TopK other
\* chunks score as high: what ingestion tags and the searches filter agree.
EvidenceReachesTheModel ==
    stage = "compressed" /\ turn.question.requested = <<>> /\ turn.platform = DefaultPlatform =>
        LET text == turn.question.text
            asked == NamedIn(text, ActiveDomains)
            score(p) == OverlapScore(p.text, text)
            due == {p \in store : /\ Matches(p, text)
                                  /\ asked # {} => asked \cap NamedIn(p.text, ActiveDomains) # {}}
            most(p) == Max({Coverage(s, text) : s \in ToSet(Sentences(p.text))})
        IN  Cardinality(due) <= LexicalTopK =>
              \A p \in due :
                  \/ \E passage \in turn.passages :
                        /\ passage.index = p.index
                        /\ \A s \in ToSet(Sentences(p.text)) :
                              LooksLikeCode(s) \/ Coverage(s, text) = most(p) =>
                                  Holds(passage.text, s)
                  \/ TopK(turn.question) <=
                        Cardinality({r \in store \ {p} :
                            score(r)[1] * score(p)[2] >= score(p)[1] * score(r)[2]})

\* A specialist answers with nothing only if its model replied with nothing, and
\* then it does: no reply that says something is lost for want of sections, of an
\* object or of its kind of object, and no text stands in for an empty one.  What
\* was rendered is of an object, and an analysis is either an object or says that
\* it is none.
RepliesAreKept ==
    stage = "drafted" =>
        /\ turn.answer = "" <=> turn.reply = "empty"
        /\ turn.answer = "rendered" => turn.analysis = "object"
        /\ turn.analysis = "" <=> turn.intent \in {"best_practice", "research"}

\* A stored chunk that has all words of a question, and with it names a module
\* of the platform of the question, is found, whichever platform that is.
FoundOnEveryPlatform ==
    stage = "searched" /\ turn.question.requested = <<>> =>
        \A p \in store :
            /\ Matches(p, turn.question.text)
            /\ NamedIn(turn.question.text, PackOf(turn.platform).domains)
                  \cap NamedIn(p.text, PackOf(turn.platform).domains) # {}
            => turn.found # {}

=============================================================================
