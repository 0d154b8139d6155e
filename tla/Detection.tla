------------------------------ MODULE Detection ------------------------------
(***************************************************************************)
(* What is read out of a text before anything is searched: the platform it *)
(* speaks of, the modules it names, the intent of a question, and how      *)
(* modules overlap.  Pure functions of the text and of the catalogue.      *)
(*                                                                         *)
(* A text is a sequence of tokens: phrases, " ", line feeds and marks.     *)
(***************************************************************************)
EXTENDS Catalogue, Integers, FiniteSetsExt, SequencesExt

CONSTANT DefaultPlatform  \* packs.default

ASSUME DetectionAssumption == \E i \in DOMAIN Packs : Packs[i].key = DefaultPlatform

-----------------------------------------------------------------------------
(* Modules *)

Spaced(words) ==
    [i \in 1 .. 2 * Len(words) - 1 |-> IF i % 2 = 1 THEN words[(i + 1) \div 2] ELSE " "]

\* The phrases a text holds, inside words or not.
Terms(text) ==
    ToSet(text) \cup {pair[2] : pair \in {p \in Words \cup Inside : p[1] \in ToSet(text)}}

AtEdge(text, i) == i \in DOMAIN text => text[i] = " "

\* Between spaces, or at an end of the text.
Apart(phrase, text) ==
    \E i \in DOMAIN text :
        /\ text[i] = phrase \/ <<text[i], phrase>> \in Words
        /\ AtEdge(text, i - 1) /\ AtEdge(text, i + 1)

Weight(phrase, text, terms) ==
    IF phrase \notin terms THEN 0 ELSE IF Apart(phrase, text) THEN 2 ELSE 1

\* Mutant of DomainScore: aliases are not looked for.
DomainScoreByName(domain, text, terms) ==
    Weight(domain.names[1], text, terms) + Weight(domain.spelled, text, terms)

DomainScore(domain, text, terms) ==
    FoldLeft(LAMBDA sum, name : sum + Weight(name, text, terms),
             Weight(domain.spelled, text, terms), domain.names)

\* The keys of the domains that score, best first, up to limit; of equal scores
\* the one that the catalogue lists first leads.
DetectDomainsIn(text, domains, limit) ==
    LET terms == Terms(text)
        score == [i \in DOMAIN domains |-> DomainScore(domains[i], text, terms)]
        ranked == SetToSortSeq({i \in DOMAIN domains : score[i] > 0},
                               LAMBDA i, j : \/ score[i] > score[j]
                                             \/ score[i] = score[j] /\ i < j)
    IN  [k \in 1 .. Min({limit, Len(ranked)}) |-> domains[ranked[k]].key]

\* The registry's entry for a platform.
PackOf(platform) == CHOOSE pack \in ToSet(Packs) : pack.key = platform

\* _active_domains
ActiveDomains == PackOf(DefaultPlatform).domains

DetectModule(text, platform) == DetectDomainsIn(text, PackOf(platform).domains, 4)

\* The tags of a chunk: domains of the default pack, whatever its text is about.
DetectDomains(text, limit) == DetectDomainsIn(text, ActiveDomains, limit)

\* What the retrieval node falls back to when detection left it no domain.
DomainsFor(text, requested) ==
    IF requested # <<>> THEN requested ELSE DetectDomains(text, 4)

-----------------------------------------------------------------------------
(* Platforms *)

\* In eighths: a signal counts 1/2, a domain that is named 1/8, all of them at
\* most 1.
Confidence(pack, terms) ==
    LET signals == {s \in ToSet(pack.signals) : s \in terms}
        named == {i \in DOMAIN pack.domains : ToSet(pack.domains[i].names) \cap terms # {}}
    IN  Min({8, 4 * Cardinality(signals) + Cardinality(named)})

MIN_PLATFORM_CONFIDENCE == 4

\* The first of the packs with the highest confidence.
Strongest(confidence) ==
    Min({i \in DOMAIN Packs : \A j \in DOMAIN Packs : confidence[j] <= confidence[i]})

\* That one if it is sure enough, else the default.
DetectPlatform(text) ==
    LET terms == Terms(text)
        confidence == [i \in DOMAIN Packs |-> Confidence(Packs[i], terms)]
        best == Strongest(confidence)
    IN  IF confidence[best] >= MIN_PLATFORM_CONFIDENCE THEN Packs[best].key ELSE DefaultPlatform

-----------------------------------------------------------------------------
(* Intents *)

OverlapHints == {"difference between", "overlap", "compare", "or use"}

MarketplaceHints == {"store", "marketplace", "publish", "certification", "appsec",
                     "scoped app submission", "store readiness", "listing"}

BusinessHints == {"should we", "business case", "roi", "justify", "stakeholder", "adopt",
                  "rollout", "implement", "migrate", "process design"}

ResearchHints == {"research", "what's new", "whats new", "latest", "deep dive", "investigate"}

\* "vs" and "versus" are hints only as words of their own.
RouteIntent(text, domains) ==
    LET terms == Terms(text)
    IN  IF \/ OverlapHints \cap terms # {} \/ Len(domains) >= 2
           \/ Apart("vs", text) \/ Apart("versus", text)     THEN "feature_overlap"
        ELSE IF MarketplaceHints \cap terms # {}             THEN "marketplace"
        ELSE IF ResearchHints \cap terms # {}                THEN "research"
        ELSE IF BusinessHints \cap terms # {}                THEN "business_analysis"
        ELSE "best_practice"

-----------------------------------------------------------------------------
(* Overlap *)

\* analyze_overlap
Overlap(a, b) ==
    LET shared == a.related \cap b.related
    IN  [a |-> a.key, b |-> b.key, shared |-> shared,
         related |-> b.key \in a.related \/ a.key \in b.related \/ shared # {}]

\* _structural_hint: what the default pack's graph says of each pair of domains;
\* keys that it does not list say nothing.
StructuralHint(keys) ==
    {Overlap(pair[1], pair[2]) : pair \in
        {p \in ToSet(ActiveDomains) \X ToSet(ActiveDomains) :
            \E i \in DOMAIN keys : \E j \in i + 1 .. Len(keys) :
                p[1].key = keys[i] /\ p[2].key = keys[j]}}

=============================================================================
