---------------------------- MODULE CorpusProofs ----------------------------
(***************************************************************************)
(* What Corpus promises, for every set of runs, batches, URLs and bounds:  *)
(* crawls keep to robots.txt and their attempts, a half-built collection   *)
(* has a starter that knows, the documents of a command share the fate of  *)
(* its session, and a second copy of a page costs the death of a worker.   *)
(*                                                                         *)
(* A step of the corpus is a step of one run, which leaves the others      *)
(* untouched, or of one starter.  Many actions do the same to the state of *)
(* their run, so they are sorted by what they do before the invariant is   *)
(* looked at: a run moves on, takes a verdict, stores points or closes its *)
(* session.                                                                *)
(***************************************************************************)
EXTENDS Corpus, FiniteSetTheorems, TLAPS

\* The steps in which a run works on its URLs.
Fresh == {"crawl", "check", "upsert", "insert"}
Working == Fresh \cup {"next", "finish"}

-----------------------------------------------------------------------------
(* The crawl *)

\* The most requests of a crawl before attempt a.
Before(a) == (a - 1) * Chain

\* What the Crawler of w has asked for: for the page at work one chain of redirects
\* per attempt that is over, for the pages behind it nothing, and for a forbidden
\* page something in the absence of rules only.
CrawlInv(w) ==
    /\ crawl[w] = "none" <=> phase[w] # "crawl"
    /\ crawl[w] = "fetch" => attempt[w] > 0 /\ gets[w][Url(w)] <= Before(attempt[w])
    /\ \A k \in (pos[w] + 1)..Len(Batch[w]) : gets[w][Batch[w][k]] = 0
    /\ \A u \in Urls : RespectRobots /\ u \in Disallowed /\ gets[w][u] > 0 =>
           robots[w][HostOf[u]] = "none"

-----------------------------------------------------------------------------
(* The collection *)

\* The first part has one builder, who raises or goes on to the last.
CollectionInv ==
    /\ CollectionTypeOK
    /\ Exists /\ failed = {} =>
          \E s \in Starters :
              next[s] \in 2..Ready /\ \A k \in 1..(next[s] - 1) : Parts[k] \in collection

-----------------------------------------------------------------------------
(* Tries, verdicts and the session of a run *)

TriesInv(w) ==
    /\ w \in Clis => try[w] <= 1 /\ (phase[w] = "idle" => try[w] = 0)
    /\ w \in ArqJobs => try[w] <= crashes[w] + (IF phase[w] = "idle" THEN 0 ELSE 1)
    /\ phase[w] \in Working \cup {"acked"} => try[w] > 0
    /\ try[w] = 0 => broken[w] = 0 /\ report[w] = NoReports(w)
    /\ phase[w] = "acked" => w \in ArqJobs

\* The failure that aborted the session is in the reports; nothing is reported
\* of the URL at work and of those behind it.
SessionInv(w) ==
    /\ broken[w] > 0 => report[w][broken[w]] = "failed"
    /\ phase[w] \in {"upsert", "insert"} => broken[w] = 0
    /\ \A i \in 1..Len(Batch[w]) :
          i > pos[w] \/ (i = pos[w] /\ phase[w] \in Fresh) => report[w][i] = "none"

\* A document of try t at URL i.
DocInv(w, t, i) ==
    LET d == <<w, t, i>> IN
    /\ rows[d] # "none" => points[d] = "all"
    /\ t > try[w] => points[d] = "none"
    /\ t = try[w] =>
          /\ i > pos[w] \/ (i = pos[w] /\ phase[w] \in Fresh \ {"insert"}) =>
                points[d] = "none"
          /\ i = pos[w] /\ phase[w] = "insert" => points[d] = "all" /\ rows[d] = "none"
          /\ broken[w] \in 1..(i - 1) => points[d] = "none"
          /\ phase[w] \in Working /\ report[w][i] = "succeeded" => rows[d] = "draft"
          /\ phase[w] \in Working => rows[d] # "stored"
          /\ w \in Clis /\ rows[d] = "stored" => broken[w] = 0
    /\ rows[d] = "draft" => t = try[w] /\ phase[w] \in Working

\* What the exit code of a command and the row of a job tell.
VerdictInv(w) ==
    /\ w \in Clis /\ phase[w] # "ended" => exit[w] = "none"
    /\ w \in Clis /\ exit[w] = "clean" =>
          /\ try[w] = 1
          /\ \A i \in 1..Len(Batch[w]) :
                report[w][i] = "succeeded" => rows[<<w, 1, i>>] = "stored"
    /\ w \in ArqJobs /\ job[w] = "succeeded" =>
          /\ phase[w] \notin Working
          /\ report[w][1] = "succeeded" => try[w] > 0 /\ rows[<<w, try[w], 1>>] = "stored"

RunInv(w) ==
    /\ CrawlInv(w) /\ TriesInv(w) /\ SessionInv(w) /\ VerdictInv(w)
    /\ \A t \in 1..MaxTries, i \in 1..Len(Batch[w]) : DocInv(w, t, i)

CorpusInv == TypeOK /\ CollectionInv /\ \A w \in Runs : RunInv(w)

-----------------------------------------------------------------------------
(* Facts about the constants *)

\* The URLs of a run.
LEMMA BatchFacts ==
    ASSUME NEW w \in Runs
    PROVE  /\ Len(Batch[w]) \in Nat \ {0}
           /\ \A k \in 1..Len(Batch[w]) : Batch[w][k] \in Urls /\ HostOf[Batch[w][k]] \in Hosts
           /\ \A i, k \in 1..Len(Batch[w]) : Batch[w][i] = Batch[w][k] => i = k
           /\ w \in Clis <=> w \notin ArqJobs
           /\ w \in ArqJobs => Len(Batch[w]) = 1
<1>1. Batch[w] \in Seq(Urls) /\ Len(Batch[w]) > 0
    BY CorpusAssumption
<1>2. Len(Batch[w]) \in Nat /\ \A k \in 1..Len(Batch[w]) : Batch[w][k] \in Urls
    BY <1>1
<1>3. w \in Clis <=> w \notin ArqJobs
    BY CorpusAssumption
<1>4. w \in ArqJobs => Len(Batch[w]) = 1
    BY CorpusAssumption
<1>5. \A i, k \in 1..Len(Batch[w]) : Batch[w][i] = Batch[w][k] => i = k
  <2>1. CASE w \in Clis
    BY <2>1, CorpusAssumption
  <2>2. CASE w \in ArqJobs
    BY <2>2, <1>4
  <2> QED  BY <2>1, <2>2, <1>3
<1> QED  BY <1>1, <1>2, <1>3, <1>4, <1>5 DEF Hosts

\* The documents of a run, by try and place.
LEMMA DocFacts ==
    ASSUME NEW w \in Runs, NEW t \in 1..MaxTries, NEW i \in 1..Len(Batch[w])
    PROVE  <<w, t, i>> \in Docs
BY DEF Docs

\* A document belongs to a run, a try of it and a place in its batch.
LEMMA DocParts ==
    ASSUME NEW d \in Docs
    PROVE  /\ d[1] \in Runs /\ d[2] \in 1..MaxTries /\ d[3] \in 1..Len(Batch[d[1]])
           /\ d = <<d[1], d[2], d[3]>>
BY DEF Docs

\* The bounds are numbers.
LEMMA Tries == MaxTries \in Nat \ {0} /\ MaxCrashes \in Nat /\ MaxAttempts \in Nat \ {0}
BY CorpusAssumption, CrawlerAssumption

\* An attempt adds one chain of redirects at most, and no attempt exceeds the last.
LEMMA Requests ==
    /\ Chain \in Nat \ {0} /\ MaxAttempts * Chain \in Nat /\ Before(1) = 0
    /\ \A a \in 1..MaxAttempts :
          /\ Before(a) \in Nat /\ Before(a + 1) = Before(a) + Chain
          /\ Before(a + 1) <= MaxAttempts * Chain
<1>1. MaxAttempts \in Nat \ {0} /\ Chain \in Nat \ {0}
    BY CrawlerAssumption DEF Chain
<1>2. ASSUME NEW m \in Nat \ {0}, NEW c \in Nat \ {0}, NEW a \in 1..m
      PROVE  /\ (a - 1) * c \in Nat /\ m * c \in Nat
             /\ ((a + 1) - 1) * c = (a - 1) * c + c /\ ((a + 1) - 1) * c <= m * c
  <2>1. PICK d \in Nat : m = a + d
    <3>1. m - a \in Nat /\ m = a + (m - a)
      OBVIOUS
    <3> QED  BY <3>1
  <2>2. d * c \in Nat /\ a * c \in Nat /\ (a - 1) * c \in Nat /\ m * c \in Nat
    OBVIOUS
  <2>3. m * c = a * c + d * c /\ a * c = (a - 1) * c + c /\ (a + 1) - 1 = a
    BY <2>1
  <2> QED  BY <2>2, <2>3
<1>3. MaxAttempts * Chain \in Nat /\ Before(1) = 0
    BY <1>1 DEF Before
<1>4. ASSUME NEW a \in 1..MaxAttempts
      PROVE  /\ Before(a) \in Nat /\ Before(a + 1) = Before(a) + Chain
             /\ Before(a + 1) <= MaxAttempts * Chain
    BY <1>1, <1>2 DEF Before
<1> QED  BY <1>1, <1>3, <1>4

-----------------------------------------------------------------------------
(* The collection *)

\* The parts of a collection, in the order ensure_collection builds them.
LEMMA PartFacts == Len(Parts) = 4 /\ Ready = 5 /\ Parts[1] = "vectors"
    /\ AllParts = {Parts[1], Parts[2], Parts[3], Parts[4]}
<1>1. Len(Parts) = 4
    BY DEF Parts
<1> QED  BY <1>1 DEF Parts, Ready, AllParts

\* The first part has one builder: who finds it goes on or raises, who builds a
\* later one has built those before.
LEMMA StarterHolds ==
    ASSUME CollectionInv, NEW s \in Starters, StarterStep(s) \/ FailStart(s)
    PROVE  CollectionInv'
<1>1. CollectionTypeOK'
    BY PartFacts
       DEF CollectionInv, CollectionTypeOK, StarterStep, Look, Build, FailStart, AllParts
<1>2. CASE FailStart(s)
    BY <1>1, <1>2 DEF FailStart, CollectionInv
<1>3. CASE Look(s)
  <2> SUFFICES ASSUME Exists, failed = {}
               PROVE  (\E r \in Starters :
                   /\ next[r] \in 2..Ready
                   /\ \A k \in 1..(next[r] - 1) : Parts[k] \in collection)'
    BY <1>1, <1>3 DEF CollectionInv, Look, Exists
  <2>1. PICK r \in Starters :
            next[r] \in 2..Ready /\ \A k \in 1..(next[r] - 1) : Parts[k] \in collection
    BY DEF CollectionInv
  <2>2. next'[r] = next[r] /\ collection' = collection
    BY <1>3, <2>1, PartFacts DEF Look, CollectionInv, CollectionTypeOK
  <2> QED  BY <2>1, <2>2
<1>4. CASE Build(s)
  <2> SUFFICES ASSUME Exists', failed = {}
               PROVE  (\E r \in Starters :
                   /\ next[r] \in 2..Ready
                   /\ \A k \in 1..(next[r] - 1) : Parts[k] \in collection)'
    BY <1>1, <1>4 DEF CollectionInv, Build, Exists
  <2>1. CASE next[s] = 1
    <3>1. next'[s] = 2 /\ Parts[1] \in collection'
      BY <1>4, <2>1 DEF Build, CollectionInv, CollectionTypeOK
    <3> QED  BY <3>1, PartFacts
  <2>2. CASE next[s] # 1
    <3>1. Parts[next[s]] # "vectors"
      BY <1>4, <2>2, PartFacts DEF Build, Parts
    <3>2. Exists
      BY <3>1, <1>4 DEF Exists, Build
    <3>3. PICK r \in Starters :
              next[r] \in 2..Ready /\ \A k \in 1..(next[r] - 1) : Parts[k] \in collection
      BY <3>2 DEF CollectionInv
    <3>4. CASE r = s
      <4>1. /\ next'[s] = next[s] + 1 /\ Parts[next[s]] \in collection'
            /\ collection \subseteq collection'
        BY <1>4 DEF Build, CollectionInv, CollectionTypeOK
      <4>2. next'[s] \in 2..Ready
        BY <4>1, <3>3, <3>4, <1>4, PartFacts DEF Build
      <4> QED  BY <4>1, <4>2, <3>3, <3>4, PartFacts
    <3>5. CASE r # s
      BY <3>3, <3>5, <1>4 DEF Build, CollectionInv, CollectionTypeOK
    <3> QED  BY <3>4, <3>5
  <2> QED  BY <2>1, <2>2
<1> QED  BY <1>2, <1>3, <1>4 DEF StarterStep

\* A collection that was never started is not there.
LEMMA CollectionInitHolds == CollectionInit => CollectionInv
BY PartFacts DEF CollectionInit, CollectionInv, CollectionTypeOK, Exists

\* A collection with parts missing has a builder at work, or one that raised.
LEMMA BuiltOrRaised == CollectionInv => IncompleteCollectionIsKnown
<1> SUFFICES ASSUME CollectionInv, Exists, collection # AllParts
             PROVE  \E s \in Starters : s \in failed \/ next[s] \in 1..Len(Parts)
    BY DEF IncompleteCollectionIsKnown
<1>1. CASE failed # {}
    BY <1>1 DEF CollectionInv, CollectionTypeOK
<1>2. CASE failed = {}
  <2>1. PICK s \in Starters :
            next[s] \in 2..Ready /\ \A k \in 1..(next[s] - 1) : Parts[k] \in collection
    BY <1>2 DEF CollectionInv
  <2>2. next[s] # Ready
    BY <2>1, PartFacts DEF CollectionInv, CollectionTypeOK
  <2> QED  BY <2>1, <2>2, PartFacts
<1> QED  BY <1>1, <1>2

-----------------------------------------------------------------------------
(* The runs *)

\* Nothing of run w is touched.
Untouched(w) ==
    /\ phase'[w] = phase[w] /\ try'[w] = try[w] /\ pos'[w] = pos[w]
    /\ broken'[w] = broken[w] /\ report'[w] = report[w]
    /\ exit'[w] = exit[w] /\ job'[w] = job[w] /\ crashes'[w] = crashes[w]
    /\ robots'[w] = robots[w] /\ crawl'[w] = crawl[w]
    /\ attempt'[w] = attempt[w] /\ gets'[w] = gets[w]
    /\ \A t \in 1..MaxTries, i \in 1..Len(Batch[w]) :
          points'[<<w, t, i>>] = points[<<w, t, i>>] /\ rows'[<<w, t, i>>] = rows[<<w, t, i>>]

\* What a step does not touch stays as it was.
LEMMA UntouchedHolds ==
    ASSUME TypeOK, NEW w \in Runs, RunInv(w), Untouched(w)
    PROVE  RunInv(w)'
<1>1. CrawlInv(w)'
    BY DEF Untouched, RunInv, CrawlInv, Url
<1>2. TriesInv(w)'
    BY DEF Untouched, RunInv, TriesInv
<1>3. SessionInv(w)'
    BY DEF Untouched, RunInv, SessionInv
<1>4. VerdictInv(w)'
  <2>1. try[w] \in 0..MaxTries /\ 1 \in 1..MaxTries /\ 1 \in 1..Len(Batch[w])
    BY Tries, BatchFacts DEF TypeOK
  <2>2. \A i \in 1..Len(Batch[w]) : rows'[<<w, 1, i>>] = rows[<<w, 1, i>>]
    BY <2>1 DEF Untouched
  <2>3. try[w] > 0 => rows'[<<w, try[w], 1>>] = rows[<<w, try[w], 1>>]
    BY <2>1 DEF Untouched
  <2> QED  BY <2>2, <2>3 DEF Untouched, RunInv, VerdictInv
<1>5. ASSUME NEW t \in 1..MaxTries, NEW i \in 1..Len(Batch[w]) PROVE DocInv(w, t, i)'
  <2>1. DocInv(w, t, i)
    BY DEF RunInv
  <2> QED  BY <2>1 DEF Untouched, DocInv
<1> QED  BY <1>1, <1>2, <1>3, <1>4, <1>5 DEF RunInv

\* A step of one run is the only thing to look at.
LEMMA RunStep ==
    ASSUME CorpusInv, NEW w \in Runs, TypeOK', UNCHANGED collectionVars,
           \A q \in Runs : q # w => Untouched(q), RunInv(w)'
    PROVE  CorpusInv'
<1>1. CollectionInv'
    BY DEF CorpusInv, CollectionInv, CollectionTypeOK, collectionVars, Exists
<1>2. ASSUME NEW q \in Runs PROVE RunInv(q)'
    BY UntouchedHolds DEF CorpusInv
<1> QED  BY <1>1, <1>2 DEF CorpusInv

\* What there is to know of the run that takes a step.
LEMMA OfRun ==
    ASSUME CorpusInv, NEW w \in Runs
    PROVE  /\ TypeOK /\ RunInv(w)
           /\ Len(Batch[w]) \in Nat \ {0} /\ MaxTries \in Nat \ {0}
           /\ phase[w] \in Phases /\ try[w] \in 0..MaxTries /\ crashes[w] \in Nat
           /\ pos[w] \in 1..Len(Batch[w]) /\ broken[w] \in 0..Len(Batch[w])
           /\ report[w] \in [1..Len(Batch[w]) -> {"none", "empty"} \cup Verdicts]
           /\ Url(w) \in Urls /\ HostOf[Url(w)] \in Hosts
           /\ (try[w] > 0 => Doc(w) \in Docs)
<1>1. pos[w] \in 1..Len(Batch[w]) /\ try[w] \in 0..MaxTries
    BY DEF CorpusInv, TypeOK
<1>2. try[w] > 0 => Doc(w) \in Docs
  <2>1. ASSUME try[w] > 0 PROVE try[w] \in 1..MaxTries
    BY <1>1, <2>1, Tries
  <2> QED  BY <1>1, <2>1, DocFacts DEF Doc
<1>3. Url(w) \in Urls /\ HostOf[Url(w)] \in Hosts /\ Len(Batch[w]) \in Nat \ {0}
    BY <1>1, BatchFacts DEF Url
<1> QED  BY <1>1, <1>2, <1>3, Tries DEF CorpusInv, TypeOK

\* The end of a session settles its own drafts.
LEMMA SettleFacts ==
    ASSUME TypeOK, NEW w \in Runs, NEW as \in {"none", "stored"}, Settle(w, as)
    PROVE  /\ rows' \in [Docs -> {"none", "draft", "stored"}]
           /\ \A q \in Runs : \A t \in 1..MaxTries, i \in 1..Len(Batch[q]) :
                 rows'[<<q, t, i>>] = IF q = w /\ rows[<<q, t, i>>] = "draft" THEN as
                                      ELSE rows[<<q, t, i>>]
<1>1. rows' \in [Docs -> {"none", "draft", "stored"}]
    BY DEF Settle, TypeOK
<1>2. ASSUME NEW q \in Runs, NEW t \in 1..MaxTries, NEW i \in 1..Len(Batch[q])
      PROVE  rows'[<<q, t, i>>] = IF q = w /\ rows[<<q, t, i>>] = "draft" THEN as
                                  ELSE rows[<<q, t, i>>]
  <2>1. <<q, t, i>> \in Docs
    BY DocFacts
  <2> QED  BY <2>1 DEF Settle
<1> QED  BY <1>1, <1>2

\* The state of crawlers and collection stays typed when a crawl ends.
LEMMA CrawlEnds ==
    ASSUME TypeOK, NEW w \in Runs, UNCHANGED <<crawl, attempt>> \/ EndCrawl(w),
           UNCHANGED <<robots, gets, collectionVars>>
    PROVE  CrawlerTypeOK' /\ CollectionTypeOK'
<1>1. crawl' \in [Runs -> {"none", "fetch", "ok", "failed"}]
    BY DEF EndCrawl, TypeOK, CrawlerTypeOK
<1>2. attempt' \in [Runs -> 0..MaxAttempts]
  <2>1. 0 \in 0..MaxAttempts
    BY Tries
  <2>2. CASE EndCrawl(w)
    BY <2>1, <2>2 DEF EndCrawl, TypeOK, CrawlerTypeOK
  <2>3. CASE UNCHANGED <<crawl, attempt>>
    BY <2>3 DEF TypeOK, CrawlerTypeOK
  <2> QED  BY <2>2, <2>3
<1> QED  BY <1>1, <1>2 DEF TypeOK, CrawlerTypeOK, CollectionTypeOK, collectionVars

\* The document at work has no rows yet, and points only from the upsert on.
LEMMA NothingYet ==
    ASSUME CorpusInv, NEW w \in Runs, phase[w] \in Fresh
    PROVE  /\ Doc(w) \in Docs
           /\ points[Doc(w)] = (IF phase[w] = "insert" THEN "all" ELSE "none")
           /\ rows[Doc(w)] = "none"
<1>1. /\ try[w] \in 1..MaxTries /\ pos[w] \in 1..Len(Batch[w])
      /\ RunInv(w) /\ Doc(w) \in Docs /\ TypeOK
    BY OfRun DEF RunInv, TriesInv, Working
<1>2. DocInv(w, try[w], pos[w])
    BY <1>1 DEF RunInv
<1> QED  BY <1>1, <1>2 DEF DocInv, Doc, Fresh

-----------------------------------------------------------------------------
(* The steps of a run, by what they do to its state *)

\* The run goes on to its next step and writes nothing.
Moves(w, p) ==
    /\ GoTo(w, p)
    /\ UNCHANGED <<crawl, attempt>> \/ EndCrawl(w)
    /\ crawl'[w] = "none"
    /\ UNCHANGED <<try, pos, broken, report, exit, job, points, rows, crashes,
                   robots, gets, collectionVars>>

\* A run moves on and writes nothing.
LEMMA MovesHolds ==
    ASSUME CorpusInv, NEW w \in Runs, NEW p \in Phases, Moves(w, p),
           \/ phase[w] = "idle" /\ p = "ended" /\ w \in ArqJobs
           \/ phase[w] = "acked" /\ p = "ended"
           \/ phase[w] = "check" /\ p = "upsert" /\ broken[w] = 0
           \/ phase[w] = "crawl" /\ p = "check"
           \/ phase[w] = "next" /\ p = "finish"
    PROVE  CorpusInv'
<1> USE DEF Moves
<1>1. /\ TypeOK /\ RunInv(w) /\ phase'[w] = p /\ crashes[w] \in Nat /\ try[w] \in Nat
      /\ pos[w] \in 1..Len(Batch[w]) /\ Len(Batch[w]) \in Nat
    BY OfRun DEF GoTo, TypeOK
<1>2. TypeOK'
  <2>1. CrawlerTypeOK' /\ CollectionTypeOK'
    BY <1>1, CrawlEnds
  <2>2. phase' \in [Runs -> Phases]
    BY <1>1 DEF GoTo, TypeOK
  <2> QED  BY <1>1, <2>1, <2>2 DEF TypeOK
<1>3. ASSUME NEW q \in Runs, q # w PROVE Untouched(q)
    BY <1>1, <1>3 DEF Untouched, GoTo, EndCrawl, TypeOK, CrawlerTypeOK
<1>4. CrawlInv(w)'
    BY <1>1 DEF RunInv, CrawlInv, Url
<1>5. TriesInv(w)'
    BY <1>1, BatchFacts DEF RunInv, TriesInv, Working, Fresh
<1>6. SessionInv(w)'
    BY <1>1 DEF RunInv, SessionInv, Fresh
<1>7. ASSUME NEW t \in 1..MaxTries, NEW i \in 1..Len(Batch[w]) PROVE DocInv(w, t, i)'
  <2>1. DocInv(w, t, i)
    BY <1>1 DEF RunInv
  <2> QED  BY <1>1, <2>1 DEF DocInv, Fresh, Working
<1>8. VerdictInv(w)'
    BY <1>1, BatchFacts DEF RunInv, VerdictInv, Fresh, Working
<1> QED
    BY <1>1, <1>2, <1>3, <1>4, <1>5, <1>6, <1>7, <1>8, RunStep DEF RunInv

\* The run takes verdict v on the URL at work; b is its session's break then, p
\* and r what there is of the document.
Reports(w, v, b, p, r) ==
    /\ Report(w, v)
    /\ broken' = [broken EXCEPT ![w] = b]
    /\ points' = [points EXCEPT ![Doc(w)] = p]
    /\ rows' = [rows EXCEPT ![Doc(w)] = r]
    /\ UNCHANGED <<crawl, attempt>> \/ EndCrawl(w)
    /\ crawl'[w] = "none"
    /\ UNCHANGED <<try, pos, exit, job, crashes, robots, gets, collectionVars>>

\* A run takes a verdict on the URL at work.
LEMMA ReportsHolds ==
    ASSUME CorpusInv, NEW w \in Runs, NEW v \in {"empty"} \cup Verdicts,
           NEW b \in 0..Len(Batch[w]), NEW p \in {"none", "some", "all"},
           NEW r \in {"none", "draft"}, Reports(w, v, b, p, r), phase[w] \in Fresh,
           b = broken[w] \/ (broken[w] = 0 /\ b = pos[w] /\ v = "failed"),
           v = "succeeded" <=> r = "draft", r = "draft" => p = "all",
           p = "none" \/ broken[w] = 0
    PROVE  CorpusInv'
<1> USE DEF Reports
<1>1. /\ TypeOK /\ RunInv(w) /\ phase'[w] = "next" /\ broken'[w] = b
      /\ Len(Batch[w]) \in Nat /\ pos[w] \in 1..Len(Batch[w])
      /\ report[w] \in [1..Len(Batch[w]) -> {"none", "empty"} \cup Verdicts]
      /\ report'[w] = [report[w] EXCEPT ![pos[w]] = v]
    BY OfRun DEF GoTo, TypeOK, Report
<1>2. TypeOK'
  <2>1. CrawlerTypeOK' /\ CollectionTypeOK'
    BY <1>1, CrawlEnds
  <2>2. phase' \in [Runs -> Phases] /\ broken' \in [Runs -> Nat] /\ DOMAIN report' = Runs
    BY <1>1 DEF GoTo, Report, TypeOK, Phases
  <2>3. ASSUME NEW q \in Runs
        PROVE  /\ broken'[q] \in 0..Len(Batch[q])
               /\ report'[q] \in [1..Len(Batch[q]) -> {"none", "empty"} \cup Verdicts]
    BY <1>1 DEF Report, TypeOK
  <2>4. /\ points' \in [Docs -> {"none", "some", "all"}]
        /\ rows' \in [Docs -> {"none", "draft", "stored"}]
    BY <1>1 DEF TypeOK
  <2> QED  BY <1>1, <2>1, <2>2, <2>3, <2>4 DEF TypeOK
<1>3. ASSUME NEW q \in Runs, NEW t \in 1..MaxTries, NEW i \in 1..Len(Batch[q])
      PROVE  IF q = w /\ t = try[w] /\ i = pos[w]
             THEN points'[<<q, t, i>>] = p /\ rows'[<<q, t, i>>] = r
             ELSE /\ points'[<<q, t, i>>] = points[<<q, t, i>>]
                  /\ rows'[<<q, t, i>>] = rows[<<q, t, i>>]
  <2>1. <<q, t, i>> \in Docs
    BY DocFacts
  <2> QED  BY <1>1, <2>1 DEF Doc, TypeOK
<1>4. ASSUME NEW q \in Runs, q # w PROVE Untouched(q)
    BY <1>1, <1>3, <1>4 DEF Untouched, Report, GoTo, EndCrawl, TypeOK, CrawlerTypeOK
<1>5. CrawlInv(w)'
    BY <1>1 DEF RunInv, CrawlInv, Url
<1>6. TriesInv(w)' /\ try[w] > 0
    BY <1>1, BatchFacts DEF RunInv, TriesInv, Working, Fresh
<1>7. SessionInv(w)'
    BY <1>1 DEF RunInv, SessionInv, Fresh, TypeOK
<1>8. ASSUME NEW t \in 1..MaxTries, NEW i \in 1..Len(Batch[w]) PROVE DocInv(w, t, i)'
  <2>1. DocInv(w, t, i) /\ SessionInv(w)
    BY <1>1 DEF RunInv
  <2>2. CASE t = try[w] /\ i = pos[w]
    BY <1>1, <1>3, <2>1, <2>2 DEF DocInv, SessionInv, Fresh, Working
  <2>3. CASE ~(t = try[w] /\ i = pos[w])
    <3>1. points'[<<w, t, i>>] = points[<<w, t, i>>] /\ rows'[<<w, t, i>>] = rows[<<w, t, i>>]
      BY <1>3, <2>3
    <3>2. t = try[w] => report'[w][i] = report[w][i]
      BY <1>1, <2>3
    <3> QED  BY <1>1, <3>1, <3>2, <2>1, <2>3 DEF DocInv, SessionInv, Fresh, Working
  <2> QED  BY <2>2, <2>3
<1>9. VerdictInv(w)'
    BY <1>1, BatchFacts DEF RunInv, VerdictInv, Fresh, Working
<1> QED
    BY <1>1, <1>2, <1>4, <1>5, <1>6, <1>7, <1>8, <1>9, RunStep DEF RunInv

\* The upsert succeeds: the points are there, the rows come next.
LEMMA PointsHold ==
    ASSUME CorpusInv, NEW w \in Runs, phase[w] = "upsert", GoTo(w, "insert"),
           points' = [points EXCEPT ![Doc(w)] = "all"],
           UNCHANGED <<try, pos, broken, report, exit, job, rows, crashes, crawlVars,
                       collectionVars>>
    PROVE  CorpusInv'
<1>1. /\ TypeOK /\ RunInv(w) /\ phase'[w] = "insert" /\ crashes[w] \in Nat /\ try[w] \in Nat
      /\ pos[w] \in 1..Len(Batch[w]) /\ Len(Batch[w]) \in Nat
    BY OfRun DEF GoTo, TypeOK
<1>2. TypeOK'
  <2>1. CrawlerTypeOK' /\ CollectionTypeOK'
    BY <1>1 DEF TypeOK, CrawlerTypeOK, CollectionTypeOK, collectionVars, crawlVars
  <2>2. phase' \in [Runs -> Phases]
    BY <1>1 DEF GoTo, TypeOK, Phases
  <2>3. points' \in [Docs -> {"none", "some", "all"}]
    BY <1>1 DEF TypeOK
  <2> QED  BY <1>1, <2>1, <2>2, <2>3 DEF TypeOK
<1>3. ASSUME NEW q \in Runs, NEW t \in 1..MaxTries, NEW i \in 1..Len(Batch[q])
      PROVE  points'[<<q, t, i>>] = IF q = w /\ t = try[w] /\ i = pos[w] THEN "all"
                                    ELSE points[<<q, t, i>>]
  <2>1. <<q, t, i>> \in Docs
    BY DocFacts
  <2> QED  BY <1>1, <2>1 DEF Doc, TypeOK
<1>4. ASSUME NEW q \in Runs, q # w PROVE Untouched(q)
    BY <1>1, <1>3, <1>4 DEF Untouched, GoTo, TypeOK, crawlVars
<1>5. CrawlInv(w)'
    BY <1>1 DEF RunInv, CrawlInv, Url, crawlVars
<1>6. TriesInv(w)'
    BY <1>1, BatchFacts DEF RunInv, TriesInv, Working, Fresh
<1>7. SessionInv(w)' /\ broken[w] = 0
    BY <1>1 DEF RunInv, SessionInv, Fresh
<1>8. ASSUME NEW t \in 1..MaxTries, NEW i \in 1..Len(Batch[w]) PROVE DocInv(w, t, i)'
  <2>1. DocInv(w, t, i)
    BY <1>1 DEF RunInv
  <2>2. CASE t = try[w] /\ i = pos[w]
    BY <1>1, <1>3, <1>7, <2>1, <2>2 DEF DocInv, Fresh, Working
  <2>3. CASE ~(t = try[w] /\ i = pos[w])
    <3>1. points'[<<w, t, i>>] = points[<<w, t, i>>]
      BY <1>3, <2>3
    <3> QED  BY <1>1, <3>1, <2>1, <2>3 DEF DocInv, Fresh, Working
  <2> QED  BY <2>2, <2>3
<1>9. VerdictInv(w)'
    BY <1>1, BatchFacts DEF RunInv, VerdictInv, Fresh, Working
<1> QED
    BY <1>1, <1>2, <1>4, <1>5, <1>6, <1>7, <1>8, <1>9, RunStep DEF RunInv

\* The session of the run is closed, its rows become `as`; p is where the run
\* stands then, x the exit code, j the status of its job, c the deaths it has seen.
Closes(w, as, p, x, j, c) ==
    /\ GoTo(w, p)
    /\ Settle(w, as)
    /\ exit' = [exit EXCEPT ![w] = x]
    /\ job' = [job EXCEPT ![w] = j]
    /\ crashes' = [crashes EXCEPT ![w] = c]
    /\ \/ phase[w] # "crawl" /\ UNCHANGED <<crawl, attempt>>
       \/ EndCrawl(w)
    /\ UNCHANGED <<try, pos, broken, report, points, robots, gets, collectionVars>>

\* A run closes its session: the drafts are stored or dropped.
LEMMA ClosesHolds ==
    ASSUME CorpusInv, NEW w \in Runs, phase[w] \in Working \cup {"acked"},
           NEW as \in {"none", "stored"}, NEW p \in {"idle", "acked", "ended"},
           NEW x \in {"none", "clean", "dirty", "killed"},
           NEW j \in {"pending", "running"} \cup Verdicts, NEW c \in Nat,
           Closes(w, as, p, x, j, c),
           w \in Clis => p = "ended",
           (c = crashes[w] /\ p # "idle") \/ c = crashes[w] + 1,
           as = "stored" => broken[w] = 0 /\ phase[w] = "finish",
           w \in Clis /\ x = "clean" => as = "stored",
           j # job[w] => j = "failed" \/ as = "stored"
    PROVE  CorpusInv'
<1> USE DEF Closes
<1>1. /\ TypeOK /\ RunInv(w) /\ phase'[w] = p /\ crashes[w] \in Nat /\ try[w] \in 1..MaxTries
      /\ pos[w] \in 1..Len(Batch[w]) /\ Len(Batch[w]) \in Nat \ {0}
      /\ exit'[w] = x /\ job'[w] = j /\ crashes'[w] = c
      /\ broken[w] \in 0..Len(Batch[w]) /\ (w \in Clis <=> w \notin ArqJobs)
  <2>1. TypeOK /\ RunInv(w) /\ try[w] \in 0..MaxTries /\ Len(Batch[w]) \in Nat \ {0}
    BY OfRun
  <2>2. try[w] > 0
    BY <2>1 DEF RunInv, TriesInv
  <2> QED  BY <2>1, <2>2, BatchFacts DEF GoTo, TypeOK
<1>2. /\ rows' \in [Docs -> {"none", "draft", "stored"}]
      /\ \A q \in Runs : \A t \in 1..MaxTries, i \in 1..Len(Batch[q]) :
            rows'[<<q, t, i>>] = IF q = w /\ rows[<<q, t, i>>] = "draft" THEN as
                                 ELSE rows[<<q, t, i>>]
    BY <1>1, SettleFacts
<1>3. TypeOK'
  <2>1. CrawlerTypeOK' /\ CollectionTypeOK'
    BY <1>1, CrawlEnds
  <2>2. /\ phase' \in [Runs -> Phases] /\ crashes' \in [Runs -> Nat]
        /\ exit' \in [Runs -> {"none", "clean", "dirty", "killed"}]
        /\ job' \in [Runs -> {"pending", "running"} \cup Verdicts]
    BY <1>1 DEF GoTo, TypeOK, Phases
  <2> QED  BY <1>1, <1>2, <2>1, <2>2 DEF TypeOK
<1>4. ASSUME NEW q \in Runs, q # w PROVE Untouched(q)
  <2>1. \A t \in 1..MaxTries, i \in 1..Len(Batch[q]) : rows'[<<q, t, i>>] = rows[<<q, t, i>>]
    BY <1>2, <1>4
  <2>2. /\ phase'[q] = phase[q] /\ exit'[q] = exit[q] /\ job'[q] = job[q]
        /\ crashes'[q] = crashes[q]
    BY <1>1, <1>4 DEF GoTo, TypeOK
  <2>3. crawl'[q] = crawl[q] /\ attempt'[q] = attempt[q]
    BY <1>1, <1>4 DEF EndCrawl, TypeOK, CrawlerTypeOK
  <2> QED  BY <2>1, <2>2, <2>3 DEF Untouched
<1>5. CrawlInv(w)'
  <2>1. crawl'[w] = "none"
    BY <1>1 DEF EndCrawl, TypeOK, CrawlerTypeOK, RunInv, CrawlInv
  <2> QED  BY <1>1, <2>1 DEF RunInv, CrawlInv, Url
<1>6. TriesInv(w)'
    BY <1>1 DEF RunInv, TriesInv, Working, Fresh
<1>7. SessionInv(w)'
    BY <1>1 DEF RunInv, SessionInv, Fresh
<1>8. ASSUME NEW t \in 1..MaxTries, NEW i \in 1..Len(Batch[w]) PROVE DocInv(w, t, i)'
  <2>1. DocInv(w, t, i)
    BY <1>1 DEF RunInv
  <2>2. rows'[<<w, t, i>>] = IF rows[<<w, t, i>>] = "draft" THEN as ELSE rows[<<w, t, i>>]
    BY <1>2
  <2> QED  BY <1>1, <2>1, <2>2 DEF DocInv, Fresh, Working
<1>9. VerdictInv(w)'
  <2>1. ASSUME w \in Clis, x = "clean"
        PROVE  /\ try[w] = 1
               /\ \A i \in 1..Len(Batch[w]) :
                     report[w][i] = "succeeded" => rows'[<<w, 1, i>>] = "stored"
    <3>1. try[w] = 1
      BY <1>1, <2>1 DEF RunInv, TriesInv
    <3>2. ASSUME NEW i \in 1..Len(Batch[w]), report[w][i] = "succeeded"
          PROVE  rows'[<<w, 1, i>>] = "stored"
      <4>1. DocInv(w, 1, i)
        BY <1>1, <3>1 DEF RunInv
      <4> QED  BY <4>1, <1>1, <1>2, <2>1, <3>1, <3>2 DEF DocInv, Working
    <3> QED  BY <3>1, <3>2
  <2>2. ASSUME w \in ArqJobs, j = "succeeded", report[w][1] = "succeeded"
        PROVE  rows'[<<w, try[w], 1>>] = "stored"
    <3>1. DocInv(w, try[w], 1)
      BY <1>1 DEF RunInv
    <3>2. rows'[<<w, try[w], 1>>] = IF rows[<<w, try[w], 1>>] = "draft" THEN as
                                    ELSE rows[<<w, try[w], 1>>]
      <4>1. 1 \in 1..Len(Batch[w])
        BY <1>1
      <4>2. \A t \in 1..MaxTries, i \in 1..Len(Batch[w]) :
               rows'[<<w, t, i>>] = IF rows[<<w, t, i>>] = "draft" THEN as
                                    ELSE rows[<<w, t, i>>]
        BY <1>2
      <4>3. try[w] \in 1..MaxTries
        BY <1>1
      <4> QED  BY <4>1, <4>2, <4>3
    <3>3. CASE j = job[w]
      BY <3>1, <3>2, <3>3, <2>2, <1>1 DEF DocInv, RunInv, VerdictInv
    <3>4. CASE j # job[w]
      BY <3>1, <3>2, <3>4, <2>2, <1>1 DEF DocInv, Working
    <3> QED  BY <3>3, <3>4
  <2> QED  BY <1>1, <2>1, <2>2 DEF VerdictInv, Working, Fresh
<1> QED
    BY <1>1, <1>3, <1>4, <1>5, <1>6, <1>7, <1>8, <1>9, RunStep DEF RunInv

-----------------------------------------------------------------------------
(* The beginning of a run, its crawl and the next URL *)

\* A run begins, or an arq job begins again after its worker died.
LEMMA BeginHolds ==
    ASSUME CorpusInv, NEW w \in Runs, Begin(w)
    PROVE  CorpusInv'
<1> USE DEF Begin
<1>1. /\ TypeOK /\ RunInv(w) /\ crashes[w] \in Nat
      /\ try[w] \in 0..MaxTries /\ MaxTries \in Nat
      /\ phase'[w] = "crawl" /\ try'[w] = try[w] + 1 /\ pos'[w] = 1 /\ broken'[w] = 0
      /\ report'[w] = NoReports(w) /\ Len(Batch[w]) \in Nat \ {0}
      /\ job'[w] = (IF w \in ArqJobs THEN "running" ELSE job[w])
      /\ crawl'[w] = "fetch" /\ attempt'[w] = 1 /\ gets'[w] = NoGets
    BY OfRun DEF GoTo, TypeOK, CrawlerTypeOK, StartCrawl, Construct
<1>2. TypeOK'
  <2>1. CrawlerTypeOK' /\ CollectionTypeOK'
    <3>1. 0 \in 0..(MaxAttempts * Chain) /\ 1 \in 0..MaxAttempts
      BY Tries, Requests
    <3>2. gets' \in [Runs -> [Urls -> 0..(MaxAttempts * Chain)]]
      BY <1>1, <3>1 DEF Construct, NoGets, TypeOK, CrawlerTypeOK
    <3> QED
      BY <1>1, <3>1, <3>2
         DEF StartCrawl, Construct, NewCrawler, TypeOK, CrawlerTypeOK, CollectionTypeOK,
             collectionVars
  <2>2. /\ phase' \in [Runs -> Phases] /\ try' \in [Runs -> 0..MaxTries]
        /\ pos' \in [Runs -> Nat] /\ broken' \in [Runs -> Nat] /\ DOMAIN report' = Runs
        /\ job' \in [Runs -> {"pending", "running"} \cup Verdicts]
    BY <1>1 DEF GoTo, TypeOK, Phases
  <2>3. ASSUME NEW q \in Runs
        PROVE  /\ pos'[q] \in 1..Len(Batch[q]) /\ broken'[q] \in 0..Len(Batch[q])
               /\ report'[q] \in [1..Len(Batch[q]) -> {"none", "empty"} \cup Verdicts]
    BY <1>1 DEF TypeOK, NoReports
  <2> QED  BY <1>1, <2>1, <2>2, <2>3 DEF TypeOK
<1>3. ASSUME NEW q \in Runs, q # w PROVE Untouched(q)
    BY <1>1, <1>3 DEF Untouched, GoTo, StartCrawl, Construct, TypeOK, CrawlerTypeOK
<1>4. CrawlInv(w)'
    BY <1>1, BatchFacts, Requests DEF CrawlInv, Url, NoGets
<1>5. TriesInv(w)'
    BY <1>1 DEF RunInv, TriesInv, Working, Fresh
<1>6. SessionInv(w)'
    BY <1>1 DEF SessionInv, Fresh, NoReports
<1>7. ASSUME NEW t \in 1..MaxTries, NEW i \in 1..Len(Batch[w]) PROVE DocInv(w, t, i)'
  <2>1. DocInv(w, t, i)
    BY <1>1 DEF RunInv
  <2> QED  BY <1>1, <2>1 DEF DocInv, Fresh, Working, NoReports
<1>8. VerdictInv(w)'
    BY <1>1, BatchFacts DEF RunInv, VerdictInv, Fresh, Working
<1> QED
    BY <1>1, <1>2, <1>3, <1>4, <1>5, <1>6, <1>7, <1>8, RunStep DEF RunInv

\* The crawl of the next URL of a batch.
LEMMA NextUrlHolds ==
    ASSUME CorpusInv, NEW w \in Runs, phase[w] = "next", pos[w] < Len(Batch[w]),
           pos' = [pos EXCEPT ![w] = @ + 1], StartCrawl(w), GoTo(w, "crawl"),
           UNCHANGED <<try, broken, report, exit, job, points, rows, crashes,
                       robots, gets, collectionVars>>
    PROVE  CorpusInv'
<1>1. /\ TypeOK /\ RunInv(w) /\ crashes[w] \in Nat
      /\ try[w] \in 0..MaxTries /\ MaxTries \in Nat
      /\ phase'[w] = "crawl" /\ pos'[w] = pos[w] + 1
      /\ Len(Batch[w]) \in Nat \ {0} /\ pos[w] \in 1..Len(Batch[w])
      /\ crawl'[w] = "fetch" /\ attempt'[w] = 1
    BY OfRun DEF GoTo, TypeOK, CrawlerTypeOK, StartCrawl
<1>2. TypeOK'
  <2>1. CrawlerTypeOK' /\ CollectionTypeOK'
    <3>1. crawl' \in [Runs -> {"none", "fetch", "ok", "failed"}]
      BY <1>1 DEF StartCrawl, TypeOK, CrawlerTypeOK
    <3>2. attempt' \in [Runs -> 0..MaxAttempts]
      <4>1. 1 \in 0..MaxAttempts
        BY Tries
      <4> QED  BY <4>1, <1>1 DEF StartCrawl, TypeOK, CrawlerTypeOK
    <3> QED
      BY <1>1, <3>1, <3>2 DEF TypeOK, CrawlerTypeOK, CollectionTypeOK, collectionVars
  <2>2. phase' \in [Runs -> Phases]
    BY <1>1 DEF GoTo, TypeOK, Phases
  <2>3. pos' \in [Runs -> Nat]
    BY <1>1 DEF TypeOK
  <2>4. ASSUME NEW q \in Runs PROVE pos'[q] \in 1..Len(Batch[q])
    BY <1>1 DEF TypeOK
  <2> QED  BY <1>1, <2>1, <2>2, <2>4, <2>3 DEF TypeOK
<1>3. ASSUME NEW q \in Runs, q # w PROVE Untouched(q)
    BY <1>1, <1>3 DEF Untouched, GoTo, StartCrawl, TypeOK, CrawlerTypeOK
<1>4. CrawlInv(w)'
  <2>1. gets[w][Batch[w][pos[w] + 1]] = 0 /\ Before(1) = 0
    BY <1>1, Requests DEF RunInv, CrawlInv
  <2> QED  BY <1>1, <2>1 DEF RunInv, CrawlInv, Url
<1>5. TriesInv(w)'
    BY <1>1 DEF RunInv, TriesInv, Working, Fresh
<1>6. SessionInv(w)'
    BY <1>1 DEF RunInv, SessionInv, Fresh
<1>7. ASSUME NEW t \in 1..MaxTries, NEW i \in 1..Len(Batch[w]) PROVE DocInv(w, t, i)'
  <2>1. DocInv(w, t, i)
    BY <1>1 DEF RunInv
  <2> QED  BY <1>1, <2>1 DEF DocInv, Fresh, Working
<1>8. VerdictInv(w)'
    BY <1>1, BatchFacts DEF RunInv, VerdictInv, Fresh, Working
<1> QED
    BY <1>1, <1>2, <1>3, <1>4, <1>5, <1>6, <1>7, <1>8, RunStep DEF RunInv

\* A request for the page at work, or for the robots.txt of its host.
LEMMA CrawlStepHolds ==
    ASSUME CorpusInv, NEW w \in Runs, phase[w] = "crawl", CrawlStep(w, Url(w)),
           UNCHANGED <<runVars, collectionVars>>
    PROVE  CorpusInv'
<1> USE DEF runVars
<1>1. PICK u \in Urls : u = Url(w)
    BY OfRun
<1>2. /\ TypeOK /\ RunInv(w) /\ CrawlerTypeOK
      /\ Len(Batch[w]) \in Nat /\ pos[w] \in 1..Len(Batch[w])
      /\ u = Batch[w][pos[w]] /\ HostOf[u] \in Hosts /\ CrawlStep(w, u)
    BY <1>1, OfRun DEF TypeOK, Url
<1>3. /\ crawl[w] = "fetch" /\ gets[w][u] <= Before(attempt[w])
      /\ gets[w] \in [Urls -> 0..(MaxAttempts * Chain)] /\ attempt[w] \in 1..MaxAttempts
      /\ robots[w] \in [Hosts -> {"unread", "none", "parsed"}]
  <2>1. crawl[w] = "fetch"
    BY <1>2 DEF CrawlStep, ReadRobots, Refuse, Fetch
  <2>2. attempt[w] > 0 /\ gets[w][u] <= Before(attempt[w])
    BY <1>1, <1>2, <2>1 DEF RunInv, CrawlInv
  <2>3. /\ gets[w] \in [Urls -> 0..(MaxAttempts * Chain)] /\ attempt[w] \in 0..MaxAttempts
        /\ robots[w] \in [Hosts -> {"unread", "none", "parsed"}]
    BY <1>2 DEF CrawlerTypeOK
  <2> QED  BY <2>1, <2>2, <2>3, Tries
<1>4. ASSUME ReadRobots(w, u)
      PROVE  TypeOK' /\ CrawlInv(w)' /\ \A q \in Runs : q # w => Untouched(q)
  <2>1. PICK found \in {"none", "parsed"} : robots' = [robots EXCEPT ![w][HostOf[u]] = found]
    BY <1>4 DEF ReadRobots
  <2>2. TypeOK'
    BY <1>2, <1>3, <1>4, <2>1
       DEF ReadRobots, TypeOK, CrawlerTypeOK, CollectionTypeOK, collectionVars
  <2>3. CrawlInv(w)'
    <3>1. RespectRobots => robots[w][HostOf[u]] = "unread"
      BY <1>4 DEF ReadRobots, Consulted
    <3>2. robots'[w] = [robots[w] EXCEPT ![HostOf[u]] = found]
      BY <1>2, <2>1 DEF CrawlerTypeOK
    <3>3. UNCHANGED <<phase, pos>> /\ UNCHANGED <<crawl, attempt, gets>>
      BY <1>4 DEF ReadRobots
    <3>4. ASSUME NEW x \in Urls, RespectRobots, x \in Disallowed, gets[w][x] > 0
          PROVE  robots'[w][HostOf[x]] = "none"
      <4>1. robots[w][HostOf[x]] = "none"
        BY <1>2, <3>4 DEF RunInv, CrawlInv
      <4>2. HostOf[x] # HostOf[u]
        BY <3>1, <3>4, <4>1
      <4> QED  BY <1>3, <3>2, <4>1, <4>2
    <3> QED  BY <1>2, <3>3, <3>4 DEF RunInv, CrawlInv, Url
  <2>4. ASSUME NEW q \in Runs, q # w PROVE Untouched(q)
    BY <1>2, <1>4, <2>1, <2>4 DEF Untouched, ReadRobots, CrawlerTypeOK
  <2> QED  BY <2>2, <2>3, <2>4
<1>5. ASSUME Refuse(w, u)
      PROVE  TypeOK' /\ CrawlInv(w)' /\ \A q \in Runs : q # w => Untouched(q)
  <2>1. TypeOK'
    BY <1>2, <1>5 DEF Refuse, TypeOK, CrawlerTypeOK, CollectionTypeOK, collectionVars
  <2>2. CrawlInv(w)'
    BY <1>2, <1>5 DEF Refuse, RunInv, CrawlInv, Url, CrawlerTypeOK
  <2>3. ASSUME NEW q \in Runs, q # w PROVE Untouched(q)
    BY <1>2, <1>5, <2>3 DEF Untouched, Refuse, CrawlerTypeOK
  <2> QED  BY <2>1, <2>2, <2>3
<1>6. ASSUME Fetch(w, u)
      PROVE  TypeOK' /\ CrawlInv(w)' /\ \A q \in Runs : q # w => Untouched(q)
  <2>1. /\ crawl'[w] \in {"fetch", "ok", "failed"} /\ attempt'[w] \in 0..MaxAttempts
        /\ crawl'[w] = "fetch" => attempt'[w] = attempt[w] + 1
    BY <1>2, <1>3, <1>6, Tries DEF Fetch, CrawlerTypeOK
  <2>2. PICK n \in 1..Chain : gets' = [gets EXCEPT ![w][u] = @ + n]
    BY <1>6 DEF Fetch
  <2>6. /\ gets[w][u] + n \in 0..(MaxAttempts * Chain)
        /\ gets[w][u] + n <= Before(attempt[w] + 1)
    <3>1. /\ Before(attempt[w]) \in Nat /\ Chain \in Nat /\ MaxAttempts * Chain \in Nat
          /\ Before(attempt[w] + 1) = Before(attempt[w]) + Chain
          /\ Before(attempt[w] + 1) <= MaxAttempts * Chain
      BY <1>3, Requests
    <3>2. gets[w][u] \in 0..(MaxAttempts * Chain)
      BY <1>3
    <3> DEFINE most == MaxAttempts * Chain
    <3> HIDE DEF most
    <3>3. /\ most \in Nat /\ Before(attempt[w] + 1) <= most /\ gets[w][u] \in 0..most
      BY <3>1, <3>2 DEF most
    <3>4. gets[w][u] + n \in 0..most /\ gets[w][u] + n <= Before(attempt[w] + 1)
      BY <1>3, <3>1, <3>3
    <3> QED  BY <3>4 DEF most
  <2>3. TypeOK'
    <3>1. gets' \in [Runs -> [Urls -> 0..(MaxAttempts * Chain)]]
      <4> DEFINE most == 0..(MaxAttempts * Chain)
      <4>1. gets \in [Runs -> [Urls -> most]] /\ gets[w][u] + n \in most
        BY <1>2, <2>6 DEF CrawlerTypeOK
      <4> HIDE DEF most
      <4>2. gets' \in [Runs -> [Urls -> most]]
        BY <2>2, <4>1
      <4> QED  BY <4>2 DEF most
    <3>2. crawl' \in [Runs -> {"none", "fetch", "ok", "failed"}]
      BY <1>2, <1>6 DEF Fetch, CrawlerTypeOK
    <3>3. attempt' \in [Runs -> 0..MaxAttempts]
      <4>1. \/ attempt' = attempt
            \/ attempt[w] + 1 \in 0..MaxAttempts /\ attempt' = [attempt EXCEPT ![w] = @ + 1]
        BY <1>3, <1>6, Tries DEF Fetch
      <4> QED  BY <1>2, <4>1 DEF CrawlerTypeOK
    <3> QED
      BY <1>2, <1>6, <3>1, <3>2, <3>3
         DEF Fetch, TypeOK, CrawlerTypeOK, CollectionTypeOK, collectionVars
  <2>4. CrawlInv(w)'
    <3>1. RespectRobots /\ u \in Disallowed => robots[w][HostOf[u]] = "none"
      BY <1>6 DEF Fetch, Allowed
    <3>2. \A k \in (pos[w] + 1)..Len(Batch[w]) : Batch[w][k] # u /\ Batch[w][k] \in Urls
      BY <1>2, BatchFacts
    <3>3. UNCHANGED <<phase, pos, robots>>
      BY <1>6 DEF Fetch
    <3>4. gets'[w][u] = gets[w][u] + n /\ \A x \in Urls : x # u => gets'[w][x] = gets[w][x]
      BY <1>2, <1>3, <2>2 DEF CrawlerTypeOK
    <3>5. crawl'[w] # "none" /\ phase[w] = "crawl"
      BY <2>1
    <3>6. crawl'[w] = "fetch" => attempt'[w] > 0 /\ gets'[w][Url(w)] <= Before(attempt'[w])
      BY <1>1, <1>3, <2>1, <2>6, <3>4
    <3>7. \A k \in (pos[w] + 1)..Len(Batch[w]) : gets'[w][Batch[w][k]] = 0
      BY <1>2, <3>2, <3>4 DEF RunInv, CrawlInv
    <3>8. ASSUME NEW x \in Urls, RespectRobots, x \in Disallowed, gets'[w][x] > 0
          PROVE  robots[w][HostOf[x]] = "none"
      BY <1>2, <3>1, <3>4, <3>8 DEF RunInv, CrawlInv
    <3> QED  BY <3>3, <3>5, <3>6, <3>7, <3>8 DEF CrawlInv, Url
  <2>5. ASSUME NEW q \in Runs, q # w PROVE Untouched(q)
    BY <1>2, <1>6, <2>5 DEF Untouched, Fetch, CrawlerTypeOK
  <2> QED  BY <2>3, <2>4, <2>5
<1>7. TypeOK' /\ CrawlInv(w)' /\ \A q \in Runs : q # w => Untouched(q)
    BY <1>2, <1>4, <1>5, <1>6 DEF CrawlStep
<1>8. TriesInv(w)' /\ SessionInv(w)'
    BY <1>2 DEF RunInv, TriesInv, SessionInv
<1>9. VerdictInv(w)'
    BY <1>2 DEF RunInv, VerdictInv
<1>10. ASSUME NEW t \in 1..MaxTries, NEW i \in 1..Len(Batch[w]) PROVE DocInv(w, t, i)'
  <2>1. DocInv(w, t, i)
    BY <1>2 DEF RunInv
  <2> QED  BY <2>1 DEF DocInv
<1> QED  BY <1>7, <1>8, <1>9, <1>10, RunStep DEF RunInv

-----------------------------------------------------------------------------
(* The actions *)

\* The crawl of the URL at work, to its end.
LEMMA CrawlHolds ==
    ASSUME CorpusInv, NEW w \in Runs, Crawl(w)
    PROVE  CorpusInv'
<1>1. TypeOK /\ RunInv(w) /\ phase[w] = "crawl" /\ try[w] > 0 /\ Doc(w) \in Docs
    BY OfRun DEF Crawl, RunInv, TriesInv, Working, Fresh
<1>2. CASE CrawlStep(w, Url(w)) /\ UNCHANGED <<phase, report>>
    BY <1>1, <1>2, CrawlStepHolds DEF Crawl, runVars
<1>3. ASSUME crawl[w] = "ok", EndCrawl(w), GoTo(w, "check"), UNCHANGED <<robots, gets, report>>
      PROVE  CorpusInv'
  <2>1. Moves(w, "check")
    BY <1>1, <1>3 DEF Crawl, Moves, EndCrawl, TypeOK, CrawlerTypeOK
  <2> QED  BY <1>1, <2>1, MovesHolds DEF Phases
<1>4. ASSUME crawl[w] = "failed", EndCrawl(w), Report(w, "failed"), UNCHANGED <<robots, gets>>
      PROVE  CorpusInv'
  <2>1. PICK b \in 0..Len(Batch[w]) : b = broken[w]
    BY OfRun
  <2>2. points[Doc(w)] = "none" /\ rows[Doc(w)] = "none"
    BY <1>1, NothingYet DEF Fresh
  <2>3. Reports(w, "failed", b, "none", "none")
    BY <1>1, <1>4, <2>1, <2>2 DEF Crawl, Reports, EndCrawl, TypeOK, CrawlerTypeOK
  <2> QED  BY <1>1, <2>1, <2>3, ReportsHolds DEF Fresh, Verdicts
<1> QED  BY <1>2, <1>3, <1>4 DEF Crawl

\* Parsing and the search for a known checksum.
LEMMA CheckHolds ==
    ASSUME CorpusInv, NEW w \in Runs, Check(w)
    PROVE  CorpusInv'
<1>1. /\ TypeOK /\ RunInv(w) /\ phase[w] = "check" /\ crawl[w] = "none"
      /\ pos[w] \in 0..Len(Batch[w])
      /\ broken[w] \in 0..Len(Batch[w])
    BY OfRun DEF Check, RunInv, CrawlInv
<1>2. points[Doc(w)] = "none" /\ rows[Doc(w)] = "none"
    BY <1>1, NothingYet DEF Fresh
<1>3. ASSUME NEW v \in {"failed", "empty"}, Report(w, v), UNCHANGED broken
      PROVE  CorpusInv'
  <2>1. PICK b \in 0..Len(Batch[w]) : b = broken[w]
    BY <1>1
  <2>2. Reports(w, v, b, "none", "none")
    BY <1>1, <1>2, <1>3, <2>1 DEF Check, Reports, TypeOK, crawlVars
  <2> QED  BY <1>1, <2>1, <2>2, ReportsHolds DEF Fresh, Verdicts
<1>4. CASE Abort(w)
  <2>1. PICK b \in 0..Len(Batch[w]) : b = IF broken[w] = 0 THEN pos[w] ELSE broken[w]
    BY <1>1
  <2>2. Reports(w, "failed", b, "none", "none")
    BY <1>1, <1>2, <1>4, <2>1 DEF Check, Abort, Reports, TypeOK, crawlVars
  <2> QED  BY <1>1, <2>1, <2>2, ReportsHolds DEF Fresh, Verdicts
<1>5. CASE broken[w] = 0 /\ GoTo(w, "upsert") /\ UNCHANGED <<broken, report>>
  <2>1. Moves(w, "upsert")
    BY <1>1, <1>5 DEF Check, Moves, GoTo, crawlVars
  <2> QED  BY <1>1, <1>5, <2>1, MovesHolds DEF Phases
<1> QED  BY <1>3, <1>4, <1>5 DEF Check

\* The upsert of the points, with its failures.
LEMMA UpsertHolds ==
    ASSUME CorpusInv, NEW w \in Runs, Upsert(w)
    PROVE  CorpusInv'
<1>1. /\ TypeOK /\ RunInv(w) /\ phase[w] = "upsert" /\ crawl[w] = "none" /\ broken[w] = 0
      /\ 0 \in 0..Len(Batch[w])
    BY OfRun DEF Upsert, RunInv, CrawlInv, SessionInv
<1>2. points[Doc(w)] = "none" /\ rows[Doc(w)] = "none"
    BY <1>1, NothingYet DEF Fresh
<1>3. ASSUME NEW p \in {"none", "some", "all"}, points' = [points EXCEPT ![Doc(w)] = p],
             Report(w, "failed")
      PROVE  CorpusInv'
  <2>1. Reports(w, "failed", 0, p, "none")
    BY <1>1, <1>2, <1>3 DEF Upsert, Reports, TypeOK, crawlVars
  <2> QED  BY <1>1, <2>1, ReportsHolds DEF Fresh, Verdicts
<1>4. CASE UNCHANGED points /\ Report(w, "failed")
  <2>1. points' = [points EXCEPT ![Doc(w)] = "none"]
    BY <1>1, <1>2, <1>4 DEF TypeOK
  <2> QED  BY <2>1, <1>3, <1>4
<1>5. CASE points' = [points EXCEPT ![Doc(w)] = "all"] /\ GoTo(w, "insert") /\ UNCHANGED report
    BY <1>1, <1>5, PointsHold DEF Upsert
<1> QED  BY <1>3, <1>4, <1>5 DEF Upsert

\* The rows of the document, with their failures.
LEMMA InsertHolds ==
    ASSUME CorpusInv, NEW w \in Runs, Insert(w)
    PROVE  CorpusInv'
<1>1. /\ TypeOK /\ RunInv(w) /\ phase[w] = "insert" /\ crawl[w] = "none" /\ broken[w] = 0
      /\ 0 \in 0..Len(Batch[w]) /\ pos[w] \in 0..Len(Batch[w])
    BY OfRun DEF Insert, RunInv, CrawlInv, SessionInv
<1>2. points[Doc(w)] = "all" /\ rows[Doc(w)] = "none"
    BY <1>1, NothingYet DEF Fresh
<1>3. CASE /\ rows' = [rows EXCEPT ![Doc(w)] = "draft"]
           /\ Report(w, "succeeded") /\ UNCHANGED broken
  <2>1. Reports(w, "succeeded", 0, "all", "draft")
    BY <1>1, <1>2, <1>3 DEF Insert, Reports, TypeOK, crawlVars
  <2> QED  BY <1>1, <2>1, ReportsHolds DEF Fresh, Verdicts
<1>4. CASE Abort(w) /\ UNCHANGED rows
  <2>1. PICK b \in 0..Len(Batch[w]) : b = pos[w]
    BY <1>1
  <2>2. Reports(w, "failed", b, "all", "none")
    BY <1>1, <1>2, <1>4, <2>1 DEF Insert, Abort, Reports, TypeOK, crawlVars
  <2> QED  BY <1>1, <2>1, <2>2, ReportsHolds DEF Fresh, Verdicts
<1> QED  BY <1>3, <1>4 DEF Insert

\* The command commits and exits.
LEMMA FinishCliHolds ==
    ASSUME CorpusInv, NEW w \in Runs, FinishCli(w)
    PROVE  CorpusInv'
<1>1. /\ TypeOK /\ RunInv(w) /\ phase[w] = "finish" /\ w \in Clis
    BY OfRun DEF FinishCli
<1>2. PICK as \in {"none", "stored"} :
         /\ Settle(w, as)
         /\ as = "stored" => broken[w] = 0
         /\ exit'[w] = "clean" => as = "stored"
  <2>1. broken[w] > 0 => \E i \in 1..Len(Batch[w]) : report[w][i] = "failed"
    BY <1>1, OfRun DEF RunInv, SessionInv
  <2>2. broken[w] \in Nat
    BY <1>1 DEF TypeOK
  <2> QED  BY <1>1, <2>1, <2>2 DEF FinishCli, TypeOK
<1>3. PICK x \in {"clean", "dirty"} : exit' = [exit EXCEPT ![w] = x]
    BY DEF FinishCli
<1>4. PICK j \in {"pending", "running"} \cup Verdicts : j = job[w]
    BY <1>1 DEF TypeOK
<1>5. PICK c \in Nat : c = crashes[w]
    BY <1>1 DEF TypeOK
<1>6. exit'[w] = x
    BY <1>1, <1>3 DEF TypeOK
<1>7. Closes(w, as, "ended", x, j, c)
    BY <1>1, <1>2, <1>3, <1>4, <1>5 DEF FinishCli, Closes, TypeOK, crawlVars
<1> QED
    BY <1>1, <1>2, <1>4, <1>5, <1>6, <1>7, ClosesHolds DEF Working

\* The job commits its verdict.
LEMMA FinishJobHolds ==
    ASSUME CorpusInv, NEW w \in Runs, FinishJob(w)
    PROVE  CorpusInv'
<1>1. /\ TypeOK /\ RunInv(w) /\ phase[w] = "finish" /\ w \notin Clis
    BY OfRun, BatchFacts DEF FinishJob
<1>2. PICK x \in {"none", "clean", "dirty", "killed"} : x = exit[w]
    BY <1>1 DEF TypeOK
<1>3. PICK c \in Nat : c = crashes[w]
    BY <1>1 DEF TypeOK
<1>4. ASSUME broken[w] = 0, Settle(w, "stored"), NEW j \in Verdicts,
             job' = [job EXCEPT ![w] = j], GoTo(w, "acked")
      PROVE  CorpusInv'
  <2>1. Closes(w, "stored", "acked", x, j, c)
    BY <1>1, <1>2, <1>3, <1>4 DEF FinishJob, Closes, TypeOK, crawlVars
  <2> QED  BY <1>1, <1>3, <1>4, <2>1, ClosesHolds DEF Working
<1>5. ASSUME Settle(w, "none"), UNCHANGED job, GoTo(w, "ended")
      PROVE  CorpusInv'
  <2>1. PICK j \in {"pending", "running"} \cup Verdicts : j = job[w]
    BY <1>1 DEF TypeOK
  <2>2. Closes(w, "none", "ended", x, j, c)
    BY <1>1, <1>2, <1>3, <1>5, <2>1 DEF FinishJob, Closes, TypeOK, crawlVars
  <2> QED  BY <1>1, <1>3, <2>1, <2>2, ClosesHolds DEF Working
<1> QED  BY <1>4, <1>5 DEF FinishJob, Verdicts

\* A time-out of arq ends the try and the job.
LEMMA ExpireHolds ==
    ASSUME CorpusInv, NEW w \in Runs, Expire(w)
    PROVE  CorpusInv'
<1>1. /\ TypeOK /\ RunInv(w) /\ phase[w] \in Working /\ w \notin Clis
    BY OfRun, BatchFacts DEF Expire, Phases, Working, Fresh
<1>2. PICK x \in {"none", "clean", "dirty", "killed"} : x = exit[w]
    BY <1>1 DEF TypeOK
<1>3. PICK c \in Nat : c = crashes[w]
    BY <1>1 DEF TypeOK
<1>4. PICK j \in {"pending", "running"} \cup Verdicts : j = job[w]
    BY <1>1 DEF TypeOK
<1>5. Closes(w, "none", "ended", x, j, c)
    BY <1>1, <1>2, <1>3, <1>4 DEF Expire, Closes, TypeOK
<1> QED  BY <1>1, <1>3, <1>4, <1>5, ClosesHolds

\* The process dies: the session is lost, a job will be tried again.
LEMMA CrashHolds ==
    ASSUME CorpusInv, NEW w \in Runs, Crash(w)
    PROVE  CorpusInv'
<1>1. /\ TypeOK /\ RunInv(w) /\ phase[w] \in Working \cup {"acked"}
    BY OfRun DEF Crash, Phases, Working, Fresh
<1>2. PICK x \in {"none", "clean", "dirty", "killed"} :
          x = IF w \in Clis THEN "killed" ELSE exit[w]
    BY <1>1 DEF TypeOK
<1>3. PICK c \in Nat : c = crashes[w] + 1
    BY <1>1 DEF TypeOK
<1>4. PICK j \in {"pending", "running"} \cup Verdicts : j = job[w]
    BY <1>1 DEF TypeOK
<1>5. PICK p \in {"idle", "ended"} : p = IF w \in Clis THEN "ended" ELSE "idle"
    OBVIOUS
<1>6. Closes(w, "none", p, x, j, c)
    BY <1>1, <1>2, <1>3, <1>4, <1>5 DEF Crash, Closes, TypeOK
<1> QED  BY <1>1, <1>2, <1>3, <1>4, <1>5, <1>6, ClosesHolds

\* Every step of a run is one of those above.
LEMMA StepHolds ==
    ASSUME CorpusInv, NEW w \in Runs, Step(w) \/ Expire(w) \/ Crash(w)
    PROVE  CorpusInv'
<1>1. TypeOK /\ RunInv(w)
    BY OfRun
<1>2. CASE GiveUp(w)
  <2>1. Moves(w, "ended")
    BY <1>1, <1>2 DEF GiveUp, Moves, crawlVars, RunInv, CrawlInv
  <2> QED  BY <1>2, <2>1, MovesHolds DEF GiveUp, Phases
<1>3. CASE Acknowledge(w)
  <2>1. Moves(w, "ended")
    BY <1>1, <1>3 DEF Acknowledge, Moves, crawlVars, RunInv, CrawlInv
  <2> QED  BY <1>3, <2>1, MovesHolds DEF Acknowledge, Phases
<1>4. CASE NextUrl(w) /\ pos[w] < Len(Batch[w])
    BY <1>4, NextUrlHolds DEF NextUrl
<1>5. CASE NextUrl(w) /\ ~(pos[w] < Len(Batch[w]))
  <2>1. Moves(w, "finish")
    BY <1>1, <1>5 DEF NextUrl, Moves, RunInv, CrawlInv
  <2> QED  BY <1>5, <2>1, MovesHolds DEF NextUrl, Phases
<1> QED
    BY <1>2, <1>3, <1>4, <1>5, BeginHolds, CrawlHolds, CheckHolds, UpsertHolds,
       InsertHolds, FinishCliHolds, FinishJobHolds, ExpireHolds, CrashHolds
       DEF Step

-----------------------------------------------------------------------------
(* The theorems *)

\* No run has begun.
LEMMA InitHolds == Init => CorpusInv
<1> SUFFICES ASSUME Init PROVE CorpusInv
    OBVIOUS
<1> USE DEF Init
<1>1. TypeOK
  <2>1. CrawlerTypeOK
    BY Tries, Requests DEF CrawlerInit, CrawlerTypeOK, NewCrawler, NoGets
  <2>2. CollectionTypeOK
    BY CollectionInitHolds DEF CollectionInv
  <2>3. ASSUME NEW w \in Runs
        PROVE  /\ pos[w] \in 1..Len(Batch[w]) /\ broken[w] \in 0..Len(Batch[w])
               /\ report[w] \in [1..Len(Batch[w]) -> {"none", "empty"} \cup Verdicts]
    BY BatchFacts DEF NoReports
  <2> QED  BY <2>1, <2>2, <2>3, Tries DEF TypeOK, Phases
<1>2. ASSUME NEW w \in Runs PROVE RunInv(w)
  <2>1. phase[w] \in {"idle", "ended"} /\ try[w] = 0 /\ pos[w] = 1
    OBVIOUS
  <2>2. CrawlInv(w)
    BY BatchFacts DEF CrawlInv, CrawlerInit, NoGets
  <2>3. TriesInv(w) /\ SessionInv(w) /\ VerdictInv(w)
    BY BatchFacts DEF TriesInv, SessionInv, VerdictInv, NoReports, Working, Fresh
  <2>4. ASSUME NEW t \in 1..MaxTries, NEW i \in 1..Len(Batch[w]) PROVE DocInv(w, t, i)
    BY <2>1, DocFacts DEF DocInv
  <2> QED  BY <2>2, <2>3, <2>4 DEF RunInv
<1> QED  BY <1>1, <1>2, CollectionInitHolds DEF CorpusInv

\* The inductive step.
LEMMA NextHolds == CorpusInv /\ [Next]_vars => CorpusInv'
<1> SUFFICES ASSUME CorpusInv, [Next]_vars PROVE CorpusInv'
    OBVIOUS
<1>1. CASE UNCHANGED vars
  <2> USE <1>1 DEF vars, runVars, crawlVars, collectionVars
  <2>1. TypeOK' /\ CollectionInv'
    BY DEF CorpusInv, TypeOK, CrawlerTypeOK, CollectionTypeOK, CollectionInv, Exists
  <2>2. ASSUME NEW w \in Runs PROVE RunInv(w)'
    BY UntouchedHolds DEF CorpusInv, Untouched
  <2> QED  BY <2>1, <2>2 DEF CorpusInv
<1>2. ASSUME NEW s \in Starters, StarterStep(s) \/ FailStart(s),
             UNCHANGED <<runVars, crawlVars>>
      PROVE  CorpusInv'
  <2> USE <1>2 DEF runVars, crawlVars
  <2>1. CollectionInv' /\ CollectionTypeOK'
    BY StarterHolds DEF CorpusInv, CollectionInv
  <2>2. TypeOK'
    BY <2>1 DEF CorpusInv, TypeOK, CrawlerTypeOK
  <2>3. ASSUME NEW w \in Runs PROVE RunInv(w)'
    BY UntouchedHolds DEF CorpusInv, Untouched
  <2> QED  BY <2>1, <2>2, <2>3 DEF CorpusInv
<1> QED  BY <1>1, <1>2, StepHolds DEF Next

\* Every reachable state satisfies the inductive invariant.
THEOREM CorpusInvariant == Spec => []CorpusInv
BY InitHolds, NextHolds, PTL DEF Spec

\* The variables keep their types; in particular no crawl makes more requests than
\* MaxAttempts chains of redirects and no job is tried more often than MaxTries.
THEOREM CorpusStateIsTyped == Spec => []TypeOK
<1>1. CorpusInv => TypeOK
    BY DEF CorpusInv
<1> QED  BY <1>1, CorpusInvariant, PTL

\* A crawl that begins at a page robots.txt forbids makes a request only if
\* robots.txt could not be read, and no crawl more requests than its retries and
\* the redirects of the client allow (ingestion/stages/crawl.py).  Where redirects
\* lead is not checked by the code, and not claimed here.
THEOREM CrawlsStartPolitely == Spec => []CrawlStartsPolitely
<1>1. CorpusInv => CrawlStartsPolitely
  <2> SUFFICES ASSUME CorpusInv, NEW w \in Runs, NEW u \in Urls
               PROVE  /\ RespectRobots /\ u \in Disallowed /\ gets[w][u] > 0 =>
                            robots[w][HostOf[u]] = "none"
                      /\ gets[w][u] <= MaxAttempts * (1 + MaxRedirects)
    BY DEF CrawlStartsPolitely
  <2>1. RunInv(w) /\ gets[w][u] \in 0..(MaxAttempts * (1 + MaxRedirects))
    BY DEF Chain, CorpusInv, TypeOK, CrawlerTypeOK
  <2> QED  BY <2>1 DEF RunInv, CrawlInv
<1> QED  BY <1>1, CorpusInvariant, PTL

\* A collection that lacks an index has a starter that is building it or has raised
\* (rag/vector_store.py, ensure_collection).
THEOREM IncompleteCollectionsAreKnown == Spec => []IncompleteCollectionIsKnown
<1>1. CorpusInv => IncompleteCollectionIsKnown
    BY BuiltOrRaised DEF CorpusInv
<1> QED  BY <1>1, CorpusInvariant, PTL

\* The documents of one `nowlens ingest` are stored together or not at all (cli.py,
\* one session for the batch).
THEOREM SessionsHaveOneFate == Spec => []OneSessionOneFate
<1>1. CorpusInv => OneSessionOneFate
  <2> SUFFICES ASSUME CorpusInv, NEW w \in Clis, NEW i \in 1..Len(Batch[w])
               PROVE  /\ exit[w] = "clean" /\ report[w][i] = "succeeded" =>
                            rows[<<w, 1, i>>] = "stored" /\ points[<<w, 1, i>>] = "all"
                      /\ broken[w] > 0 => rows[<<w, 1, i>>] # "stored"
                      /\ broken[w] \in 1..(i - 1) => points[<<w, 1, i>>] = "none"
    BY DEF OneSessionOneFate
  <2>1. w \in Runs /\ 1 \in 1..MaxTries
    BY CorpusAssumption
  <2>2. RunInv(w) /\ DocInv(w, 1, i) /\ try[w] \in 0..1 /\ broken[w] \in 0..Len(Batch[w])
    BY <2>1, OfRun DEF RunInv, TriesInv
  <2>3. broken[w] > 0 => try[w] = 1
    BY <2>2 DEF RunInv, TriesInv
  <2> QED  BY <2>2, <2>3 DEF RunInv, VerdictInv, DocInv
<1> QED  BY <1>1, CorpusInvariant, PTL

\* There are no more documents of a job than there have been tries.
LEMMA TriesCount ==
    ASSUME NEW w \in ArqJobs, NEW n \in Nat, NEW D \in SUBSET DocsOf(w), \A d \in D : d[2] <= n
    PROVE  Cardinality(D) <= n
<1> DEFINE f == [d \in D |-> d[2]]
<1>1. IsFiniteSet(1..n) /\ Cardinality(1..n) = n
    BY FS_Interval
<1>2. ASSUME NEW d \in D PROVE d = <<w, d[2], 1>> /\ d[2] \in 1..n
  <2>1. d \in Docs /\ d[1] = w /\ d[2] <= n
    BY DEF DocsOf
  <2> QED  BY <2>1, DocParts, BatchFacts, CorpusAssumption
<1>3. f \in Injection(D, 1..n)
    BY <1>2 DEF Injection, IsInjective
<1> QED  BY <1>1, <1>3, FS_Injection

\* An arq job stores its page once, and once more for each death of a worker at
\* most (workers/arq_worker.py, ingest under the retries of arq).
THEOREM EachCopyCostsACrash == Spec => []CopiesNeedACrash
<1>1. CorpusInv => CopiesNeedACrash
  <2> SUFFICES ASSUME CorpusInv, NEW w \in ArqJobs
               PROVE  /\ Cardinality(Copies(w)) <= 1 + crashes[w]
                      /\ Cardinality({d \in DocsOf(w) : points[d] # "none"}) <= 1 + crashes[w]
                      /\ job[w] = "succeeded" /\ report[w][1] = "succeeded" =>
                             \E d \in Copies(w) : d[2] = try[w]
                      /\ \A d \in Copies(w) : points[d] = "all"
    BY DEF CopiesNeedACrash
  <2>1. w \in Runs /\ Len(Batch[w]) = 1
    BY CorpusAssumption
  <2>2. RunInv(w) /\ try[w] \in 0..MaxTries /\ MaxTries \in Nat /\ crashes[w] \in Nat
    BY <2>1, OfRun
  <2>3. try[w] <= 1 + crashes[w]
    BY <2>2 DEF RunInv, TriesInv
  <2>4. ASSUME NEW d \in DocsOf(w)
        PROVE  /\ points[d] # "none" => d[2] <= 1 + crashes[w]
               /\ rows[d] = "stored" => points[d] = "all"
    <3>1. d \in Docs /\ d[1] = w
      BY DEF DocsOf
    <3>2. d[2] \in 1..MaxTries /\ d[3] \in 1..Len(Batch[w]) /\ d = <<w, d[2], d[3]>>
      BY <3>1, DocParts
    <3>3. DocInv(w, d[2], d[3])
      BY <3>2, <2>2 DEF RunInv
    <3> QED  BY <3>2, <3>3, <2>2, <2>3 DEF DocInv
  <2>5. PICK n \in Nat : n = 1 + crashes[w]
    BY <2>2
  <2>6. Cardinality({d \in DocsOf(w) : points[d] # "none"}) <= n
    BY <2>4, <2>5, TriesCount
  <2>7. Cardinality(Copies(w)) <= n
    BY <2>4, <2>5, TriesCount DEF Copies
  <2>8. ASSUME job[w] = "succeeded", report[w][1] = "succeeded"
        PROVE  \E d \in Copies(w) : d[2] = try[w]
    <3>1. try[w] \in 1..MaxTries /\ rows[<<w, try[w], 1>>] = "stored"
      BY <2>2, <2>8 DEF RunInv, VerdictInv
    <3>2. <<w, try[w], 1>> \in Docs
      BY <2>1, <3>1, DocFacts
    <3> QED  BY <3>1, <3>2 DEF Copies, DocsOf
  <2> QED  BY <2>4, <2>5, <2>6, <2>7, <2>8 DEF Copies
<1> QED  BY <1>1, CorpusInvariant, PTL
=============================================================================
