------------------------------ MODULE Crawler ------------------------------
(***************************************************************************)
(* The crawl stage of ingestion: a pipeline's Crawler with its cache of    *)
(* robots.txt, and the retry loop of the pipeline around it.  Each run     *)
(* builds one pipeline, hence one Crawler, and asks for one URL at a time: *)
(* only tests use ingest_urls, which would ask for several.                *)
(*                                                                         *)
(* A response is what fetch makes of it: only a page with a 2xx status, a  *)
(* textual type, a body and no error is `ok`; unreachable, oversized,      *)
(* binary, empty and 404 pages are all alike retried.                      *)
(***************************************************************************)
EXTENDS Naturals

CONSTANTS
    Runs,          \* pipelines
    Urls,
    HostOf,        \* HostOf[u]: scheme and authority of u
    Disallowed,    \* the URLs that the robots.txt of their host forbids
    RespectRobots, \* settings.respect_robots
    MaxAttempts,   \* max_attempts of the pipeline
    MaxRedirects   \* redirects the HTTP client follows from one GET

Hosts == {HostOf[u] : u \in Urls}

ASSUME CrawlerAssumption ==
    /\ DOMAIN HostOf = Urls
    /\ Disallowed \subseteq Urls
    /\ RespectRobots \in BOOLEAN
    /\ MaxAttempts \in Nat \ {0}
    /\ MaxRedirects \in Nat

VARIABLES
    robots,   \* robots[w][h]: what the Crawler of w has cached for host h
    crawl,    \* crawl[w]: the crawl of the current URL
    attempt,  \* attempt[w]: its attempt
    gets      \* gets[w][u]: requests the Crawler of w has made when asked for u, those
              \* redirects led to included (history)

crawlVars == <<robots, crawl, attempt, gets>>

\* The requests of one GET: the client follows redirects.
Chain == 1 + MaxRedirects

CrawlerTypeOK ==
    /\ robots \in [Runs -> [Hosts -> {"unread", "none", "parsed"}]]
    /\ crawl \in [Runs -> {"none", "fetch", "ok", "failed"}]
    /\ attempt \in [Runs -> 0..MaxAttempts]
    /\ gets \in [Runs -> [Urls -> 0..(MaxAttempts * Chain)]]

NewCrawler == [h \in Hosts |-> "unread"]

NoGets == [u \in Urls |-> 0]

CrawlerInit ==
    /\ robots = [w \in Runs |-> NewCrawler]
    /\ crawl = [w \in Runs |-> "none"]
    /\ attempt = [w \in Runs |-> 0]
    /\ gets = [w \in Runs |-> NoGets]

\* build_ingestion_pipeline: a Crawler that has read nothing.
Construct(w) ==
    /\ robots' = [robots EXCEPT ![w] = NewCrawler]
    /\ gets' = [gets EXCEPT ![w] = NoGets]

\* A crawl of the next URL begins with the first pass of the retry loop.
StartCrawl(w) ==
    /\ crawl' = [crawl EXCEPT ![w] = "fetch"]
    /\ attempt' = [attempt EXCEPT ![w] = 1]

\* The cache has what _allowed needs to decide about u.
Consulted(w, u) == ~RespectRobots \/ robots[w][HostOf[u]] # "unread"

\* Mutant of Allowed: an unreadable robots.txt forbids, a readable one is ignored.
AllowedWhenParsed(w, u) == RespectRobots => robots[w][HostOf[u]] = "parsed"

Allowed(w, u) ==
    RespectRobots => robots[w][HostOf[u]] = "none" \/ u \notin Disallowed

\* _allowed reads robots.txt of a host it has not seen.  Any answer but 200, and
\* any failure of the request, is remembered as the absence of rules.
ReadRobots(w, u) ==
    /\ crawl[w] = "fetch"
    /\ ~Consulted(w, u)
    /\ \E found \in {"none", "parsed"} : robots' = [robots EXCEPT ![w][HostOf[u]] = found]
    /\ UNCHANGED <<crawl, attempt, gets>>

\* fetch refuses, and the retry loop does not try again.
Refuse(w, u) ==
    /\ crawl[w] = "fetch"
    /\ Consulted(w, u)
    /\ ~Allowed(w, u)
    /\ crawl' = [crawl EXCEPT ![w] = "failed"]
    /\ UNCHANGED <<robots, attempt, gets>>

\* Mutant of Fetch: `while True` around the attempts (and gets, a history, kept finite).
FetchForever(w, u) ==
    /\ crawl[w] = "fetch"
    /\ Consulted(w, u)
    /\ Allowed(w, u)
    /\ \/ /\ crawl' = [crawl EXCEPT ![w] = "ok"]
          /\ UNCHANGED attempt
       \/ /\ attempt' = [attempt EXCEPT ![w] = (@ % MaxAttempts) + 1]
          /\ UNCHANGED crawl
    /\ UNCHANGED <<robots, gets>>

\* One GET of the page, and of every page it redirects to: where a redirect leads,
\* a forbidden page or a host whose rules nobody has read included, _allowed is
\* not asked.  Whatever is not ok, too many redirects included, is tried again
\* after a pause, and so is the last attempt paused after; an exception httpx does
\* not class as an HTTP error leaves fetch and the loop at once.
Fetch(w, u) ==
    /\ crawl[w] = "fetch"
    /\ Consulted(w, u)
    /\ Allowed(w, u)
    /\ \E requests \in 1..Chain : gets' = [gets EXCEPT ![w][u] = @ + requests]
    /\ \/ /\ \E end \in {"ok", "failed"} : crawl' = [crawl EXCEPT ![w] = end]
          /\ UNCHANGED attempt
       \/ /\ attempt[w] < MaxAttempts
          /\ attempt' = [attempt EXCEPT ![w] = @ + 1]
          /\ UNCHANGED crawl
    /\ UNCHANGED robots

\* The step of the crawl of u that w takes next.
CrawlStep(w, u) ==
    \/ ReadRobots(w, u)
    \/ Refuse(w, u)
    \/ Fetch(w, u)

\* The pipeline has taken the result; the next URL starts anew.
EndCrawl(w) ==
    /\ crawl' = [crawl EXCEPT ![w] = "none"]
    /\ attempt' = [attempt EXCEPT ![w] = 0]

-----------------------------------------------------------------------------
\* What is left of "per-host robots.txt enforcement (cached)" (crawl.py:4) when
\* the client follows redirects (crawl.py:32): a crawl that begins at a forbidden
\* page makes no request at all, not even one a redirect would lead to, unless
\* that host's rules could not be read; and over all attempts, and all that the
\* cache was told in between, a crawl makes no more requests than its retry loop
\* and the client's redirects allow.  It does not say that no forbidden page is
\* requested: a page that is allowed may redirect to one.
CrawlStartsPolitely ==
    \A w \in Runs : \A u \in Urls :
        /\ RespectRobots /\ u \in Disallowed /\ gets[w][u] > 0 =>
               robots[w][HostOf[u]] = "none"
        /\ gets[w][u] <= MaxAttempts * (1 + MaxRedirects)

=============================================================================
