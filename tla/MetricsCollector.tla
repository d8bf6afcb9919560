-------------------------- MODULE MetricsCollector --------------------------
(***************************************************************************)
(* The Prometheus endpoint, internal/metrics/metrics.go.  handleMetrics    *)
(* holds the collector's mutex while it puts the text together anew, if    *)
(* that is older than 30 seconds, and while it writes it to the client.    *)
(* Putting it together reads the disk and runs commands, and then waits    *)
(* for the mutex of the agent, which ensureQuota holds as long as it runs. *)
(*                                                                         *)
(* What the text says of the directories is in UsageReport; here it counts *)
(* how old it is.  Clocks stop when the text is stale.                     *)
(***************************************************************************)
EXTENDS Naturals

CONSTANTS
    Scraper,    \* clients of /metrics
    NoScraper,
    Fresh,      \* the 30 seconds, in ticks
    MaxUpdate   \* bound on the ticks that one update takes

ASSUME ScraperAssumption == NoScraper \notin Scraper
ASSUME ClockAssumption   == Fresh \in Nat /\ MaxUpdate \in Nat

VARIABLES
    cmu,       \* who holds Collector.mu
    scrape,    \* where each request is in handleMetrics
    agentBusy, \* does ensureQuota hold QuotaAgent.mu?
    age,       \* time since lastUpdate
    lag,       \* history: time since the update behind the text began to read
    took,      \* history: how long that update took
    reading    \* history: time since the update in progress began to read

metricsVars == <<cmu, scrape, agentBusy, age, lag, took, reading>>
clocks == <<age, lag, took, reading>>

\* lastUpdate is the zero time: the first scrape updates
MetricsInit ==
    /\ cmu = NoScraper /\ agentBusy = FALSE
    /\ scrape = [s \in Scraper |-> "out"]
    /\ age = Fresh + 1 /\ lag = Fresh + 1 /\ took = 0 /\ reading = 0

Updating == \E s \in Scraper : scrape[s] \in {"collecting", "counting"}
Goes(s, pc) == scrape' = [scrape EXCEPT ![s] = pc]

Tick ==
    /\ Updating => reading < MaxUpdate
    /\ reading' = IF Updating THEN reading + 1 ELSE reading
    /\ IF age <= Fresh THEN age' = age + 1 /\ lag' = lag + 1
                       ELSE UNCHANGED <<age, lag>>
    /\ UNCHANGED <<cmu, scrape, agentBusy, took>>

Scrape(s) ==
    /\ scrape[s] = "out" /\ Goes(s, "waiting")
    /\ UNCHANGED <<cmu, agentBusy, clocks>>

\* Mutant: each scrape puts the next update off
LockPutsOff(s) ==
    /\ scrape[s] = "waiting" /\ cmu = NoScraper /\ cmu' = s
    /\ age' = IF age > Fresh THEN age ELSE 0
    /\ reading' = 0
    /\ Goes(s, IF age > Fresh THEN "collecting" ELSE "serving")
    /\ UNCHANGED <<agentBusy, lag, took>>

\* The mutex, and with it in hand the look at the clock
Lock(s) ==
    /\ scrape[s] = "waiting" /\ cmu = NoScraper /\ cmu' = s
    /\ reading' = 0
    /\ Goes(s, IF age > Fresh THEN "collecting" ELSE "serving")
    /\ UNCHANGED <<agentBusy, age, lag, took>>

\* updateMetrics: the disk, the file system type, GetDirUsages
Collect(s) ==
    /\ scrape[s] = "collecting" /\ Goes(s, "counting")
    /\ UNCHANGED <<cmu, agentBusy, clocks>>

\* AppliedQuotaCount takes the agent's mutex for a moment; then come the text
\* and lastUpdate, which is the end of the update and not its beginning
Count(s) ==
    /\ scrape[s] = "counting" /\ ~agentBusy
    /\ age' = 0 /\ lag' = reading /\ took' = reading
    /\ Goes(s, "serving")
    /\ UNCHANGED <<cmu, agentBusy, reading>>

\* Mutant: a request that is served from the old text keeps the mutex
ServeKeepsOldLock(s) ==
    /\ scrape[s] = "serving" /\ Goes(s, "out")
    /\ cmu' = IF age = 0 THEN NoScraper ELSE cmu
    /\ UNCHANGED <<agentBusy, clocks>>

\* The text is written to the client with the mutex held
Serve(s) ==
    /\ scrape[s] = "serving" /\ Goes(s, "out") /\ cmu' = NoScraper
    /\ UNCHANGED <<agentBusy, clocks>>

AgentLocks ==
    /\ ~agentBusy /\ agentBusy' = TRUE
    /\ UNCHANGED <<cmu, scrape, clocks>>

\* Mutant: ensureQuota renews the metrics before it returns
AgentUnlocksAfterMetrics ==
    /\ agentBusy /\ cmu = NoScraper /\ agentBusy' = FALSE
    /\ UNCHANGED <<cmu, scrape, clocks>>

AgentUnlocks ==
    /\ agentBusy /\ agentBusy' = FALSE
    /\ UNCHANGED <<cmu, scrape, clocks>>

ScrapeStep(s) == Scrape(s) \/ Lock(s) \/ Collect(s) \/ Count(s) \/ Serve(s)

MetricsNext ==
    \/ Tick \/ AgentLocks \/ AgentUnlocks
    \/ \E s \in Scraper : ScrapeStep(s)

MetricsSpec == MetricsInit /\ [][MetricsNext]_metricsVars

\* Commands end, clients read or go away, ensureQuota returns; and who waits for
\* a Go mutex is handed it after a millisecond, however many come and go
MetricsFairness ==
    /\ WF_metricsVars(AgentUnlocks)
    /\ \A s \in Scraper :
          /\ SF_metricsVars(Lock(s)) /\ SF_metricsVars(Count(s))
          /\ WF_metricsVars(Collect(s)) /\ WF_metricsVars(Serve(s))

-----------------------------------------------------------------------------
Inside == {"collecting", "counting", "serving"}

\* Every variable has its type, and the mutex is held by the one request that is
\* past its Lock and not past its Unlock.
MetricsTypeOK ==
    /\ cmu \in Scraper \cup {NoScraper}
    /\ scrape \in [Scraper -> {"out", "waiting"} \cup Inside]
    /\ agentBusy \in BOOLEAN
    /\ age \in 0..(Fresh + 1) /\ lag \in Nat
    /\ took \in 0..MaxUpdate /\ reading \in 0..MaxUpdate
    /\ \A s \in Scraper : scrape[s] \in Inside <=> cmu = s

\* What a scrape is served was read from the disk no longer ago than the age the
\* handler allows and the time the reading itself took: however often others
\* scrape in between, the text does not grow older than that.
StalenessIsBounded ==
    [][\A s \in Scraper : scrape[s] # "serving" /\ scrape'[s] = "serving"
          => lag' <= Fresh + took']_metricsVars

\* Every scrape is answered, although it queues for the collector's mutex behind
\* requests that wait for the agent's.
ScrapesReturn == \A s \in Scraper : scrape[s] = "waiting" ~> scrape[s] = "out"
=============================================================================
