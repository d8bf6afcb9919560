----------------------- MODULE MetricsCollector_proofs -----------------------
(***************************************************************************)
(* What MetricsCollector keeps, for any number of scrapers, and however    *)
(* long the text stays fresh and an update takes.                          *)
(***************************************************************************)
EXTENDS MetricsCollector, TLAPS

-----------------------------------------------------------------------------
\* The initial values are of their types
LEMMA InitTypes == MetricsInit => MetricsTypeOK
<1> SUFFICES ASSUME MetricsInit PROVE MetricsTypeOK
  OBVIOUS
<1>1. /\ scrape \in [Scraper -> {"out", "waiting"} \cup Inside]
      /\ \A s \in Scraper : scrape[s] \notin Inside /\ cmu # s
  BY ScraperAssumption DEF MetricsInit, Inside
<1>2. age \in 0..(Fresh + 1) /\ lag \in Nat /\ took \in 0..MaxUpdate /\ reading \in 0..MaxUpdate
  BY ClockAssumption DEF MetricsInit
<1> QED BY <1>1, <1>2 DEF MetricsInit, MetricsTypeOK

\* A request enters by taking the mutex and leaves by giving it back
LEMMA ScrapeTypes ==
    ASSUME MetricsTypeOK, NEW s \in Scraper, ScrapeStep(s)
    PROVE  MetricsTypeOK'
<1>1. CASE Scrape(s)
  BY <1>1 DEF Scrape, Goes, clocks, MetricsTypeOK, Inside
<1>2. CASE Lock(s)
  <2>1. \A r \in Scraper : scrape[r] \notin Inside
    BY <1>2, ScraperAssumption DEF Lock, MetricsTypeOK
  <2>2. PICK pc \in {"collecting", "serving"} : scrape' = [scrape EXCEPT ![s] = pc]
    BY <1>2 DEF Lock, Goes
  <2>3. /\ scrape' \in [Scraper -> {"out", "waiting"} \cup Inside]
        /\ \A r \in Scraper : scrape'[r] \in Inside <=> r = s
    BY <2>1, <2>2 DEF MetricsTypeOK, Inside
  <2> QED BY <1>2, <2>3, ClockAssumption DEF Lock, MetricsTypeOK
<1>3. CASE Collect(s)
  BY <1>3 DEF Collect, Goes, clocks, MetricsTypeOK, Inside
<1>4. CASE Count(s)
  BY <1>4, ClockAssumption DEF Count, Goes, MetricsTypeOK, Inside
<1>5. CASE Serve(s)
  BY <1>5, ScraperAssumption DEF Serve, Goes, clocks, MetricsTypeOK, Inside
<1> QED BY <1>1, <1>2, <1>3, <1>4, <1>5 DEF ScrapeStep

\* So does every other step
LEMMA NextTypes == MetricsTypeOK /\ [MetricsNext]_metricsVars => MetricsTypeOK'
<1> SUFFICES ASSUME MetricsTypeOK, [MetricsNext]_metricsVars PROVE MetricsTypeOK'
  OBVIOUS
<1>1. CASE Tick
  <2>1. /\ UNCHANGED <<cmu, scrape, agentBusy, took>>
        /\ reading' = reading \/ (Updating /\ reading' = reading + 1 /\ reading < MaxUpdate)
        /\ \/ age <= Fresh /\ age' = age + 1 /\ lag' = lag + 1
           \/ age' = age /\ lag' = lag
    BY <1>1 DEF Tick
  <2> QED BY <2>1, ClockAssumption DEF MetricsTypeOK
<1>2. CASE AgentLocks \/ AgentUnlocks \/ UNCHANGED metricsVars
  BY <1>2 DEF AgentLocks, AgentUnlocks, metricsVars, clocks, MetricsTypeOK
<1> QED BY <1>1, <1>2, ScrapeTypes DEF MetricsNext

-----------------------------------------------------------------------------
\* A text that is still fresh is as old as its lastUpdate and the time it took
LagInv == age <= Fresh => lag = age + took

\* The clocks run together until the text is stale, and are set together
LEMMA NextLagInv ==
    MetricsTypeOK /\ LagInv /\ [MetricsNext]_metricsVars => LagInv'
<1> SUFFICES ASSUME MetricsTypeOK, LagInv, [MetricsNext]_metricsVars PROVE LagInv'
  OBVIOUS
<1>0. age \in Nat /\ lag \in Nat /\ took \in Nat /\ reading \in Nat /\ Fresh \in Nat
  BY ClockAssumption DEF MetricsTypeOK
<1>1. CASE Tick
  BY <1>0, <1>1 DEF Tick, LagInv
<1>2. ASSUME NEW s \in Scraper, Count(s) PROVE LagInv'
  BY <1>0, <1>2 DEF Count, LagInv
<1>3. ASSUME NEW s \in Scraper, Scrape(s) \/ Lock(s) \/ Collect(s) \/ Serve(s) PROVE LagInv'
  <2>1. UNCHANGED <<age, lag, took>>
    BY <1>3 DEF Scrape, Lock, Collect, Serve, clocks
  <2> QED BY <2>1 DEF LagInv
<1>4. CASE AgentLocks \/ AgentUnlocks \/ UNCHANGED metricsVars
  <2>1. UNCHANGED <<age, lag, took>>
    BY <1>4 DEF AgentLocks, AgentUnlocks, metricsVars, clocks
  <2> QED BY <2>1 DEF LagInv
<1> QED BY <1>1, <1>2, <1>3, <1>4 DEF MetricsNext, ScrapeStep

\* A request comes to be served by finding the text fresh or by renewing it
LEMMA ServedText ==
    ASSUME MetricsTypeOK, LagInv, [MetricsNext]_metricsVars, NEW s \in Scraper,
           scrape[s] # "serving", scrape'[s] = "serving"
    PROVE  lag' <= Fresh + took'
<1>0. age \in Nat /\ lag \in Nat /\ took \in Nat /\ reading \in Nat /\ Fresh \in Nat
  BY ClockAssumption DEF MetricsTypeOK
<1>1. PICK r \in Scraper : ScrapeStep(r)
  BY DEF MetricsNext, Tick, AgentLocks, AgentUnlocks, metricsVars
<1>2. CASE Count(r)
  BY <1>0, <1>2 DEF Count
<1>3. CASE Lock(r)
  <2>1. UNCHANGED <<age, lag, took>>
    BY <1>3 DEF Lock
  <2>2. age <= Fresh
    BY <1>0, <1>3 DEF Lock, Goes, MetricsTypeOK
  <2> QED BY <1>0, <2>1, <2>2 DEF LagInv
<1>4. CASE Scrape(r) \/ Collect(r) \/ Serve(r)
  BY <1>4 DEF Scrape, Collect, Serve, Goes, MetricsTypeOK
<1> QED BY <1>1, <1>2, <1>3, <1>4 DEF ScrapeStep

-----------------------------------------------------------------------------
(***************************************************************************)
(* The collector's mutex is held by the one request that is inside, and by *)
(* nobody else; the variables keep their types.                            *)
(***************************************************************************)
THEOREM MetricsTypeCorrect == MetricsSpec => []MetricsTypeOK
  BY InitTypes, NextTypes, PTL DEF MetricsSpec

(***************************************************************************)
(* No scrape is served a text whose reading began longer ago than the time *)
(* a text stays fresh and the time that reading took.                      *)
(***************************************************************************)
THEOREM StalenessBound == MetricsSpec => StalenessIsBounded
<1>1. MetricsInit => LagInv
  BY ClockAssumption DEF MetricsInit, LagInv
<1>2. MetricsTypeOK /\ LagInv /\ [MetricsNext]_metricsVars
        => [\A s \in Scraper : scrape[s] # "serving" /\ scrape'[s] = "serving"
              => lag' <= Fresh + took']_metricsVars
  BY ServedText
<1> QED
  BY InitTypes, NextTypes, <1>1, NextLagInv, <1>2, PTL DEF MetricsSpec, StalenessIsBounded
=============================================================================
