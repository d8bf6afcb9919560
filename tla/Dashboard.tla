------------------------------ MODULE Dashboard ------------------------------
(***************************************************************************)
(* The read-only side of the agent: the policy pages, the usage pages and  *)
(* the metrics endpoint, each served by goroutines of its own.  Nothing is *)
(* shared between them but what none of them writes, so that a behaviour   *)
(* here is one of a single page, chosen at the start; the state of the     *)
(* others stays as it is.                                                  *)
(***************************************************************************)
EXTENDS NamespacePolicy, UsageReport, MetricsCollector

VARIABLE page  \* which of them is being used

vars == <<policyVars, reportVars, metricsVars, page>>

Init ==
    /\ page \in {"policy", "usage", "metrics"}
    /\ PolicyInit /\ ReportInit /\ MetricsInit

Next ==
    /\ UNCHANGED page
    /\ \/ page = "policy"  /\ PolicyNext  /\ UNCHANGED <<reportVars, metricsVars>>
       \/ page = "usage"   /\ ReportNext  /\ UNCHANGED <<policyVars, metricsVars>>
       \/ page = "metrics" /\ MetricsNext /\ UNCHANGED <<policyVars, reportVars>>

Spec == Init /\ [][Next]_vars /\ MetricsFairness
=============================================================================
