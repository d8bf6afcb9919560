---------------------------- MODULE MCDashboard ----------------------------
(***************************************************************************)
(* Instances of Dashboard for TLC.                                         *)
(***************************************************************************)
EXTENDS Dashboard, TLC

CONSTANTS v, w, first, second, a, b, na, nb, ia, ib, flat, outer, inner, dot

\* Two volumes: one may be in either namespace or in none, the other is in the first
Unclaimed == [ns |-> NoNamespace, cap |-> 0]
PVStates == {Unclaimed, [ns |-> first, cap |-> 1024], [ns |-> second, cap |-> 1000]}

\* A limit that is not for claims, then two that are; and none at all
LimitItem(claim, max, min, request) ==
    [claim |-> claim, max |-> max, min |-> min, def |-> 0, request |-> request]
TwoLists ==
    {<<>>, <<LimitItem(FALSE, 1, 1, 1), LimitItem(TRUE, 900, 1010, 500), LimitItem(TRUE, 2000, 0, 0)>>}

\* No annotation; and one that does not parse next to one of 1K, which is not 1Ki
NoNote == [num |-> 0, unit |-> "absent"]
TwoNotes ==
    {[def |-> NoNote, max |-> NoNote],
     [def |-> [num |-> 1, unit |-> "malformed"], max |-> [num |-> 1, unit |-> "K"]]}

PolicyAtRest ==
    /\ pvs = [pv \in PV |-> Unclaimed]
    /\ ranges = [ns \in Namespace |-> <<>>]
    /\ hard = [ns \in Namespace |-> 0]
    /\ notes = [ns \in Namespace |-> [def |-> NoNote, max |-> NoNote]]

PolicyInstance ==
    /\ pvs[v].ns = first /\ pvs[w] # Unclaimed
    /\ ranges[second] = <<>> /\ hard[second] = 0 /\ notes[second].max = NoNote

\* A native volume at the top; and a CSI volume that the provisioner made in a
\* share of its own, next to a hidden directory: the page takes the share for its
\* directory
Volumes ==
    (a :> [name |-> na, id |-> ia, path |-> flat, uiPath |-> flat]) @@
    (b :> [name |-> nb, id |-> ib, path |-> inner, uiPath |-> outer])
Tree == (flat :> NoDir) @@ (outer :> NoDir) @@ (inner :> outer) @@ (dot :> outer)

\* On both sides of 90 and 100 percent
Inner(use) == (flat :> 8) @@ (outer :> 8) @@ (inner :> use) @@ (dot :> 8)

LimitsOf(x, y) == limit = (ia :> x) @@ (ib :> y)

\* Reports while something changes; and undisturbed ones from many more states
ReportInstance ==
    \/ /\ moves = 0 /\ client = TRUE
       /\ claimed = {a} /\ projects = {PathLine(a), PathLine(b)} /\ LimitsOf(20, 10)
       /\ \/ fs = "xfs" /\ \E u \in {9, 10} : usage = Inner(u)
          \/ fs \in {"ext4", "other"} /\ usage = Inner(9)
    \/ /\ moves = MaxMoves
       /\ \E x \in {0, 20}, y \in {0, 10}, u \in Use : LimitsOf(x, y) /\ usage = Inner(u)

ReportAtRest ==
    /\ fs = "other" /\ client = TRUE /\ claimed = {} /\ projects = {} /\ LimitsOf(0, 0)
    /\ usage = Inner(8) /\ moves = 0

InstanceInit ==
    /\ page \in {"policy", "usage", "metrics"}
    /\ IF page = "policy" THEN PolicyInit /\ PolicyInstance ELSE PolicyAtRest
    /\ IF page = "usage" THEN ReportInstance ELSE ReportAtRest
    /\ Init
InstanceSpec == InstanceInit /\ [][Next]_vars /\ MetricsFairness
=============================================================================
