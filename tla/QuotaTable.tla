----------------------------- MODULE QuotaTable -----------------------------
(***************************************************************************)
(* What the quota agent promises: a table of limits, one for each volume.  *)
(* The cluster asks for a capacity, and asks for another one or withdraws  *)
(* it later; nobody else does.  A limit is set and remembered in one step  *)
(* or not at all, to a capacity that is still being asked for: the wanted  *)
(* one, or one that was wanted and has not lapsed since.  What is          *)
(* remembered may be forgotten.  Reports are made of wanted volumes only,  *)
(* and "applied" only of those with a limit.  No project, file, lock,      *)
(* event or crash occurs here: QuotaAgent implements this with all of them. *)
(***************************************************************************)
EXTENDS Naturals

CONSTANTS
    Tracked,   \* volumes
    Capacity,  \* what can be asked for
    Blocks     \* the limit that stands for a capacity

VARIABLES
    want,      \* the cluster's: the capacity of each volume, 0 for none
    table,     \* the limit of each volume, 0 for none
    memo,      \* the capacity it is remembered to have, 0 for none
    report,    \* what is said about it
    asked      \* the capacities asked for it and not yet lapsed

tableVars == <<want, table, memo, report, asked>>

Init ==
    /\ want = [v \in Tracked |-> 0]
    /\ table = [v \in Tracked |-> 0]
    /\ memo = [v \in Tracked |-> 0]
    /\ report = [v \in Tracked |-> "none"]
    /\ asked = [v \in Tracked |-> {}]

\* Capacities that are no longer asked for drop out at any time.  The wanted one
\* does not, and one that has dropped out comes back only if it is asked for anew.
Lapse(vols) ==
    \A v \in vols : /\ asked'[v] \subseteq asked[v]
                    /\ want[v] # 0 => want[v] \in asked'[v]

\* The cluster asks for a capacity
Ask(v, c) ==
    /\ want' = [want EXCEPT ![v] = c]
    /\ c \in asked'[v] /\ asked'[v] \subseteq asked[v] \cup {c}
    /\ Lapse(Tracked \ {v}) /\ UNCHANGED <<table, memo, report>>

\* The cluster deletes the volume, and what was said about it
Withdraw(v) ==
    /\ want' = [want EXCEPT ![v] = 0]
    /\ report' = [report EXCEPT ![v] = "none"]
    /\ asked'[v] \subseteq asked[v]
    /\ Lapse(Tracked \ {v}) /\ UNCHANGED <<table, memo>>

Set(v, c) ==
    /\ c \in asked[v]
    /\ table' = [table EXCEPT ![v] = Blocks[c]]
    /\ memo' = [memo EXCEPT ![v] = c]
    /\ Lapse(Tracked) /\ UNCHANGED <<want, report>>

Forget(vols) ==
    /\ memo' = [v \in Tracked |-> IF v \in vols THEN 0 ELSE memo[v]]
    /\ Lapse(Tracked) /\ UNCHANGED <<want, table, report>>

Say(v, r) ==
    /\ want[v] # 0
    /\ r = "applied" => table[v] # 0
    /\ report' = [report EXCEPT ![v] = r]
    /\ Lapse(Tracked) /\ UNCHANGED <<want, table, memo>>

Next ==
    \/ \E v \in Tracked, c \in Capacity : Ask(v, c) \/ Set(v, c)
    \/ \E v \in Tracked : Withdraw(v)
    \/ \E vols \in SUBSET Tracked : Forget(vols)
    \/ \E v \in Tracked, r \in {"applied", "failed"} : Say(v, r)

Spec == Init /\ [][Next]_tableVars
=============================================================================
