------------------------------- MODULE Cleaner -------------------------------
(***************************************************************************)
(* What orphan cleanup promises.  Cleaners look at what is claimed, report *)
(* places that they did not find claimed, and may then order one of them   *)
(* to be removed; a patient cleaner waits for a grace period after the     *)
(* first report.  Nothing vanishes by their doing but what one of them has *)
(* ordered.  No table of ages, list of orphans or request occurs here:     *)
(* OrphanCleanup implements this with all of them.                         *)
(***************************************************************************)
EXTENDS Integers

CONSTANTS
    Place,     \* what may be there, and may be claimed
    Below,     \* what lies at and below each place
    Cleaner,   \* who looks and removes
    Patient,   \* the cleaners that wait
    Wait,      \* how long
    Live,      \* may anything be removed?
    Unstable,  \* may others remove something too?
    NoPlace    \* stands for no order

VARIABLES
    claims,    \* places that are claimed
    present,   \* places that are there
    lines,     \* places with a line in a list
    notice,    \* time since the first report of each place, up to Wait, or Unreported
    kept,      \* what each cleaner leaves alone: everything until it has looked
    order      \* what it is removing

cleanerVars == <<claims, present, lines, notice, kept, order>>

Unreported == -1

Init ==
    /\ claims = {} /\ present = {} /\ lines = {}
    /\ notice = [p \in Place |-> Unreported]
    /\ kept = [c \in Cleaner |-> Place]
    /\ order = [c \in Cleaner |-> NoPlace]

\* The others: claims come and go, places appear, a claimed one gets its line
Others ==
    /\ claims' \in SUBSET Place /\ present' \in SUBSET Place
    /\ Unstable \/ present \subseteq present'
    /\ lines \subseteq lines' /\ lines' \subseteq lines \cup (claims \cap present)
    /\ UNCHANGED <<notice, kept, order>>

Pass ==
    /\ notice' = [p \in Place |-> IF notice[p] \in {Unreported, Wait}
                                  THEN notice[p] ELSE notice[p] + 1]
    /\ UNCHANGED <<claims, present, lines, kept, order>>

Look(c) ==
    /\ kept[c] = Place
    /\ kept' = [kept EXCEPT ![c] = claims]
    /\ UNCHANGED <<claims, present, lines, notice, order>>

\* What the cleaner reports it need not leave alone, and an impatient one may
\* order it removed at once
Report(c, places) ==
    /\ places \subseteq present \ kept[c]
    /\ notice' = [p \in Place |-> IF p \in places /\ notice[p] = Unreported
                                  THEN 0 ELSE notice[p]]
    /\ \/ UNCHANGED <<kept, order>>
       \/ kept' = [kept EXCEPT ![c] = Place] /\ UNCHANGED order
       \/ /\ Live /\ c \notin Patient /\ order[c] = NoPlace
          /\ \E p \in places : order' = [order EXCEPT ![c] = p]
          /\ UNCHANGED kept
    /\ UNCHANGED <<claims, present, lines>>

Order(c, p) ==
    /\ Live /\ c \in Patient /\ order[c] = NoPlace
    /\ p \notin kept[c] /\ notice[p] = Wait
    /\ order' = [order EXCEPT ![c] = p]
    /\ UNCHANGED <<claims, present, lines, notice, kept>>

Unlist(c) ==
    /\ order[c] # NoPlace
    /\ lines' = lines \ {order[c]}
    /\ UNCHANGED <<claims, present, notice, kept, order>>

\* A removal that fails leaves the place itself, and any part of what is below
Remove(c) ==
    /\ order[c] # NoPlace
    /\ present' \subseteq present /\ present \ Below[order[c]] \subseteq present'
    /\ \/ order[c] \in present => order[c] \in present'
       \/ present' = present \ Below[order[c]]
    /\ order' = [order EXCEPT ![c] = NoPlace]
    /\ kept' \in {kept, [kept EXCEPT ![c] = Place]}
    /\ UNCHANGED <<claims, lines, notice>>

Rest(c) ==
    /\ order[c] = NoPlace
    /\ kept' = [kept EXCEPT ![c] = Place]
    /\ UNCHANGED <<claims, present, lines, notice, order>>

\* Reports and orders are forgotten, never what was removed
Forget ==
    /\ notice' = [p \in Place |-> Unreported]
    /\ kept' = [c \in Cleaner |-> Place]
    /\ order' = [c \in Cleaner |-> NoPlace]
    /\ UNCHANGED <<claims, present, lines>>

Next ==
    \/ Others \/ Pass \/ Forget
    \/ \E c \in Cleaner :
          \/ Look(c) \/ Unlist(c) \/ Remove(c) \/ Rest(c)
          \/ \E places \in SUBSET Place : Report(c, places)
          \/ \E p \in Place : Order(c, p)

Spec == Init /\ [][Next]_cleanerVars
=============================================================================
