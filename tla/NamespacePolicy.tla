--------------------------- MODULE NamespacePolicy ---------------------------
(***************************************************************************)
(* The quota policies of namespaces, internal/policy/policy.go, and the    *)
(* two pages of the UI that ask for them: all policies, and the volumes    *)
(* that violate the policy of their namespace.                             *)
(*                                                                         *)
(* A request is a row of calls to the API server.  It lists volumes or     *)
(* namespaces, and then asks for the LimitRanges, the ResourceQuotas and,  *)
(* if there was no limit for claims, the annotations of each namespace, in *)
(* calls of their own; what they return changes between the calls, and     *)
(* each may fail, which the code takes for an empty answer.                *)
(***************************************************************************)
EXTENDS Integers, Sequences

CONSTANTS
    Namespace,
    NoNamespace,  \* of a PV without a claim, or of no namespace at hand
    PV,
    PVState,      \* what a PV may be: its claim's namespace and its capacity
    RangeList,    \* what a namespace may have for LimitRanges
    Hard,         \* its storage ResourceQuota; 0 is none
    NoteSet,      \* its two annotations
    MaxChanges    \* bound on changes of the cluster during one request

Unit == {"", "K", "M", "G", "T", "Ki", "Mi", "Gi", "Ti"}

\* A LimitRange in the order of the API's list; limits of 0 are absent ones
LimitRange == [claim : BOOLEAN, max : Nat, min : Nat, def : Nat, request : Nat]
Note       == [num : Int, unit : Unit \cup {"absent", "malformed"}]
Notes      == [def : Note, max : Note]

ASSUME NamespaceAssumption == NoNamespace \notin Namespace
ASSUME PVStateAssumption ==
    PVState \subseteq [ns : Namespace \cup {NoNamespace}, cap : Nat]
ASSUME SourceAssumption ==
    RangeList \subseteq Seq(LimitRange) /\ Hard \subseteq Nat /\ NoteSet \subseteq Notes
ASSUME ChangesAssumption == MaxChanges \in Nat

VARIABLES
    pvs,      \* the cluster: its PVs
    ranges,   \* LimitRanges of each namespace
    hard,     \* ResourceQuota of each namespace
    notes,    \* annotations of each namespace
    ask,      \* the request: for what, where it is, the namespace at hand
    left,     \* PVs it has listed and not yet judged
    names,    \* namespaces it has found and not yet looked up
    pol,      \* the policy it is putting together
    cache,    \* the policies it has
    found,    \* the violations it has found
    stood,    \* history: limits that stood in each namespace since it began
    trouble,  \* history: did something change, did a call fail since it began?
    changes

cluster == <<pvs, ranges, hard, notes>>
work == <<left, names, pol, cache, found>>
past == <<stood, trouble, changes>>
policyVars == <<pvs, ranges, hard, notes, ask, left, names, pol, cache, found,
                stood, trouble, changes>>

Kind == {"violations", "policies"}
PolicySource == {"unread", "None", "LimitRange", "Annotation", "NoRange"}
Policy == [source : PolicySource, max : Int, min : Int, def : Int, hard : Nat]

None   == [source |-> "None", max |-> 0, min |-> 0, def |-> 0, hard |-> 0]
Unread == [None EXCEPT !.source = "unread"]
NoAsk  == [kind |-> "violations", pc |-> "idle", ns |-> NoNamespace]

-----------------------------------------------------------------------------
Multiplier(unit) ==
    CASE unit = ""   -> 1
      [] unit = "K"  -> 1000
      [] unit = "M"  -> 1000 * 1000
      [] unit = "G"  -> 1000 * 1000 * 1000
      [] unit = "T"  -> 1000 * 1000 * 1000 * 1000
      [] unit = "Ki" -> 1024
      [] unit = "Mi" -> 1024 * 1024
      [] unit = "Gi" -> 1024 * 1024 * 1024
      [] unit = "Ti" -> 1024 * 1024 * 1024 * 1024

Parses(note) == note.unit \in Unit
ParseQuotaSize(note) == note.num * Multiplier(note.unit)

\* Mutant: the loop over the LimitRanges goes on after a match
FirstClaimLimitLast(list) ==
    LET i == CHOOSE i \in DOMAIN list :
                list[i].claim /\ \A j \in DOMAIN list : list[j].claim => j <= i
    IN  list[i]

HasClaimLimit(list) == \E i \in DOMAIN list : list[i].claim
FirstClaimLimit(list) ==
    LET i == CHOOSE i \in DOMAIN list :
                list[i].claim /\ \A j \in DOMAIN list : list[j].claim => i <= j
    IN  list[i]

\* What the LimitRanges say; a default request stands in for a missing default
FromRanges(list) ==
    IF ~HasClaimLimit(list) THEN [None EXCEPT !.source = "NoRange"]
    ELSE LET l == FirstClaimLimit(list) IN
         [None EXCEPT !.source = "LimitRange", !.max = l.max, !.min = l.min,
                      !.def = IF l.def = 0 THEN l.request ELSE l.def]

\* What the annotations say: one that does not parse is passed over
FromNotes(n) ==
    [source |-> IF Parses(n.def) \/ Parses(n.max) THEN "Annotation" ELSE "None",
     max |-> IF Parses(n.max) THEN ParseQuotaSize(n.max) ELSE 0, min |-> 0,
     def |-> IF Parses(n.def) THEN ParseQuotaSize(n.def) ELSE 0, hard |-> 0]

-----------------------------------------------------------------------------
PolicyInit ==
    /\ pvs \in [PV -> PVState]
    /\ ranges \in [Namespace -> RangeList]
    /\ hard \in [Namespace -> Hard]
    /\ notes \in [Namespace -> NoteSet]
    /\ ask = NoAsk
    /\ left = {} /\ names = {} /\ pol = None /\ found = {}
    /\ cache = [n \in Namespace |-> Unread]
    /\ stood = [n \in Namespace |-> {FromRanges(ranges[n]), FromNotes(notes[n])}]
    /\ trouble = "none" /\ changes = 0

\* The users of the cluster, at any point of a request
PolicyChange ==
    /\ ask.pc \notin {"idle", "answered", "error"}
    /\ changes < MaxChanges /\ changes' = changes + 1
    /\ trouble' = IF trouble = "failed" THEN "failed" ELSE "changed"
    /\ UNCHANGED <<ask, work>>

ChangePV(pv, state) ==
    /\ PolicyChange
    /\ pvs' = [pvs EXCEPT ![pv] = state]
    /\ UNCHANGED <<ranges, hard, notes, stood>>

ChangeRanges(n, list) ==
    /\ PolicyChange
    /\ ranges' = [ranges EXCEPT ![n] = list]
    /\ stood'  = [stood EXCEPT ![n] = @ \cup {FromRanges(list)}]
    /\ UNCHANGED <<pvs, hard, notes>>

ChangeHard(n, rq) ==
    /\ PolicyChange
    /\ hard' = [hard EXCEPT ![n] = rq]
    /\ UNCHANGED <<pvs, ranges, notes, stood>>

ChangeNotes(n, note) ==
    /\ PolicyChange
    /\ notes' = [notes EXCEPT ![n] = note]
    /\ stood' = [stood EXCEPT ![n] = @ \cup {FromNotes(note)}]
    /\ UNCHANGED <<pvs, ranges, hard>>

-----------------------------------------------------------------------------
Goto(pc) == ask' = [ask EXCEPT !.pc = pc]
Calm == UNCHANGED <<cluster, past>>

\* handleAPIViolations and handleAPIPolicies.  Requests share nothing, so that
\* one, begun in any state of the cluster, stands for all.
Ask(kind) ==
    /\ ask.pc = "idle"
    /\ ask' = [kind |-> kind, ns |-> NoNamespace,
               pc |-> IF kind = "violations" THEN "volumes" ELSE "allRanges"]
    /\ UNCHANGED work /\ Calm

\* One call for all PVs; those without a claim are passed over
ListVolumes ==
    /\ ask.pc = "volumes" /\ Goto("each")
    /\ left' = {[pv |-> pv, ns |-> pvs[pv].ns, cap |-> pvs[pv].cap] :
                    pv \in {q \in PV : pvs[q].ns # NoNamespace}}
    /\ UNCHANGED <<names, pol, cache, found>> /\ Calm

\* GetAllNamespacePolicies: three calls for the namespaces that have anything
Notices(from, to, some) ==
    /\ ask.pc = from /\ Goto(to)
    /\ names' = names \cup some
    /\ UNCHANGED <<left, pol, cache, found>> /\ Calm

Annotated(n) == notes[n].def.unit # "absent" \/ notes[n].max.unit # "absent"

ListAllRanges == Notices("allRanges", "allQuotas", {n \in Namespace : HasClaimLimit(ranges[n])})
ListAllQuotas == Notices("allQuotas", "allNotes", {n \in Namespace : hard[n] # 0})
ListAllNotes  == Notices("allNotes", "each", {n \in Namespace : Annotated(n)})

\* Mutant: the cache is not asked first
LookUpAgain(n) ==
    /\ ask.pc = "each"
    /\ \/ n \in names
       \/ \E v \in left : v.ns = n
    /\ ask' = [ask EXCEPT !.pc = "ranges", !.ns = n]
    /\ names' = names \ {n}
    /\ UNCHANGED <<left, pol, cache, found>> /\ Calm

\* GetNamespacePolicy begins, for a namespace that is not in the cache yet
LookUp(n) ==
    /\ ask.pc = "each" /\ cache[n] = Unread
    /\ \/ n \in names
       \/ \E v \in left : v.ns = n
    /\ ask' = [ask EXCEPT !.pc = "ranges", !.ns = n]
    /\ names' = names \ {n}
    /\ UNCHANGED <<left, pol, cache, found>> /\ Calm

GetRanges ==
    /\ ask.pc = "ranges" /\ Goto("quotas")
    /\ pol' = IF HasClaimLimit(ranges[ask.ns]) THEN FromRanges(ranges[ask.ns]) ELSE pol
    /\ UNCHANGED <<left, names, cache, found>> /\ Calm

\* GetNamespacePolicy returns p, which goes into the cache
Settle(p) ==
    /\ cache' = [cache EXCEPT ![ask.ns] = p]
    /\ pol' = None
    /\ ask' = [ask EXCEPT !.pc = "each", !.ns = NoNamespace]

\* Mutant: the annotations are read whatever the LimitRanges said
GoesOnToNotes(p) == pol' = p /\ Goto("notes") /\ UNCHANGED cache

\* The annotations are asked for only if no LimitRange had a limit for claims
GoesOnWith(p) ==
    IF p.source = "None" THEN pol' = p /\ Goto("notes") /\ UNCHANGED cache
                         ELSE Settle(p)

GetQuotas ==
    /\ ask.pc = "quotas" /\ GoesOnWith([pol EXCEPT !.hard = hard[ask.ns]])
    /\ UNCHANGED <<left, names, found>> /\ Calm

GetNotes ==
    /\ ask.pc = "notes"
    /\ Settle([FromNotes(notes[ask.ns]) EXCEPT !.hard = pol.hard])
    /\ UNCHANGED <<left, names, found>> /\ Calm

\* The checks of one volume against the policy in the cache
Verdict(v, type, limit) ==
    [pv |-> v.pv, ns |-> v.ns, cap |-> v.cap, type |-> type, limit |-> limit]

Against(v, p) ==
    (IF p.max > 0 /\ v.cap > p.max THEN {Verdict(v, "exceeds_max", p.max)} ELSE {}) \cup
    (IF p.min > 0 /\ v.cap < p.min THEN {Verdict(v, "below_min", p.min)} ELSE {})

\* Mutant: every volume asks for the policy of its namespace anew
JudgeAfresh(v) ==
    /\ ask.pc = "each" /\ v \in left /\ cache[v.ns] # Unread
    /\ left' = left \ {v}
    /\ found' = IF v.cap = 0 THEN found ELSE found \cup Against(v, cache[v.ns])
    /\ cache' = [cache EXCEPT ![v.ns] = Unread]
    /\ UNCHANGED <<ask, names, pol>> /\ Calm

Judge(v) ==
    /\ ask.pc = "each" /\ v \in left /\ cache[v.ns] # Unread
    /\ left' = left \ {v}
    /\ found' = IF v.cap = 0 THEN found ELSE found \cup Against(v, cache[v.ns])
    /\ UNCHANGED <<ask, names, pol, cache>> /\ Calm

Answer ==
    /\ ask.pc = "each" /\ left = {} /\ names = {} /\ Goto("answered")
    /\ UNCHANGED work /\ Calm

\* A failed call: fatal for the list of PVs, an empty answer anywhere else
CallFails ==
    /\ trouble' = "failed" /\ UNCHANGED <<stood, changes, cluster>>
    /\ UNCHANGED <<left, names, found>>
    /\ \/ ask.pc = "volumes" /\ Goto("error") /\ UNCHANGED <<pol, cache>>
       \/ ask.pc = "allRanges" /\ Goto("allQuotas") /\ UNCHANGED <<pol, cache>>
       \/ ask.pc = "allQuotas" /\ Goto("allNotes") /\ UNCHANGED <<pol, cache>>
       \/ ask.pc = "allNotes" /\ Goto("each") /\ UNCHANGED <<pol, cache>>
       \/ ask.pc = "ranges" /\ Goto("quotas") /\ UNCHANGED <<pol, cache>>
       \/ ask.pc = "quotas" /\ GoesOnWith(pol)
       \/ ask.pc = "notes" /\ Settle(pol)

Request ==
    \/ \E kind \in Kind : Ask(kind)
    \/ ListVolumes \/ ListAllRanges \/ ListAllQuotas \/ ListAllNotes
    \/ \E n \in Namespace : LookUp(n)
    \/ GetRanges \/ GetQuotas \/ GetNotes
    \/ \E v \in left : Judge(v)
    \/ Answer \/ CallFails

ClusterChanges ==
    \/ \E pv \in PV, state \in PVState : ChangePV(pv, state)
    \/ \E n \in Namespace :
          \/ \E list \in RangeList : ChangeRanges(n, list)
          \/ \E rq \in Hard : ChangeHard(n, rq)
          \/ \E note \in NoteSet : ChangeNotes(n, note)

PolicyNext == Request \/ ClusterChanges

PolicySpec == PolicyInit /\ [][PolicyNext]_policyVars

-----------------------------------------------------------------------------
ListedPV  == [pv : PV, ns : Namespace, cap : Nat]
Violation == [pv : PV, ns : Namespace, cap : Nat,
              type : {"exceeds_max", "below_min"}, limit : Int]
LookingUp == {"ranges", "quotas", "notes"}

\* Every variable has its type; a request has a namespace at hand exactly while it
\* looks it up, and never looks up one that is in its cache.
PolicyTypeOK ==
    /\ pvs \in [PV -> PVState] /\ ranges \in [Namespace -> RangeList]
    /\ hard \in [Namespace -> Hard] /\ notes \in [Namespace -> NoteSet]
    /\ ask \in [kind : Kind, ns : Namespace \cup {NoNamespace},
                pc : {"idle", "volumes", "allRanges", "allQuotas", "allNotes", "each",
                      "answered", "error"} \cup LookingUp]
    /\ left \subseteq ListedPV /\ names \subseteq Namespace /\ found \subseteq Violation
    /\ pol \in Policy /\ cache \in [Namespace -> Policy]
    /\ stood \in [Namespace -> SUBSET Policy]
    /\ trouble \in {"none", "changed", "failed"} /\ changes \in 0..MaxChanges
    /\ IF ask.pc \in LookingUp
       THEN ask.ns \in Namespace /\ cache[ask.ns] = Unread
       ELSE ask.ns = NoNamespace /\ pol = None

Limits(p) == [p EXCEPT !.hard = 0]
NoRange == [None EXCEPT !.source = "NoRange"]

\* "Priority: LimitRange > Namespace Annotation": a policy that a request works with
\* is one that stood in the namespace while the request ran, whole and never mixed
\* of several; and the annotations, or nothing, stand in for the LimitRanges only
\* if there was a moment without any, or if a call failed.
LimitRangesComeFirst ==
    \A n \in Namespace :
        /\ cache[n].source \in {"LimitRange", "Annotation"} => Limits(cache[n]) \in stood[n]
        /\ cache[n].source \in {"Annotation", "None"} =>
              NoRange \in stood[n] \/ trouble = "failed"

\* All volumes of a namespace in one answer are held to the same limits, also if
\* these change between two volumes.
OneLimitPerNamespace ==
    \A x, y \in found : x.ns = y.ns /\ x.type = y.type => x.limit = y.limit

\* What stands in a namespace, and who violates it
Deciding(n) == {i \in DOMAIN ranges[n] :
    ranges[n][i].claim /\ \A j \in 1..(i - 1) : ~ranges[n][j].claim}
Ceiling(n) ==
    IF Deciding(n) # {} THEN ranges[n][CHOOSE i \in Deciding(n) : TRUE].max
    ELSE IF Parses(notes[n].max) THEN ParseQuotaSize(notes[n].max) ELSE 0
Floor(n) ==
    IF Deciding(n) # {} THEN ranges[n][CHOOSE i \in Deciding(n) : TRUE].min ELSE 0

TooLarge == {pv \in PV : LET n == pvs[pv].ns IN
                n # NoNamespace /\ Ceiling(n) > 0 /\ pvs[pv].cap > Ceiling(n)}
TooSmall == {pv \in PV : LET n == pvs[pv].ns IN
                n # NoNamespace /\ pvs[pv].cap # 0 /\ pvs[pv].cap < Floor(n)}
Violators(type) == {v.pv : v \in {w \in found : w.type = type}}
HasAny(n) == HasClaimLimit(ranges[n]) \/ hard[n] # 0 \/ Annotated(n)

\* If nothing changes and no call fails while a request runs, its answer is the
\* state of the cluster: every volume beyond its limits and no other, or the
\* policies of all namespaces that have any.
AnswersAreExact ==
    ask.pc = "answered" /\ trouble = "none" =>
        IF ask.kind = "violations"
        THEN Violators("exceeds_max") = TooLarge /\ Violators("below_min") = TooSmall
        ELSE \A n \in Namespace :
                IF HasAny(n) THEN /\ cache[n].max = Ceiling(n) /\ cache[n].min = Floor(n)
                                  /\ cache[n].hard = hard[n]
                             ELSE cache[n] = Unread
=============================================================================
