------------------------ MODULE NamespacePolicy_proofs ------------------------
(***************************************************************************)
(* What NamespacePolicy keeps, for any volumes, namespaces, LimitRanges,   *)
(* quotas and annotations, and any number of changes during a request.     *)
(***************************************************************************)
EXTENDS NamespacePolicy, TLAPS, WellFoundedInduction

-----------------------------------------------------------------------------
(***************************************************************************)
(* What the sources of a policy give.                                      *)
(***************************************************************************)

\* A set of numbers that is not empty has a least one
LEMMA LeastNumber ==
    ASSUME NEW S \in SUBSET Nat, S # {}
    PROVE  \E m \in S : \A k \in S : m <= k
<1> DEFINE Less == {ss \in Nat \X Nat : ss[1] < ss[2]}
<1>1. IsWellFoundedOn(Less, Nat)
  BY NatLessThanWellFounded DEF OpToRel
<1> HIDE DEF Less
<1>2. \E m \in S : \A k \in S : ~ (<<k, m>> \in Less)
  BY <1>1, WFMin
<1>3. PICK m \in S : \A k \in S : ~ (<<k, m>> \in Less)
  BY <1>2
<1>4. \A k \in S : m <= k
  <2> TAKE k \in S
  <2>1. m \in Nat /\ k \in Nat /\ <<k, m>> \notin Less
    BY <1>3
  <2> QED BY <2>1 DEF Less
<1> QED BY <1>4

\* The loop over the LimitRanges stops at one of them
LEMMA FirstIsLimit ==
    ASSUME NEW list \in Seq(LimitRange), HasClaimLimit(list)
    PROVE  FirstClaimLimit(list) \in LimitRange
<1> DEFINE S == {i \in DOMAIN list : list[i].claim}
<1>1. S \in SUBSET Nat /\ S # {}
  BY DEF HasClaimLimit
<1>2. \E i \in S : \A j \in S : i <= j
  BY <1>1, LeastNumber
<1>3. \E i \in DOMAIN list : list[i].claim /\ \A j \in DOMAIN list : list[j].claim => i <= j
  BY <1>2
<1> DEFINE i == CHOOSE i \in DOMAIN list :
                   list[i].claim /\ \A j \in DOMAIN list : list[j].claim => i <= j
<1>4. i \in DOMAIN list
  BY <1>3
<1>5. list[i] \in LimitRange
  BY <1>4
<1> QED BY <1>5 DEF FirstClaimLimit

LEMMA RangesGivePolicy ==
    ASSUME NEW list \in Seq(LimitRange)
    PROVE  /\ FromRanges(list) \in Policy
           /\ FromRanges(list).source = IF HasClaimLimit(list) THEN "LimitRange" ELSE "NoRange"
           /\ ~HasClaimLimit(list) => FromRanges(list) = NoRange
           /\ Limits(FromRanges(list)) = FromRanges(list)
<1>1. CASE HasClaimLimit(list)
  <2>1. PICK l \in LimitRange : l = FirstClaimLimit(list)
    BY <1>1, FirstIsLimit
  <2>2. FromRanges(list) = [source |-> "LimitRange", max |-> l.max, min |-> l.min,
                            def |-> IF l.def = 0 THEN l.request ELSE l.def, hard |-> 0]
    BY <1>1, <2>1 DEF FromRanges, None
  <2> QED BY <1>1, <2>2 DEF LimitRange, Policy, PolicySource, Limits
<1>2. CASE ~HasClaimLimit(list)
  <2>1. FromRanges(list) = NoRange
    BY <1>2 DEF FromRanges, NoRange
  <2>2. NoRange = [source |-> "NoRange", max |-> 0, min |-> 0, def |-> 0, hard |-> 0]
    BY DEF NoRange, None
  <2>3. NoRange \in Policy /\ NoRange.source = "NoRange" /\ Limits(NoRange) = NoRange
    BY <2>2 DEF Policy, PolicySource, Limits
  <2> QED BY <1>2, <2>1, <2>3
<1> QED BY <1>1, <1>2

LEMMA NotesGivePolicy ==
    ASSUME NEW note \in Notes
    PROVE  /\ FromNotes(note) \in Policy
           /\ FromNotes(note).source \in {"Annotation", "None"}
           /\ Limits(FromNotes(note)) = FromNotes(note)
<1>1. \A u \in Unit : Multiplier(u) \in Int
  <2> TAKE u \in Unit
  <2>1. /\ Multiplier("") \in Int /\ Multiplier("K") \in Int /\ Multiplier("M") \in Int
        /\ Multiplier("G") \in Int /\ Multiplier("T") \in Int
    BY DEF Multiplier
  <2>2. /\ Multiplier("Ki") \in Int /\ Multiplier("Mi") \in Int
        /\ Multiplier("Gi") \in Int /\ Multiplier("Ti") \in Int
    BY DEF Multiplier
  <2> QED BY <2>1, <2>2 DEF Unit
<1>2. \A t \in Note : Parses(t) => ParseQuotaSize(t) \in Int
  BY <1>1 DEF Note, Parses, ParseQuotaSize
<1>3. /\ (IF Parses(note.max) THEN ParseQuotaSize(note.max) ELSE 0) \in Int
      /\ (IF Parses(note.def) THEN ParseQuotaSize(note.def) ELSE 0) \in Int
  BY <1>2 DEF Notes
<1>4. (IF Parses(note.def) \/ Parses(note.max) THEN "Annotation" ELSE "None")
         \in {"Annotation", "None"}
  OBVIOUS
<1> QED BY <1>3, <1>4 DEF FromNotes, Policy, PolicySource, Limits

\* The ResourceQuota does not touch the limits
LEMMA HardKeepsLimits ==
    ASSUME NEW p \in Policy, NEW h \in Nat
    PROVE  /\ [p EXCEPT !.hard = h] \in Policy
           /\ [p EXCEPT !.hard = h].source = p.source
           /\ Limits([p EXCEPT !.hard = h]) = Limits(p)
  BY DEF Policy, Limits

LEMMA NoPolicies ==
    /\ None \in Policy /\ None.source = "None"
    /\ Unread \in Policy /\ Unread.source = "unread"
  BY DEF None, Unread, Policy, PolicySource

-----------------------------------------------------------------------------
\* What stands now has stood since the request began
Standing ==
    \A n \in Namespace :
        FromRanges(ranges[n]) \in stood[n] /\ FromNotes(notes[n]) \in stood[n]

\* What is known of the policy that is being put together
PolInv ==
    ask.pc \in LookingUp =>
        /\ pol.source \in {"None", "LimitRange"}
        /\ ask.pc = "ranges" => pol = None
        /\ ask.pc = "notes" => pol.source = "None"
        /\ pol.source = "LimitRange" => Limits(pol) \in stood[ask.ns]
        /\ pol.source = "None" /\ ask.pc # "ranges" =>
              NoRange \in stood[ask.ns] \/ trouble = "failed"

\* A violation tells the limit of the policy in the cache
FoundInv ==
    \A x \in found :
        /\ cache[x.ns] # Unread
        /\ x.limit = IF x.type = "exceeds_max" THEN cache[x.ns].max ELSE cache[x.ns].min

IInv == PolicyTypeOK /\ Standing /\ PolInv /\ LimitRangesComeFirst /\ FoundInv

LEMMA InitIInv == PolicyInit => IInv
<1> SUFFICES ASSUME PolicyInit PROVE IInv
  OBVIOUS
<1>1. \A n \in Namespace : ranges[n] \in Seq(LimitRange) /\ notes[n] \in Notes
  BY SourceAssumption DEF PolicyInit
<1>2. PolicyTypeOK
  <2>1. \A n \in Namespace : {FromRanges(ranges[n]), FromNotes(notes[n])} \in SUBSET Policy
    BY <1>1, RangesGivePolicy, NotesGivePolicy
  <2>2. stood \in [Namespace -> SUBSET Policy]
    BY <2>1 DEF PolicyInit
  <2>3. ask \in [kind : Kind, ns : Namespace \cup {NoNamespace}, pc : {"idle"}]
    BY DEF PolicyInit, NoAsk, Kind
  <2>4. changes \in 0..MaxChanges
    BY ChangesAssumption DEF PolicyInit
  <2> QED BY <2>2, <2>3, <2>4, NoPolicies DEF PolicyInit, PolicyTypeOK, LookingUp, NoAsk
<1>3. Standing
  BY DEF PolicyInit, Standing
<1>4. PolInv /\ LimitRangesComeFirst /\ FoundInv
  <2>1. \A n \in Namespace : cache[n].source = "unread"
    BY NoPolicies DEF PolicyInit
  <2> QED BY <2>1 DEF PolicyInit, NoAsk, PolInv, LookingUp, LimitRangesComeFirst, FoundInv
<1> QED BY <1>2, <1>3, <1>4 DEF IInv

-----------------------------------------------------------------------------
\* What the users do adds to what stood, and lets the request alone
LEMMA ChangesKeep ==
    ASSUME IInv, ClusterChanges
    PROVE  IInv'
<1>1. /\ changes \in Nat /\ changes' = changes + 1 /\ changes < MaxChanges
      /\ trouble' = IF trouble = "failed" THEN "failed" ELSE "changed"
      /\ UNCHANGED <<ask, left, names, pol, cache, found>>
  BY ChangesAssumption DEF ClusterChanges, ChangePV, ChangeRanges, ChangeHard, ChangeNotes, PolicyChange,
     work, IInv, PolicyTypeOK
<1>2. /\ pvs' \in [PV -> PVState] /\ ranges' \in [Namespace -> RangeList]
      /\ hard' \in [Namespace -> Hard] /\ notes' \in [Namespace -> NoteSet]
  BY DEF ClusterChanges, ChangePV, ChangeRanges, ChangeHard, ChangeNotes, IInv, PolicyTypeOK
<1> DEFINE Grows ==
       /\ stood' \in [Namespace -> SUBSET Policy]
       /\ \A n \in Namespace : /\ stood[n] \subseteq stood'[n]
                               /\ FromRanges(ranges'[n]) \in stood'[n]
                               /\ FromNotes(notes'[n]) \in stood'[n]
<1>3. Grows
  <2>0. /\ stood \in [Namespace -> SUBSET Policy]
        /\ ranges \in [Namespace -> RangeList] /\ notes \in [Namespace -> NoteSet]
        /\ \A n \in Namespace : FromRanges(ranges[n]) \in stood[n] /\ FromNotes(notes[n]) \in stood[n]
    BY DEF IInv, PolicyTypeOK, Standing
  <2>1. ASSUME NEW pv \in PV, NEW state \in PVState, ChangePV(pv, state) PROVE Grows
    BY <2>0, <2>1 DEF ChangePV
  <2>2. ASSUME NEW n \in Namespace, NEW rq \in Hard, ChangeHard(n, rq) PROVE Grows
    BY <2>0, <2>2 DEF ChangeHard
  <2>3. ASSUME NEW n \in Namespace, NEW list \in RangeList, ChangeRanges(n, list) PROVE Grows
    <3>1. FromRanges(list) \in Policy
      BY SourceAssumption, RangesGivePolicy
    <3> QED BY <2>0, <2>3, <3>1 DEF ChangeRanges
  <2>4. ASSUME NEW n \in Namespace, NEW note \in NoteSet, ChangeNotes(n, note) PROVE Grows
    <3>1. FromNotes(note) \in Policy
      BY SourceAssumption, NotesGivePolicy
    <3> QED BY <2>0, <2>4, <3>1 DEF ChangeNotes
  <2> QED BY <2>1, <2>2, <2>3, <2>4 DEF ClusterChanges
<1>4. PolicyTypeOK'
  BY <1>1, <1>2, <1>3, ChangesAssumption DEF IInv, PolicyTypeOK
<1>5. PolInv'
  <2>1. ask.pc \in LookingUp => ask.ns \in Namespace
    BY DEF IInv, PolicyTypeOK
  <2> QED BY <1>1, <1>3, <2>1 DEF IInv, PolInv
<1>6. Standing' /\ LimitRangesComeFirst'
  BY <1>1, <1>3 DEF IInv, Standing, LimitRangesComeFirst
<1>7. FoundInv'
  BY <1>1 DEF IInv, FoundInv
<1> QED BY <1>4, <1>5, <1>6, <1>7 DEF IInv

\* As long as a request has no policy in hand, it may move, list and judge
LEMMA ListsKeep ==
    ASSUME IInv, Calm, ask.pc \notin LookingUp, ask'.pc \notin LookingUp,
           ask' \in [kind : Kind, ns : {NoNamespace},
                     pc : {"idle", "volumes", "allRanges", "allQuotas", "allNotes", "each",
                           "answered", "error"}],
           left' \subseteq ListedPV, names' \subseteq Namespace, UNCHANGED <<pol, cache, found>>
    PROVE  IInv'
<1>1. PolicyTypeOK'
  BY DEF IInv, PolicyTypeOK, Calm, cluster, past
<1>2. Standing' /\ LimitRangesComeFirst' /\ FoundInv' /\ PolInv'
  BY DEF IInv, Standing, LimitRangesComeFirst, FoundInv, PolInv, Calm, cluster, past
<1> QED BY <1>1, <1>2 DEF IInv

\* A policy is done: it goes into the cache, where its namespace had none
LEMMA SettleKeeps ==
    ASSUME IInv, ask.pc \in LookingUp, UNCHANGED <<cluster, stood, changes, left, names, found>>,
           trouble' \in {trouble, "failed"},
           NEW p \in Policy, Settle(p),
           p.source \in {"None", "LimitRange", "Annotation"},
           p.source \in {"LimitRange", "Annotation"} => Limits(p) \in stood[ask.ns],
           p.source \in {"Annotation", "None"} => NoRange \in stood[ask.ns] \/ trouble' = "failed"
    PROVE  IInv'
<1>1. /\ ask.ns \in Namespace /\ cache[ask.ns] = Unread /\ cache \in [Namespace -> Policy]
      /\ cache' = [cache EXCEPT ![ask.ns] = p] /\ pol' = None
      /\ ask' = [ask EXCEPT !.pc = "each", !.ns = NoNamespace]
  BY DEF IInv, PolicyTypeOK, Settle
<1>2. PolicyTypeOK'
  <2>1. cache' \in [Namespace -> Policy]
    BY <1>1
  <2>2. /\ ask' \in [kind : Kind, ns : Namespace \cup {NoNamespace}, pc : {"each"}]
        /\ ask'.ns = NoNamespace
    BY <1>1 DEF IInv, PolicyTypeOK
  <2> QED BY <1>1, <2>1, <2>2, NoPolicies DEF IInv, PolicyTypeOK, LookingUp, cluster
<1>3. Standing'
  BY DEF IInv, Standing, cluster
<1>4. PolInv'
  BY <1>1 DEF PolInv, IInv, PolicyTypeOK, LookingUp
<1>5. LimitRangesComeFirst'
  BY <1>1 DEF IInv, LimitRangesComeFirst
<1>6. FoundInv'
  <2>1. \A x \in found : x.ns # ask.ns /\ x.ns \in Namespace
    BY <1>1, NoPolicies DEF IInv, FoundInv, PolicyTypeOK, Violation
  <2> QED BY <1>1, <2>1 DEF IInv, FoundInv
<1> QED BY <1>2, <1>3, <1>4, <1>5, <1>6 DEF IInv

\* A policy is in hand, and another call is needed for it
LEMMA CarryKeeps ==
    ASSUME IInv, ask.pc \in LookingUp, UNCHANGED <<cluster, stood, changes, left, names, cache, found>>,
           trouble' \in {trouble, "failed"},
           ask' = [ask EXCEPT !.pc = "quotas"] \/ ask' = [ask EXCEPT !.pc = "notes"],
           pol' \in Policy, pol'.source \in {"None", "LimitRange"},
           ask'.pc = "notes" => pol'.source = "None",
           pol'.source = "LimitRange" => Limits(pol') \in stood[ask.ns],
           pol'.source = "None" => NoRange \in stood[ask.ns] \/ trouble' = "failed"
    PROVE  IInv'
<1>1. /\ ask.ns \in Namespace /\ cache[ask.ns] = Unread
      /\ ask' \in [kind : Kind, ns : Namespace \cup {NoNamespace}, pc : {"quotas", "notes"}]
      /\ ask'.ns = ask.ns
  BY DEF IInv, PolicyTypeOK
<1>2. PolicyTypeOK'
  BY <1>1 DEF IInv, PolicyTypeOK, LookingUp, cluster
<1>3. Standing' /\ LimitRangesComeFirst' /\ FoundInv'
  BY DEF IInv, Standing, LimitRangesComeFirst, FoundInv, cluster
<1>4. PolInv'
  BY <1>1 DEF PolInv, LookingUp
<1> QED BY <1>2, <1>3, <1>4 DEF IInv

\* GetNamespacePolicy after the ResourceQuotas: done, unless there was no limit
LEMMA GoesOnKeeps ==
    ASSUME IInv, ask.pc = "quotas", UNCHANGED <<cluster, stood, changes, left, names, found>>,
           trouble' \in {trouble, "failed"},
           NEW h \in Nat, NEW p \in Policy, p = pol \/ p = [pol EXCEPT !.hard = h], GoesOnWith(p)
    PROVE  IInv'
<1>1. pol \in Policy /\ ask.pc \in LookingUp
  BY DEF IInv, PolicyTypeOK, LookingUp
<1>2. p.source = pol.source /\ Limits(p) = Limits(pol)
  BY <1>1, HardKeepsLimits
<1>3. /\ p.source \in {"None", "LimitRange"}
      /\ p.source = "LimitRange" => Limits(p) \in stood[ask.ns]
      /\ p.source = "None" => NoRange \in stood[ask.ns] \/ trouble' = "failed"
  BY <1>1, <1>2 DEF IInv, PolInv
<1>4. CASE p.source = "None"
  <2>1. pol' = p /\ ask' = [ask EXCEPT !.pc = "notes"] /\ cache' = cache
    BY <1>4 DEF GoesOnWith, Goto
  <2> QED BY <1>1, <1>3, <1>4, <2>1, CarryKeeps
<1>5. CASE p.source # "None"
  <2>1. Settle(p)
    BY <1>5 DEF GoesOnWith
  <2> QED BY <1>1, <1>3, <1>5, <2>1, SettleKeeps
<1> QED BY <1>4, <1>5

\* What a volume is found to violate is of the policy in the cache
LEMMA JudgeKeeps ==
    ASSUME IInv, NEW v \in left, Judge(v)
    PROVE  IInv'
<1>1. /\ v \in ListedPV /\ v.ns \in Namespace /\ cache[v.ns] \in Policy /\ cache[v.ns] # Unread
      /\ UNCHANGED <<ask, names, pol, cache, cluster, past>> /\ left' \subseteq left
      /\ found' \subseteq found \cup Against(v, cache[v.ns])
  BY DEF IInv, PolicyTypeOK, ListedPV, Judge, Calm
<1>2. \A x \in Against(v, cache[v.ns]) :
         /\ x \in Violation /\ x.ns = v.ns
         /\ x.limit = IF x.type = "exceeds_max" THEN cache[v.ns].max ELSE cache[v.ns].min
  BY <1>1 DEF Against, Verdict, ListedPV, Policy, Violation
<1>3. PolicyTypeOK'
  BY <1>1, <1>2 DEF IInv, PolicyTypeOK, cluster, past
<1>4. FoundInv'
  BY <1>1, <1>2 DEF IInv, FoundInv
<1>5. Standing' /\ LimitRangesComeFirst' /\ PolInv'
  BY <1>1 DEF IInv, Standing, LimitRangesComeFirst, PolInv, cluster, past
<1> QED BY <1>3, <1>4, <1>5 DEF IInv

-----------------------------------------------------------------------------
\* The calls that list volumes and namespaces, and the end
LEMMA ListingKeeps ==
    ASSUME IInv,
           (\E kind \in Kind : Ask(kind)) \/ ListVolumes \/ ListAllRanges \/ ListAllQuotas
              \/ ListAllNotes \/ Answer
    PROVE  IInv'
<1> DEFINE Lists ==
       /\ Calm /\ ask.pc \notin LookingUp /\ ask'.pc \notin LookingUp
       /\ ask' \in [kind : Kind, ns : {NoNamespace},
                    pc : {"idle", "volumes", "allRanges", "allQuotas", "allNotes", "each",
                          "answered", "error"}]
       /\ left' \subseteq ListedPV /\ names' \subseteq Namespace /\ UNCHANGED <<pol, cache, found>>
<1>1. /\ ask \in [kind : Kind, ns : Namespace \cup {NoNamespace},
                  pc : {"idle", "volumes", "allRanges", "allQuotas", "allNotes", "each",
                        "answered", "error"} \cup LookingUp]
      /\ ask.pc \notin LookingUp => ask.ns = NoNamespace
      /\ left \subseteq ListedPV /\ names \subseteq Namespace /\ pvs \in [PV -> PVState]
  BY DEF IInv, PolicyTypeOK
<1>2. ASSUME NEW kind \in Kind, Ask(kind) PROVE Lists
  BY <1>1, <1>2 DEF Ask, work, LookingUp
<1>3. ASSUME ListVolumes PROVE Lists
  <2>1. \A pv \in PV : pvs[pv].ns # NoNamespace =>
           [pv |-> pv, ns |-> pvs[pv].ns, cap |-> pvs[pv].cap] \in ListedPV
    BY <1>1, PVStateAssumption DEF ListedPV
  <2>2. left' \subseteq ListedPV
    BY <1>3, <2>1 DEF ListVolumes
  <2> QED BY <1>1, <1>3, <2>2 DEF ListVolumes, Goto, LookingUp
<1>4. ASSUME ListAllRanges \/ ListAllQuotas \/ ListAllNotes PROVE Lists
  BY <1>1, <1>4 DEF ListAllRanges, ListAllQuotas, ListAllNotes, Notices, Goto, LookingUp
<1>5. ASSUME Answer PROVE Lists
  BY <1>1, <1>5 DEF Answer, Goto, work, LookingUp
<1>6. Lists
  BY <1>2, <1>3, <1>4, <1>5
<1> QED BY <1>6, ListsKeep

\* A lookup begins with an empty policy, for a namespace that is not in the cache
LEMMA LookUpKeeps ==
    ASSUME IInv, NEW n \in Namespace, LookUp(n)
    PROVE  IInv'
<1>1. /\ pol = None /\ ask' = [ask EXCEPT !.pc = "ranges", !.ns = n] /\ cache[n] = Unread
      /\ names' \subseteq names /\ UNCHANGED <<left, pol, cache, found>>
      /\ UNCHANGED <<cluster, past>>
  BY DEF LookUp, Calm, IInv, PolicyTypeOK, LookingUp
<1>2. /\ ask' \in [kind : Kind, ns : Namespace, pc : {"ranges"}] /\ ask'.ns = n
      /\ ask'.pc = "ranges"
  BY <1>1 DEF IInv, PolicyTypeOK
<1>3. PolicyTypeOK'
  BY <1>1, <1>2 DEF IInv, PolicyTypeOK, LookingUp, cluster, past
<1>4. PolInv'
  BY <1>1, <1>2, NoPolicies DEF PolInv
<1>5. Standing' /\ LimitRangesComeFirst' /\ FoundInv'
  BY <1>1 DEF IInv, Standing, LimitRangesComeFirst, FoundInv, cluster, past
<1> QED BY <1>3, <1>4, <1>5 DEF IInv

\* The three calls for one namespace
LEMMA GetsKeep ==
    ASSUME IInv, GetRanges \/ GetQuotas \/ GetNotes
    PROVE  IInv'
<1>1. /\ ranges \in [Namespace -> Seq(LimitRange)] /\ hard \in [Namespace -> Nat]
      /\ notes \in [Namespace -> Notes] /\ pol \in Policy
      /\ UNCHANGED <<cluster, stood, trouble, changes>>
  BY SourceAssumption DEF IInv, PolicyTypeOK, GetRanges, GetQuotas, GetNotes, Calm, past
<1>2. CASE GetRanges
  <2>1. /\ ask.pc = "ranges" /\ ask.pc \in LookingUp /\ ask' = [ask EXCEPT !.pc = "quotas"]
        /\ UNCHANGED <<left, names, cache, found>> /\ pol = None /\ ask.ns \in Namespace
        /\ pol' = IF HasClaimLimit(ranges[ask.ns]) THEN FromRanges(ranges[ask.ns]) ELSE None
    BY <1>2 DEF GetRanges, Goto, IInv, PolicyTypeOK, PolInv, LookingUp
  <2>2. FromRanges(ranges[ask.ns]) \in stood[ask.ns]
    BY <2>1 DEF IInv, Standing
  <2>3. /\ pol' \in Policy /\ pol'.source \in {"None", "LimitRange"}
        /\ pol'.source = "LimitRange" => Limits(pol') \in stood[ask.ns]
        /\ pol'.source = "None" => NoRange \in stood[ask.ns]
    BY <1>1, <2>1, <2>2, RangesGivePolicy, NoPolicies
  <2>4. ask'.pc = "quotas"
    BY <2>1 DEF IInv, PolicyTypeOK
  <2> QED BY <1>1, <2>1, <2>3, <2>4, CarryKeeps
<1>3. CASE GetQuotas
  <2>1. /\ ask.pc = "quotas" /\ UNCHANGED <<left, names, found>> /\ ask.ns \in Namespace
        /\ GoesOnWith([pol EXCEPT !.hard = hard[ask.ns]])
    BY <1>3 DEF GetQuotas, IInv, PolicyTypeOK, LookingUp
  <2>2. hard[ask.ns] \in Nat /\ [pol EXCEPT !.hard = hard[ask.ns]] \in Policy
    BY <1>1, <2>1, HardKeepsLimits
  <2> QED BY <1>1, <2>1, <2>2, GoesOnKeeps
<1>4. CASE GetNotes
  <2>a. ask.pc = "notes" /\ ask.pc \in LookingUp
    BY <1>4 DEF GetNotes, LookingUp
  <2>b. ask.ns \in Namespace
    BY <2>a DEF IInv, PolicyTypeOK
  <2>c. pol.hard \in Nat
    BY <1>1 DEF Policy
  <2>d. /\ Settle([FromNotes(notes[ask.ns]) EXCEPT !.hard = pol.hard])
        /\ UNCHANGED <<left, names, found>>
    BY <1>4 DEF GetNotes
  <2>1. /\ ask.pc = "notes" /\ ask.pc \in LookingUp /\ UNCHANGED <<left, names, found>>
        /\ ask.ns \in Namespace /\ pol.hard \in Nat
        /\ Settle([FromNotes(notes[ask.ns]) EXCEPT !.hard = pol.hard])
    BY <2>a, <2>b, <2>c, <2>d
  <2>2. PICK f \in Policy : /\ f = FromNotes(notes[ask.ns]) /\ f \in stood[ask.ns]
                            /\ f.source \in {"Annotation", "None"} /\ Limits(f) = f
    BY <1>1, <2>1, NotesGivePolicy DEF IInv, Standing
  <2>3. PICK p \in Policy : /\ p = [FromNotes(notes[ask.ns]) EXCEPT !.hard = pol.hard]
                            /\ p.source = f.source /\ Limits(p) = f
    BY <2>1, <2>2, HardKeepsLimits, ZenonT(30)
  <2>4. NoRange \in stood[ask.ns] \/ trouble' = "failed"
    BY <1>1, <2>1 DEF IInv, PolInv
  <2>5. Settle(p)
    BY <2>1, <2>3
  <2> QED BY <1>1, <2>1, <2>2, <2>3, <2>4, <2>5, SettleKeeps
<1> QED BY <1>2, <1>3, <1>4

\* A failed call is an empty answer: only then may a limit be missed that stood
LEMMA FailureKeeps ==
    ASSUME IInv, CallFails
    PROVE  IInv'
<1>1. /\ trouble' = "failed" /\ UNCHANGED <<cluster, stood, changes, left, names, found>>
      /\ pol \in Policy
  BY DEF CallFails, IInv, PolicyTypeOK
<1>2. CASE ask.pc = "ranges" /\ Goto("quotas") /\ UNCHANGED <<pol, cache>>
  <2>1. /\ ask.pc \in LookingUp /\ ask' = [ask EXCEPT !.pc = "quotas"] /\ pol' = None
        /\ ask'.pc = "quotas"
    BY <1>2 DEF Goto, LookingUp, IInv, PolInv, PolicyTypeOK
  <2> QED BY <1>1, <1>2, <2>1, NoPolicies, CarryKeeps
<1>3. CASE ask.pc = "quotas" /\ GoesOnWith(pol)
  BY <1>1, <1>3, GoesOnKeeps
<1>4. CASE ask.pc = "notes" /\ Settle(pol)
  <2>1. ask.pc \in LookingUp /\ pol.source = "None"
    BY <1>4 DEF LookingUp, IInv, PolInv
  <2> QED BY <1>1, <1>4, <2>1, SettleKeeps
<1>5. CASE ask.pc \in {"volumes", "allRanges", "allQuotas", "allNotes"}
  <2>1. PICK to \in {"error", "allQuotas", "allNotes", "each"} :
           ask' = [ask EXCEPT !.pc = to] /\ UNCHANGED <<pol, cache>>
    BY <1>5 DEF CallFails, Goto
  <2>2. /\ ask' \in [kind : Kind, ns : {NoNamespace}, pc : {"error", "allQuotas", "allNotes", "each"}]
        /\ ask'.pc \notin LookingUp /\ ask'.ns = NoNamespace /\ pol = None
    BY <1>5, <2>1 DEF IInv, PolicyTypeOK, LookingUp
  <2>3. PolicyTypeOK'
    BY <1>1, <2>1, <2>2 DEF IInv, PolicyTypeOK, cluster
  <2>4. Standing' /\ LimitRangesComeFirst' /\ FoundInv' /\ PolInv'
    BY <1>1, <2>1, <2>2 DEF IInv, Standing, LimitRangesComeFirst, FoundInv, PolInv, cluster
  <2> QED BY <2>3, <2>4 DEF IInv
<1> QED BY <1>2, <1>3, <1>4, <1>5 DEF CallFails

LEMMA NextIInv == IInv /\ [PolicyNext]_policyVars => IInv'
<1> SUFFICES ASSUME IInv, [PolicyNext]_policyVars PROVE IInv'
  OBVIOUS
<1>1. CASE UNCHANGED policyVars
  BY <1>1 DEF policyVars, IInv, PolicyTypeOK, Standing, PolInv, LimitRangesComeFirst, FoundInv
<1>2. CASE Request
  BY <1>2, ListingKeeps, LookUpKeeps, GetsKeep, JudgeKeeps, FailureKeeps DEF Request
<1> QED BY <1>1, <1>2, ChangesKeep DEF PolicyNext

-----------------------------------------------------------------------------
\* The variables keep their types, and no namespace is looked up twice.
THEOREM PolicyTypeCorrect == PolicySpec => []PolicyTypeOK
<1>1. IInv => PolicyTypeOK
  BY DEF IInv
<1> QED BY <1>1, InitIInv, NextIInv, PTL DEF PolicySpec

(***************************************************************************)
(* A policy is one that stood during the request, and annotations stand in *)
(* only where there was a moment without LimitRanges, or a failed call.    *)
(***************************************************************************)
THEOREM LimitRangesPrevail == PolicySpec => []LimitRangesComeFirst
<1>1. IInv => LimitRangesComeFirst
  BY DEF IInv
<1> QED BY <1>1, InitIInv, NextIInv, PTL DEF PolicySpec

(***************************************************************************)
(* The cache holds all volumes of a namespace to one policy, whatever      *)
(* changes while they are judged.                                          *)
(***************************************************************************)
THEOREM LimitsAreUniform == PolicySpec => []OneLimitPerNamespace
<1>1. IInv => OneLimitPerNamespace
  BY DEF IInv, FoundInv, OneLimitPerNamespace
<1> QED BY <1>1, InitIInv, NextIInv, PTL DEF PolicySpec

-----------------------------------------------------------------------------
(***************************************************************************)
(* A request during which nothing changes and no call fails.               *)
(***************************************************************************)

\* The policy that stands in a namespace
PolicyOf(n) ==
    [(IF HasClaimLimit(ranges[n]) THEN FromRanges(ranges[n]) ELSE FromNotes(notes[n]))
        EXCEPT !.hard = hard[n]]

\* What ListVolumes returns, and what Judge finds of one of them
Claimed == {[pv |-> pv, ns |-> pvs[pv].ns, cap |-> pvs[pv].cap] :
                pv \in {q \in PV : pvs[q].ns # NoNamespace}}
Judged(vol) == IF vol.cap = 0 THEN {} ELSE Against(vol, PolicyOf(vol.ns))

Begun == {"each", "answered"} \cup LookingUp

FreshExact ==
    /\ ask.pc \notin Begun => left = {} /\ found = {} /\ \A n \in Namespace : cache[n] = Unread
    /\ ask.pc \in {"idle", "volumes", "allRanges"} => names = {}

\* The policies that are in the cache, and the one being put together
CacheExact ==
    /\ \A n \in Namespace : cache[n] # Unread => cache[n] = PolicyOf(n)
    /\ ask.pc = "quotas" =>
          pol = IF HasClaimLimit(ranges[ask.ns]) THEN FromRanges(ranges[ask.ns]) ELSE None
    /\ ask.pc = "notes" =>
          ~HasClaimLimit(ranges[ask.ns]) /\ pol = [None EXCEPT !.hard = hard[ask.ns]]

\* Every volume is either still to be judged or has been
VolumesExact ==
    ask.kind = "violations" =>
        /\ ask.pc \notin {"allRanges", "allQuotas", "allNotes"}
        /\ ask.pc = "answered" => left = {}
        /\ ask.pc \in Begun =>
              /\ left \subseteq Claimed
              /\ found = UNION {Judged(vol) : vol \in Claimed \ left}

\* Every namespace that has anything is to be looked up, at hand, or in the cache
NamespacesExact ==
    ask.kind = "policies" =>
        /\ ask.pc # "volumes" /\ left = {}
        /\ ask.pc = "allQuotas" => names = {n \in Namespace : HasClaimLimit(ranges[n])}
        /\ ask.pc = "allNotes" => names = {n \in Namespace : HasClaimLimit(ranges[n]) \/ hard[n] # 0}
        /\ ask.pc = "answered" => names = {}
        /\ ask.pc \in Begun => \A n \in Namespace :
              HasAny(n) <=> n \in names \/ n = ask.ns \/ cache[n] # Unread

Exact == FreshExact /\ CacheExact /\ VolumesExact /\ NamespacesExact

ExactWhenCalm == trouble = "none" => Exact

\* The loop over the LimitRanges stops where the one that decides is
LEMMA FirstDecides ==
    ASSUME NEW n \in Namespace, ranges[n] \in Seq(LimitRange)
    PROVE  /\ HasClaimLimit(ranges[n]) <=> Deciding(n) # {}
           /\ HasClaimLimit(ranges[n]) =>
                 FirstClaimLimit(ranges[n]) = ranges[n][CHOOSE i \in Deciding(n) : TRUE]
<1> DEFINE list == ranges[n]
           S == {i \in DOMAIN list : list[i].claim}
           first == CHOOSE i \in DOMAIN list :
                       list[i].claim /\ \A j \in DOMAIN list : list[j].claim => i <= j
<1>1. Len(list) \in Nat /\ DOMAIN list = 1..Len(list)
  OBVIOUS
<1>2. ASSUME HasClaimLimit(list)
      PROVE  first \in DOMAIN list /\ list[first].claim
             /\ \A j \in DOMAIN list : list[j].claim => first <= j
  <2>1. S \in SUBSET Nat /\ S # {}
    BY <1>2 DEF HasClaimLimit
  <2>2. \E i \in S : \A j \in S : i <= j
    BY <2>1, LeastNumber
  <2>3. \E i \in DOMAIN list : list[i].claim /\ \A j \in DOMAIN list : list[j].claim => i <= j
    BY <2>2
  <2> QED BY <2>3
<1>3. Deciding(n) = {i \in DOMAIN list : list[i].claim /\ \A j \in 1..(i - 1) : ~list[j].claim}
  BY DEF Deciding
<1> HIDE DEF first, list
<1>4. ASSUME HasClaimLimit(list) PROVE Deciding(n) = {first}
  <2>1. first \in 1..Len(list) /\ list[first].claim
        /\ \A j \in 1..Len(list) : list[j].claim => first <= j
    BY <1>1, <1>2, <1>4
  <2>2. \A j \in 1..(first - 1) : ~list[j].claim
    <3> SUFFICES ASSUME NEW j \in 1..(first - 1), list[j].claim PROVE FALSE
      OBVIOUS
    <3>1. j \in 1..Len(list) /\ j < first
      BY <1>1, <2>1
    <3> QED BY <2>1, <3>1
  <2>3. first \in Deciding(n)
    BY <1>1, <1>3, <2>1, <2>2
  <2>4. ASSUME NEW i \in Deciding(n) PROVE i = first
    <3>1. i \in 1..Len(list) /\ list[i].claim /\ first <= i
      BY <1>1, <1>3, <2>1
    <3>2. ~(first \in 1..(i - 1))
      BY <1>3, <2>1
    <3> QED BY <1>1, <2>1, <3>1, <3>2
  <2> QED BY <2>3, <2>4
<1>5. ASSUME ~HasClaimLimit(list) PROVE Deciding(n) = {}
  BY <1>3, <1>5 DEF HasClaimLimit
<1>6. FirstClaimLimit(list) = list[first]
  BY DEF FirstClaimLimit, first
<1>7. ASSUME HasClaimLimit(list)
      PROVE  FirstClaimLimit(list) = list[CHOOSE i \in Deciding(n) : TRUE]
  <2>1. (CHOOSE i \in Deciding(n) : TRUE) = first
    BY <1>4, <1>7
  <2> QED BY <1>6, <2>1
<1> QED BY <1>4, <1>5, <1>7 DEF list

\* The policy that stands is the one the properties speak of
LEMMA PolicyOfFacts ==
    ASSUME PolicyTypeOK, NEW n \in Namespace
    PROVE  /\ PolicyOf(n) \in Policy /\ PolicyOf(n) # Unread
           /\ PolicyOf(n).max = Ceiling(n) /\ PolicyOf(n).min = Floor(n) /\ Floor(n) \in Nat
           /\ PolicyOf(n).hard = hard[n]
<1>1. /\ ranges[n] \in Seq(LimitRange) /\ notes[n] \in Notes /\ hard[n] \in Nat
  BY SourceAssumption DEF PolicyTypeOK
<1>2. /\ HasClaimLimit(ranges[n]) <=> Deciding(n) # {}
      /\ HasClaimLimit(ranges[n]) =>
            FirstClaimLimit(ranges[n]) = ranges[n][CHOOSE i \in Deciding(n) : TRUE]
  BY <1>1, FirstDecides
<1>3. CASE HasClaimLimit(ranges[n])
  <2>1. PICK l \in LimitRange : l = FirstClaimLimit(ranges[n])
    BY <1>1, <1>3, FirstIsLimit
  <2>2. Ceiling(n) = l.max /\ Floor(n) = l.min /\ l.min \in Nat
    BY <1>2, <1>3, <2>1 DEF Ceiling, Floor, LimitRange
  <2>3. FromRanges(ranges[n]) = [source |-> "LimitRange", max |-> l.max, min |-> l.min,
                            def |-> IF l.def = 0 THEN l.request ELSE l.def, hard |-> 0]
    BY <1>3, <2>1 DEF FromRanges, None
  <2>4. FromRanges(ranges[n]) \in Policy
    BY <1>1, RangesGivePolicy
  <2>5. /\ PolicyOf(n) = [FromRanges(ranges[n]) EXCEPT !.hard = hard[n]]
        /\ PolicyOf(n) \in Policy /\ PolicyOf(n).source = "LimitRange"
    BY <1>1, <1>3, <2>3, <2>4, HardKeepsLimits DEF PolicyOf
  <2> QED BY <2>2, <2>3, <2>5, NoPolicies
<1>4. CASE ~HasClaimLimit(ranges[n])
  <2>1. /\ Floor(n) = 0
        /\ Ceiling(n) = IF Parses(notes[n].max) THEN ParseQuotaSize(notes[n].max) ELSE 0
    BY <1>2, <1>4 DEF Ceiling, Floor
  <2>2. /\ FromNotes(notes[n]) \in Policy /\ FromNotes(notes[n]).source \in {"Annotation", "None"}
        /\ FromNotes(notes[n]).min = 0
        /\ FromNotes(notes[n]).max = IF Parses(notes[n].max) THEN ParseQuotaSize(notes[n].max) ELSE 0
    <3>1. FromNotes(notes[n]).min = 0
          /\ FromNotes(notes[n]).max = IF Parses(notes[n].max) THEN ParseQuotaSize(notes[n].max) ELSE 0
      BY DEF FromNotes
    <3> QED BY <1>1, <3>1, NotesGivePolicy
  <2> DEFINE f == FromNotes(notes[n])
  <2> HIDE DEF f
  <2>3. PolicyOf(n) = [f EXCEPT !.hard = hard[n]]
    BY <1>4 DEF PolicyOf, f
  <2>4. /\ PolicyOf(n) \in Policy /\ PolicyOf(n).source = f.source
        /\ PolicyOf(n).max = f.max /\ PolicyOf(n).min = f.min /\ PolicyOf(n).hard = hard[n]
    BY <1>1, <2>2, <2>3, HardKeepsLimits DEF Policy, f
  <2> QED BY <2>1, <2>2, <2>4, NoPolicies DEF f
<1> QED BY <1>3, <1>4

\* What is true of the cluster stays so while the cluster is left alone
LEMMA CalmSame ==
    ASSUME Calm
    PROVE  /\ \A n \in Namespace : PolicyOf(n)' = PolicyOf(n) /\ HasAny(n)' = HasAny(n)
           /\ Claimed' = Claimed
           /\ \A vol : vol.ns \in Namespace => Judged(vol)' = Judged(vol)
           /\ trouble' = trouble /\ ranges' = ranges /\ hard' = hard
<1>1. pvs' = pvs /\ ranges' = ranges /\ hard' = hard /\ notes' = notes /\ trouble' = trouble
  BY DEF Calm, cluster, past
<1>2. \A n \in Namespace : PolicyOf(n)' = PolicyOf(n) /\ HasAny(n)' = HasAny(n)
  BY <1>1 DEF PolicyOf, HasAny, Annotated
<1>3. Claimed' = Claimed
  BY <1>1 DEF Claimed
<1>4. \A vol : vol.ns \in Namespace => Judged(vol)' = Judged(vol)
  BY <1>1 DEF Judged, PolicyOf
<1> QED BY <1>1, <1>2, <1>3, <1>4

\* What has been listed has a namespace
LEMMA ClaimedFacts ==
    ASSUME PolicyTypeOK
    PROVE  Claimed \subseteq ListedPV
<1>1. \A pv \in PV : pvs[pv].ns # NoNamespace =>
         [pv |-> pv, ns |-> pvs[pv].ns, cap |-> pvs[pv].cap] \in ListedPV
  BY PVStateAssumption DEF PolicyTypeOK, ListedPV
<1> QED BY <1>1 DEF Claimed

\* Nothing has been asked yet
LEMMA ExactInit == PolicyInit => Exact
  BY NoPolicies DEF PolicyInit, NoAsk, Exact, FreshExact, CacheExact, VolumesExact, NamespacesExact,
     Begun, LookingUp

\* A step that leaves the policies, the findings and what is judged alone
LEMMA ListingExact ==
    ASSUME IInv, Exact, (\E kind \in Kind : Ask(kind)) \/ ListVolumes \/ ListAllRanges
           \/ ListAllQuotas \/ ListAllNotes \/ Answer
    PROVE  Exact'
<1>1. /\ ask \in [kind : Kind, ns : Namespace \cup {NoNamespace},
                  pc : {"idle", "volumes", "allRanges", "allQuotas", "allNotes", "each",
                        "answered", "error"} \cup LookingUp]
      /\ ask.pc \notin LookingUp => ask.ns = NoNamespace
      /\ names \subseteq Namespace
  BY DEF IInv, PolicyTypeOK
<1>2. Calm /\ UNCHANGED <<pol, cache, found>> /\ ask.pc \notin LookingUp
  BY DEF Ask, ListVolumes, ListAllRanges, ListAllQuotas, ListAllNotes, Notices, Answer, work, LookingUp
<1>3. ask.ns = NoNamespace /\ NoNamespace \notin Namespace
  BY <1>1, <1>2, NamespaceAssumption
<1>4. /\ \A n \in Namespace : PolicyOf(n)' = PolicyOf(n) /\ HasAny(n)' = HasAny(n)
      /\ Claimed' = Claimed /\ ranges' = ranges /\ hard' = hard
      /\ \A vol \in Claimed : Judged(vol)' = Judged(vol)
  BY <1>2, CalmSame, ClaimedFacts DEF IInv, ListedPV
<1>5. (UNION {Judged(vol) : vol \in Claimed \ left})' = UNION {Judged(vol) : vol \in Claimed \ left'}
  BY <1>4
<1> USE DEF Exact, FreshExact, CacheExact, VolumesExact, NamespacesExact, Begun, LookingUp
<1>6. CASE \E kind \in Kind : Ask(kind)
  <2>1. PICK kind \in Kind : Ask(kind)
    BY <1>6
  <2>2. /\ ask.pc = "idle" /\ ask'.pc = (IF kind = "violations" THEN "volumes" ELSE "allRanges")
        /\ ask'.kind = kind /\ left' = left /\ names' = names
    BY <2>1 DEF Ask, work
  <2> QED BY <1>2, <2>2, <1>4 DEF Kind
<1>7. CASE ListVolumes
  <2>1. /\ ask.pc = "volumes" /\ ask'.pc = "each" /\ ask'.kind = ask.kind
        /\ left' = Claimed /\ names' = names
    BY <1>1, <1>7 DEF ListVolumes, Goto, Claimed
  <2>2. found' = UNION {Judged(vol) : vol \in Claimed \ left'}
    BY <1>2, <2>1
  <2> QED BY <1>2, <1>4, <2>1, <2>2 DEF Kind
<1>8. CASE ListAllRanges
  <2>1. /\ ask.pc = "allRanges" /\ ask'.pc = "allQuotas" /\ ask'.kind = ask.kind
        /\ left' = left /\ names' = names \cup {n \in Namespace : HasClaimLimit(ranges[n])}
    BY <1>1, <1>8 DEF ListAllRanges, Notices, Goto
  <2> QED BY <1>2, <1>4, <2>1
<1>9. CASE ListAllQuotas
  <2>1. /\ ask.pc = "allQuotas" /\ ask'.pc = "allNotes" /\ ask'.kind = ask.kind
        /\ left' = left /\ names' = names \cup {n \in Namespace : hard[n] # 0}
    BY <1>1, <1>9 DEF ListAllQuotas, Notices, Goto
  <2> QED BY <1>1, <1>2, <1>4, <2>1 DEF Kind
<1>10. CASE ListAllNotes
  <2>1. /\ ask.pc = "allNotes" /\ ask'.pc = "each" /\ ask'.kind = ask.kind /\ ask'.ns = ask.ns
        /\ left' = left /\ names' = names \cup {n \in Namespace : Annotated(n)}
    BY <1>1, <1>10 DEF ListAllNotes, Notices, Goto
  <2>2. ask.kind # "violations" => names = {n \in Namespace : HasClaimLimit(ranges[n]) \/ hard[n] # 0}
    BY <1>1, <2>1 DEF Kind
  <2>3. ask.kind # "violations" => \A n \in Namespace : HasAny(n) <=> n \in names'
    BY <2>1, <2>2 DEF HasAny
  <2> QED BY <1>2, <1>3, <1>4, <2>1, <2>3 DEF Kind
<1>11. CASE Answer
  <2>1. /\ ask.pc = "each" /\ ask'.pc = "answered" /\ ask'.kind = ask.kind /\ ask'.ns = ask.ns
        /\ left = {} /\ left' = left /\ names = {} /\ names' = names
    BY <1>1, <1>11 DEF Answer, Goto, work
  <2> QED BY <1>2, <1>4, <2>1
<1> QED BY <1>6, <1>7, <1>8, <1>9, <1>10, <1>11

\* The policies are put together: the volumes and the findings stay as they are
LEMMA PolicyExact ==
    ASSUME IInv, Exact, Calm, UNCHANGED <<left, found>>,
           ask.pc \in Begun \ {"answered"}, ask'.pc \in Begun \ {"answered"}, ask'.kind = ask.kind,
           CacheExact',
           ask.kind = "policies" => \A n \in Namespace :
              (n \in names \/ n = ask.ns \/ cache[n] # Unread)
                 <=> (n \in names' \/ n = ask'.ns \/ cache'[n] # Unread)
    PROVE  Exact'
<1>1. /\ \A n \in Namespace : HasAny(n)' = HasAny(n)
      /\ Claimed' = Claimed
      /\ \A vol \in Claimed : Judged(vol)' = Judged(vol)
  BY CalmSame, ClaimedFacts DEF IInv, ListedPV
<1>2. (UNION {Judged(vol) : vol \in Claimed \ left})' = UNION {Judged(vol) : vol \in Claimed \ left}
  BY <1>1
<1>3. FreshExact'
  BY DEF FreshExact, Begun, LookingUp
<1>4. VolumesExact'
  BY <1>1, <1>2 DEF VolumesExact, Exact, Begun, LookingUp
<1>5. NamespacesExact'
  BY <1>1 DEF NamespacesExact, Exact, Begun, LookingUp
<1> QED BY <1>3, <1>4, <1>5 DEF Exact

\* A namespace leaves the names and is at hand
LEMMA LookUpExact ==
    ASSUME IInv, Exact, NEW n \in Namespace, LookUp(n)
    PROVE  Exact'
<1>1. /\ ask.pc = "each" /\ cache[n] = Unread /\ Calm /\ UNCHANGED <<left, pol, cache, found>>
      /\ ask' = [ask EXCEPT !.pc = "ranges", !.ns = n] /\ names' = names \ {n}
      /\ n \in names \/ \E v \in left : v.ns = n
  BY DEF LookUp
<1>2. /\ ask'.pc = "ranges" /\ ask'.ns = n /\ ask'.kind = ask.kind /\ ask.ns = NoNamespace
      /\ NoNamespace \notin Namespace
  BY <1>1, NamespaceAssumption DEF IInv, PolicyTypeOK, LookingUp
<1>3. CacheExact'
  BY <1>1, <1>2, CalmSame DEF Exact, CacheExact
<1>4. ASSUME ask.kind = "policies", NEW m \in Namespace
      PROVE  (m \in names \/ m = ask.ns \/ cache[m] # Unread)
                 <=> (m \in names' \/ m = ask'.ns \/ cache'[m] # Unread)
  <2>1. left = {} /\ n \in names
    BY <1>1, <1>4 DEF Exact, NamespacesExact
  <2> QED BY <1>1, <1>2, <2>1
<1> QED BY <1>1, <1>2, <1>3, <1>4, PolicyExact DEF Begun, LookingUp

\* A policy goes into the cache
LEMMA SettleExact ==
    ASSUME IInv, Exact, Calm, UNCHANGED <<left, names, found>>, ask.pc \in LookingUp,
           Settle(PolicyOf(ask.ns))
    PROVE  Exact'
<1>1. /\ ask.ns \in Namespace /\ cache[ask.ns] = Unread /\ cache \in [Namespace -> Policy]
      /\ cache' = [cache EXCEPT ![ask.ns] = PolicyOf(ask.ns)]
      /\ ask'.pc = "each" /\ ask'.ns = NoNamespace /\ ask'.kind = ask.kind
      /\ NoNamespace \notin Namespace
  BY NamespaceAssumption DEF IInv, PolicyTypeOK, Settle
<1>2. PolicyOf(ask.ns) # Unread
  BY <1>1, PolicyOfFacts DEF IInv
<1>3. CacheExact'
  BY <1>1, CalmSame DEF Exact, CacheExact
<1> QED BY <1>1, <1>2, <1>3, PolicyExact DEF Begun, LookingUp

\* The three calls for one namespace put together the policy that stands in it
LEMMA GetsExact ==
    ASSUME IInv, Exact, GetRanges \/ GetQuotas \/ GetNotes
    PROVE  Exact'
<1>1. /\ Calm /\ ask.pc \in LookingUp /\ ask.ns \in Namespace /\ UNCHANGED <<left, names, found>>
      /\ ranges[ask.ns] \in Seq(LimitRange) /\ notes[ask.ns] \in Notes /\ hard[ask.ns] \in Nat
      /\ cache[ask.ns] = Unread
  BY SourceAssumption DEF GetRanges, GetQuotas, GetNotes, LookingUp, IInv, PolicyTypeOK
<1> DEFINE Carries(pc) == /\ ask' = [ask EXCEPT !.pc = pc] /\ cache' = cache
<1>2. ASSUME NEW pc \in LookingUp, Carries(pc)
      PROVE  /\ ask'.pc = pc /\ ask'.ns = ask.ns /\ ask'.kind = ask.kind
             /\ CacheExact' => Exact'
  <2>1. ask'.pc = pc /\ ask'.ns = ask.ns /\ ask'.kind = ask.kind
    BY <1>2 DEF IInv, PolicyTypeOK
  <2> QED BY <1>1, <1>2, <2>1, PolicyExact DEF Begun, LookingUp
<1>3. CASE GetRanges
  <2>1. /\ Carries("quotas") /\ pol = None
        /\ pol' = IF HasClaimLimit(ranges[ask.ns]) THEN FromRanges(ranges[ask.ns]) ELSE None
    BY <1>1, <1>3 DEF GetRanges, Goto, IInv, PolInv
  <2>2. ask'.pc = "quotas" /\ ask'.ns = ask.ns /\ (CacheExact' => Exact')
    BY <1>2, <2>1 DEF LookingUp
  <2>3. CacheExact'
    BY <1>1, <2>1, <2>2, CalmSame DEF Exact, CacheExact
  <2> QED BY <2>2, <2>3
<1>4. CASE GetQuotas
  <2> DEFINE p == [pol EXCEPT !.hard = hard[ask.ns]]
  <2>1. /\ ask.pc = "quotas" /\ GoesOnWith(p)
        /\ pol = IF HasClaimLimit(ranges[ask.ns]) THEN FromRanges(ranges[ask.ns]) ELSE None
    BY <1>4 DEF GetQuotas, Exact, CacheExact
  <2>2. CASE HasClaimLimit(ranges[ask.ns])
    <3>1. p = PolicyOf(ask.ns) /\ pol.source = "LimitRange" /\ pol \in Policy
      BY <1>1, <2>1, <2>2, RangesGivePolicy DEF PolicyOf
    <3>2. p.source = "LimitRange"
      BY <1>1, <3>1, HardKeepsLimits
    <3>3. Settle(PolicyOf(ask.ns))
      BY <2>1, <3>1, <3>2 DEF GoesOnWith
    <3> QED BY <1>1, <3>3, SettleExact
  <2>3. CASE ~HasClaimLimit(ranges[ask.ns])
    <3>1. p = [None EXCEPT !.hard = hard[ask.ns]] /\ p.source = "None"
      BY <1>1, <2>1, <2>3, NoPolicies, HardKeepsLimits
    <3>2. Carries("notes") /\ pol' = p
      BY <2>1, <3>1 DEF GoesOnWith, Goto
    <3>3. ask'.pc = "notes" /\ ask'.ns = ask.ns /\ (CacheExact' => Exact')
      BY <1>2, <3>2 DEF LookingUp
    <3>4. CacheExact'
      BY <1>1, <2>3, <3>1, <3>2, <3>3, CalmSame DEF Exact, CacheExact
    <3> QED BY <3>3, <3>4
  <2> QED BY <2>2, <2>3
<1>5. CASE GetNotes
  <2>1. /\ ~HasClaimLimit(ranges[ask.ns]) /\ pol = [None EXCEPT !.hard = hard[ask.ns]]
        /\ Settle([FromNotes(notes[ask.ns]) EXCEPT !.hard = pol.hard])
    BY <1>5 DEF GetNotes, Exact, CacheExact
  <2>2. pol.hard = hard[ask.ns]
    BY <2>1 DEF None
  <2>3. PolicyOf(ask.ns) = [FromNotes(notes[ask.ns]) EXCEPT !.hard = pol.hard]
    BY <2>1, <2>2 DEF PolicyOf
  <2> QED BY <1>1, <2>1, <2>3, SettleExact
<1> QED BY <1>3, <1>4, <1>5

\* A volume that has been judged is one of those that have
LEMMA JudgeExact ==
    ASSUME IInv, Exact, NEW v \in left, Judge(v)
    PROVE  Exact'
<1>1. /\ ask.pc = "each" /\ cache[v.ns] # Unread /\ Calm /\ UNCHANGED <<ask, names, pol, cache>>
      /\ left' = left \ {v}
      /\ found' = IF v.cap = 0 THEN found ELSE found \cup Against(v, cache[v.ns])
  BY DEF Judge
<1>2. v.ns \in Namespace /\ cache[v.ns] = PolicyOf(v.ns)
  BY <1>1 DEF IInv, PolicyTypeOK, ListedPV, Exact, CacheExact
<1>3. found' = found \cup Judged(v)
  BY <1>1, <1>2 DEF Judged
<1>4. /\ \A n \in Namespace : PolicyOf(n)' = PolicyOf(n) /\ HasAny(n)' = HasAny(n)
      /\ Claimed' = Claimed /\ ranges' = ranges /\ hard' = hard
      /\ \A vol \in Claimed : Judged(vol)' = Judged(vol)
  BY <1>1, CalmSame, ClaimedFacts DEF IInv, ListedPV
<1>5. FreshExact' /\ CacheExact'
  BY <1>1, <1>4 DEF Exact, FreshExact, CacheExact, Begun
<1>6. NamespacesExact'
  BY <1>1, <1>4 DEF Exact, NamespacesExact
<1>7. ASSUME ask.kind = "violations"
      PROVE  left' \subseteq Claimed /\ found' = UNION {Judged(vol) : vol \in Claimed \ left'}
  <2>1. left \subseteq Claimed /\ found = UNION {Judged(vol) : vol \in Claimed \ left}
    BY <1>1, <1>7 DEF Exact, VolumesExact, Begun
  <2>2. Claimed \ left' = (Claimed \ left) \cup {v}
    BY <1>1, <2>1
  <2>3. UNION {Judged(vol) : vol \in (Claimed \ left) \cup {v}}
           = (UNION {Judged(vol) : vol \in Claimed \ left}) \cup Judged(v)
    <3> DEFINE rest == Claimed \ left
               all == UNION {Judged(vol) : vol \in rest \cup {v}}
               old == UNION {Judged(vol) : vol \in rest}
    <3> HIDE DEF rest
    <3>1. \A x : x \in all <=> \E vol \in rest \cup {v} : x \in Judged(vol)
      OBVIOUS
    <3>2. \A x : x \in old <=> \E vol \in rest : x \in Judged(vol)
      OBVIOUS
    <3> HIDE DEF all, old
    <3>3. \A x : x \in all <=> x \in old \/ x \in Judged(v)
      BY <3>1, <3>2
    <3>4. all = old \cup Judged(v)
      BY <3>3
    <3> QED BY <3>4 DEF all, old, rest
  <2> QED BY <1>1, <1>3, <2>1, <2>2, <2>3
<1>8. (UNION {Judged(vol) : vol \in Claimed \ left})' = UNION {Judged(vol) : vol \in Claimed \ left'}
  BY <1>4
<1>9. VolumesExact'
  BY <1>1, <1>4, <1>7, <1>8 DEF Exact, VolumesExact, Begun
<1> QED BY <1>5, <1>6, <1>9 DEF Exact

\* Only what changes nothing and does not fail leaves the request without trouble
LEMMA ExactStep == IInv /\ ExactWhenCalm /\ [PolicyNext]_policyVars => ExactWhenCalm'
<1> SUFFICES ASSUME IInv, ExactWhenCalm, [PolicyNext]_policyVars, trouble' = "none"
             PROVE  Exact'
  BY DEF ExactWhenCalm
<1>1. CASE UNCHANGED policyVars
  <2>1. trouble = "none" /\ Exact
    BY <1>1 DEF policyVars, ExactWhenCalm
  <2>2. Calm /\ UNCHANGED <<ask, left, names, pol, cache, found>>
    BY <1>1 DEF policyVars, Calm, cluster, past
  <2>3. /\ \A n \in Namespace : PolicyOf(n)' = PolicyOf(n) /\ HasAny(n)' = HasAny(n)
        /\ Claimed' = Claimed /\ ranges' = ranges /\ hard' = hard
        /\ \A vol \in Claimed : Judged(vol)' = Judged(vol)
    BY <2>2, CalmSame, ClaimedFacts DEF IInv, ListedPV
  <2>4. (UNION {Judged(vol) : vol \in Claimed \ left})' = UNION {Judged(vol) : vol \in Claimed \ left}
    BY <2>2, <2>3
  <2>5. VolumesExact'
    BY <2>1, <2>2, <2>3, <2>4 DEF Exact, VolumesExact
  <2>6. FreshExact' /\ CacheExact' /\ NamespacesExact'
    BY <2>1, <2>2, <2>3 DEF Exact, FreshExact, CacheExact, NamespacesExact
  <2> QED BY <2>5, <2>6 DEF Exact
<1>2. CASE ClusterChanges
  <2>1. trouble' # "none"
    BY <1>2 DEF ClusterChanges, ChangePV, ChangeRanges, ChangeHard, ChangeNotes, PolicyChange
  <2> QED BY <2>1
<1>3. CASE CallFails
  BY <1>3 DEF CallFails
<1>4. CASE (\E kind \in Kind : Ask(kind)) \/ ListVolumes \/ ListAllRanges
             \/ ListAllQuotas \/ ListAllNotes \/ Answer
  <2>1. Exact
    BY <1>4 DEF ExactWhenCalm, Ask, ListVolumes, ListAllRanges, ListAllQuotas, ListAllNotes,
       Notices, Answer, Calm, past
  <2> QED BY <1>4, <2>1, ListingExact
<1>5. CASE GetRanges \/ GetQuotas \/ GetNotes
  <2>1. Exact
    BY <1>5 DEF ExactWhenCalm, GetRanges, GetQuotas, GetNotes, Calm, past
  <2> QED BY <1>5, <2>1, GetsExact
<1>6. ASSUME NEW n \in Namespace, LookUp(n) PROVE Exact'
  <2>1. Exact
    BY <1>6 DEF ExactWhenCalm, LookUp, Calm, past
  <2> QED BY <1>6, <2>1, LookUpExact
<1>7. ASSUME NEW v \in left, Judge(v) PROVE Exact'
  <2>1. Exact
    BY <1>7 DEF ExactWhenCalm, Judge, Calm, past
  <2> QED BY <1>7, <2>1, JudgeExact
<1> QED BY <1>1, <1>2, <1>3, <1>4, <1>5, <1>6, <1>7 DEF PolicyNext, Request

\* An answer that is complete names the volumes beyond their limits, or the policies
LEMMA ExactAnswers == IInv /\ ExactWhenCalm => AnswersAreExact
<1> SUFFICES ASSUME IInv, Exact, ask.pc = "answered"
             PROVE  IF ask.kind = "violations"
                    THEN Violators("exceeds_max") = TooLarge /\ Violators("below_min") = TooSmall
                    ELSE \A n \in Namespace :
                            IF HasAny(n) THEN /\ cache[n].max = Ceiling(n) /\ cache[n].min = Floor(n)
                                              /\ cache[n].hard = hard[n]
                                         ELSE cache[n] = Unread
  BY DEF ExactWhenCalm, AnswersAreExact
<1>1. CASE ask.kind = "violations"
  <2>1. found = UNION {Judged(vol) : vol \in Claimed}
    BY <1>1 DEF Exact, VolumesExact, Begun
  <2> DEFINE Listed(pv) == [pv |-> pv, ns |-> pvs[pv].ns, cap |-> pvs[pv].cap]
  <2>2. ASSUME NEW pv \in PV, pvs[pv].ns # NoNamespace
        PROVE  /\ Listed(pv) \in Claimed
               /\ \A x \in Judged(Listed(pv)) : x.pv = pv
               /\ pv \in TooLarge <=> \E x \in Judged(Listed(pv)) : x.type = "exceeds_max"
               /\ pv \in TooSmall <=> \E x \in Judged(Listed(pv)) : x.type = "below_min"
    <3> DEFINE n == pvs[pv].ns
               c == pvs[pv].cap
    <3>1. n \in Namespace /\ c \in Nat
      BY <2>2, PVStateAssumption DEF IInv, PolicyTypeOK
    <3>2. /\ PolicyOf(n).max = Ceiling(n) /\ PolicyOf(n).min = Floor(n) /\ Floor(n) \in Nat
          /\ PolicyOf(n).max \in Int
      BY <3>1, PolicyOfFacts DEF IInv, Policy
    <3> DEFINE high == Verdict(Listed(pv), "exceeds_max", Ceiling(n))
               low == Verdict(Listed(pv), "below_min", Floor(n))
    <3>3. Judged(Listed(pv)) = IF c = 0 THEN {} ELSE
             (IF Ceiling(n) > 0 /\ c > Ceiling(n) THEN {high} ELSE {}) \cup
             (IF Floor(n) > 0 /\ c < Floor(n) THEN {low} ELSE {})
      BY <3>2 DEF Judged, Against
    <3>v. high.pv = pv /\ low.pv = pv /\ high.type = "exceeds_max" /\ low.type = "below_min"
      BY DEF Verdict
    <3>4. pv \in TooLarge <=> Ceiling(n) > 0 /\ c > Ceiling(n)
      BY <2>2 DEF TooLarge
    <3>5. pv \in TooSmall <=> c # 0 /\ c < Floor(n)
      BY <2>2 DEF TooSmall
    <3>6. Listed(pv) \in Claimed
      BY <2>2 DEF Claimed
    <3>7. Ceiling(n) \in Int /\ Floor(n) \in Nat
      BY <3>2
    <3> HIDE DEF n, c, Listed, high, low
    <3>8. \A x \in Judged(Listed(pv)) : x.pv = pv
      BY <3>3, <3>v
    <3>9. (\E x \in Judged(Listed(pv)) : x.type = "exceeds_max")
             <=> c # 0 /\ Ceiling(n) > 0 /\ c > Ceiling(n)
      BY <3>3, <3>v
    <3>10. (\E x \in Judged(Listed(pv)) : x.type = "below_min")
             <=> c # 0 /\ Floor(n) > 0 /\ c < Floor(n)
      BY <3>3, <3>v
    <3> QED BY <3>1, <3>4, <3>5, <3>6, <3>7, <3>8, <3>9, <3>10 DEF n, c
  <2>3. \A vol \in Claimed : \E pv \in PV : pvs[pv].ns # NoNamespace /\ vol = Listed(pv)
    BY DEF Claimed
  <2> HIDE DEF Listed
  <2>4. TooLarge \subseteq {pv \in PV : pvs[pv].ns # NoNamespace}
        /\ TooSmall \subseteq {pv \in PV : pvs[pv].ns # NoNamespace}
    BY DEF TooLarge, TooSmall
  <2>5. \A type : \A pv : pv \in Violators(type) <=>
            \E vol \in Claimed : \E x \in Judged(vol) : x.type = type /\ x.pv = pv
    BY <2>1 DEF Violators
  <2>6. \A type : \A pv : pv \in Violators(type) <=>
            /\ pv \in PV /\ pvs[pv].ns # NoNamespace
            /\ \E x \in Judged(Listed(pv)) : x.type = type
    <3> SUFFICES ASSUME NEW type, NEW pv
                 PROVE  pv \in Violators(type) <=>
                           /\ pv \in PV /\ pvs[pv].ns # NoNamespace
                           /\ \E x \in Judged(Listed(pv)) : x.type = type
      OBVIOUS
    <3>1. ASSUME pv \in Violators(type)
          PROVE  /\ pv \in PV /\ pvs[pv].ns # NoNamespace
                 /\ \E x \in Judged(Listed(pv)) : x.type = type
      <4>1. PICK vol \in Claimed : \E x \in Judged(vol) : x.type = type /\ x.pv = pv
        BY <3>1, <2>5
      <4>2. PICK q \in PV : pvs[q].ns # NoNamespace /\ vol = Listed(q)
        BY <2>3
      <4>3. q = pv
        BY <2>2, <4>1, <4>2
      <4> QED BY <4>1, <4>2, <4>3
    <3>2. ASSUME pv \in PV, pvs[pv].ns # NoNamespace, NEW x \in Judged(Listed(pv)), x.type = type
          PROVE  pv \in Violators(type)
      <4>1. Listed(pv) \in Claimed /\ x.pv = pv
        BY <2>2, <3>2
      <4> QED BY <2>5, <3>2, <4>1
    <3> QED BY <3>1, <3>2
  <2>7. \A pv : pv \in Violators("exceeds_max") <=> pv \in TooLarge
    BY <2>2, <2>4, <2>6
  <2>8. \A pv : pv \in Violators("below_min") <=> pv \in TooSmall
    BY <2>2, <2>4, <2>6
  <2> QED BY <1>1, <2>7, <2>8
<1>2. CASE ask.kind # "violations"
  <2>1. ask.kind = "policies" /\ ask.ns = NoNamespace /\ NoNamespace \notin Namespace
    BY <1>2, NamespaceAssumption DEF IInv, PolicyTypeOK, Kind, LookingUp
  <2>2. \A n \in Namespace : HasAny(n) <=> cache[n] # Unread
    BY <2>1 DEF Exact, NamespacesExact, Begun
  <2>3. \A n \in Namespace : cache[n] # Unread => cache[n] = PolicyOf(n)
    BY DEF Exact, CacheExact
  <2>4. \A n \in Namespace : PolicyOf(n).max = Ceiling(n) /\ PolicyOf(n).min = Floor(n)
                             /\ PolicyOf(n).hard = hard[n]
    BY PolicyOfFacts DEF IInv
  <2> QED BY <1>2, <2>2, <2>3, <2>4
<1> QED BY <1>1, <1>2

\* If nothing changes and no call fails while a request runs, the page names every
\* volume beyond the limits that stand in its namespace and no other, or every
\* namespace that has a policy, with the policy that stands.
THEOREM AnswersMatchTheCluster == PolicySpec => []AnswersAreExact
<1>1. PolicyInit => ExactWhenCalm
  BY ExactInit DEF ExactWhenCalm
<1> QED BY <1>1, InitIInv, NextIInv, ExactStep, ExactAnswers, PTL DEF PolicySpec
=============================================================================
