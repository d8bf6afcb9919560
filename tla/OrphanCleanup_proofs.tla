------------------------ MODULE OrphanCleanup_proofs ------------------------
(***************************************************************************)
(* Machine-checked proofs about OrphanCleanup, for every tree of           *)
(* directories, any number of concurrent requests, every grace period, in  *)
(* dry-run and in live mode.                                               *)
(***************************************************************************)
EXTENDS OrphanCleanup, TLAPS

\* Ages stop at Grace, and Never is below all of them
LEMMA AgeFacts ==
    /\ \A n \in Age : Older(n) \in Age
    /\ \A m, n \in Age : m <= n => Older(m) <= Older(n)
    /\ Grace \in Age /\ Older(Grace) = Grace
    /\ 0 \in Age /\ Never \notin Age /\ \A n \in Age : Never < n /\ n <= Grace
  BY GraceAssumption DEF Age, Older, Never

\* The two levels of directories, and what a subtree of them contains
LEMMA DirFacts ==
    /\ NoDir \notin Dir /\ Loop \in Actor /\ Loop \notin Request
    /\ \A d \in Dir : Subtree(d) \subseteq Dir /\ Children(d) \subseteq Dir
    /\ \A s \in Sub : s \in Dir /\ Parent[s] \in Dir /\ s \notin Top /\ Parent[s] \in Top
    /\ \A d \in Dir, s \in Sub : Parent[s] \in Subtree(d) => s \in Subtree(d)
  BY ParentAssumption, ActorAssumption, NoDirAssumption
     DEF Dir, Actor, Subtree, Children

\* An orphan is neither among the valid paths nor hidden
LEMMA OrphanFacts ==
    \A paths : /\ Orphans(paths) \subseteq Dir
               /\ Orphans(paths) \cap paths = {}
               /\ Orphans(paths) \cap Hidden = {}
  BY DEF Orphans, Visible

\* A removal keeps the directories a tree: with a directory go its children
LEMMA GoneTypes ==
    ASSUME TypeOK, NEW ds \in SUBSET Dir, Gone(ds),
           \A s \in Sub : Parent[s] \in ds => s \in ds \/ s \notin dirs
    PROVE  /\ dirs' \subseteq Dir /\ \A s \in Sub : s \in dirs' => Parent[s] \in dirs'
  BY AgeFacts DEF TypeOK, Gone

\* findOrphans keeps the types of the two tables of ages
LEMMA FindTypes ==
    ASSUME TypeOK, NEW paths \in SUBSET Dir, Find(paths)
    PROVE  /\ seen' \in [Dir -> Age \cup {Never}]
           /\ noticed' \in [Dir -> Age \cup {Never}]
  BY AgeFacts DEF TypeOK, Find, Tracked

\* What the loop finds are orphans, deletable when their age is the grace period
LEMMA LoopFound ==
    ASSUME LoopFinds
    PROVE  /\ found' \subseteq [path : Dir, canDelete : BOOLEAN]
           /\ \A o \in found' : /\ o.path \in Dir \ (valid[Loop] \cup Hidden)
                                /\ o.canDelete = TRUE => seen'[o.path] = Grace
<1>1. SUFFICES ASSUME NEW o \in found'
      PROVE /\ o \in [path : Dir, canDelete : BOOLEAN]
            /\ o.path \in Dir \ (valid[Loop] \cup Hidden)
            /\ o.canDelete = TRUE => seen'[o.path] = Grace
  OBVIOUS
<1>2. PICK d \in Orphans(valid[Loop]) : o = [path |-> d, canDelete |-> CanDelete(d)]
  BY DEF LoopFinds
<1>3. d \in Dir /\ CanDelete(d) \in BOOLEAN
  BY OrphanFacts DEF CanDelete
<1>4. d \notin valid[Loop] \cup Hidden
  BY <1>2, OrphanFacts
<1> QED BY <1>2, <1>3, <1>4 DEF CanDelete

\* pc, valid and target after RemoveOrphan has returned
LEMMA ReturnTypes ==
    ASSUME TypeOK, NEW a \in Actor, Return(a)
    PROVE  /\ pc' \in [Actor -> {"idle", "listed", "cleaning", "get", "post"} \cup Removing]
           /\ valid' \in [Actor -> SUBSET Dir]
           /\ target' \in [Actor -> Dir \cup {NoDir}]
           /\ \A b \in Actor : pc'[b] \in Removing => b # a /\ pc'[b] = pc[b]
                                                  /\ target'[b] = target[b]
  BY DEF TypeOK, Return, Goto, Removing

\* The initial state is well typed
LEMMA InitTypeOK == Init => TypeOK
  BY AgeFacts, LimitAssumption DEF Init, TypeOK, Removing

\* Every step keeps the types
LEMMA NextTypeOK == TypeOK /\ [Next]_vars => TypeOK'
<1> SUFFICES ASSUME TypeOK, [Next]_vars PROVE TypeOK'
  OBVIOUS
<1> USE DEF tree, actors
<1>1. ASSUME NEW d \in Dir, Claim(d) \/ Unclaim(d) \/ EnsureListed(d) PROVE TypeOK'
  BY <1>1 DEF Claim, Unclaim, EnsureListed, Op, TypeOK
<1>2. ASSUME NEW d \in Dir, MakeDir(d) PROVE TypeOK'
  BY <1>2, DirFacts DEF MakeDir, Op, TypeOK
<1>3. ASSUME NEW d \in Dir, RemoveDir(d) PROVE TypeOK'
  <2>1. Gone(Subtree(d))
    BY <1>3 DEF RemoveDir, Gone
  <2>2. /\ dirs' \subseteq Dir /\ \A s \in Sub : s \in dirs' => Parent[s] \in dirs'
    BY <2>1, GoneTypes, DirFacts
  <2> QED BY <1>3, <2>2 DEF RemoveDir, Op, TypeOK
<1>4. CASE Tick
  BY <1>4, AgeFacts DEF Tick, TypeOK
<1>5. CASE LoopLists
  BY <1>5, DirFacts DEF LoopLists, Begin, TypeOK, Removing
<1>6. CASE LoopFinds
  <2>1. found' \subseteq [path : Dir, canDelete : BOOLEAN]
    BY <1>6, LoopFound
  <2> QED BY <1>6, <2>1, DirFacts, FindTypes DEF LoopFinds, Goto, TypeOK, Removing
<1>7. CASE LoopPasses
  BY <1>7 DEF LoopPasses, TypeOK
<1>8. CASE LoopRemoves
  BY <1>8, DirFacts DEF LoopRemoves, Goto, TypeOK, Removing
<1>9. CASE LoopEnds
  BY <1>9 DEF LoopEnds, Goto, TypeOK, Removing
<1>10. ASSUME NEW r \in Request, GetLists(r) \/ \E d \in Dir : PostLists(r, d) PROVE TypeOK'
  BY <1>10 DEF GetLists, PostLists, Begin, TypeOK, Removing, Actor
<1>11. ASSUME NEW r \in Request, GetFinds(r) PROVE TypeOK'
  BY <1>11, FindTypes DEF GetFinds, Goto, TypeOK, Removing, Actor
<1>12. ASSUME NEW r \in Request, PostFinds(r) PROVE TypeOK'
  <2>1. seen' \in [Dir -> Age \cup {Never}] /\ noticed' \in [Dir -> Age \cup {Never}]
    BY <1>12, FindTypes DEF PostFinds, TypeOK, Actor
  <2>2. CASE target[r] \in Orphans(valid[r])
    BY <1>12, <2>1, <2>2, OrphanFacts DEF PostFinds, Goto, TypeOK, Removing
  <2>3. CASE target[r] \notin Orphans(valid[r])
    BY <1>12, <2>1, <2>3 DEF PostFinds, Goto, TypeOK, Removing
  <2> QED BY <2>2, <2>3
<1>13. ASSUME NEW a \in Actor, RemoveQuota(a) PROVE TypeOK'
  BY <1>13 DEF RemoveQuota, Goto, TypeOK, Removing
<1>14. ASSUME NEW a \in Actor, RemoveAll(a) PROVE TypeOK'
  <2>1. target[a] \in Dir
    BY <1>14 DEF RemoveAll, TypeOK, Removing
  <2>2. /\ dirs' \subseteq Dir /\ \A s \in Sub : s \in dirs' => Parent[s] \in dirs'
    BY <1>14, <2>1, DirFacts, GoneTypes DEF RemoveAll
  <2> QED BY <1>14, <2>2 DEF RemoveAll, Goto, TypeOK, Removing
<1>15. ASSUME NEW a \in Actor, RemoveAllFails(a) PROVE TypeOK'
  <2>1. PICK ds \in SUBSET Children(target[a]) : Gone(ds)
    BY <1>15 DEF RemoveAllFails
  <2>2. ds \subseteq Sub /\ \A s \in Sub : Parent[s] \notin ds
    BY <2>1, DirFacts DEF Children
  <2>3. /\ dirs' \subseteq Dir /\ \A s \in Sub : s \in dirs' => Parent[s] \in dirs'
    BY <2>1, <2>2, GoneTypes DEF Dir
  <2> QED BY <1>15, <2>3, ReturnTypes DEF RemoveAllFails, Fault, TypeOK
<1>16. ASSUME NEW a \in Actor, ForgetOrphan(a) PROVE TypeOK'
  <2>1. seen' \in [Dir -> Age \cup {Never}]
    BY <1>16 DEF ForgetOrphan, TypeOK
  <2> QED BY <1>16, <2>1, ReturnTypes DEF ForgetOrphan, TypeOK
<1>17. CASE Restart
  BY <1>17 DEF Restart, Fault, TypeOK, Removing
<1>18. CASE UNCHANGED vars
  BY <1>18 DEF vars, TypeOK
<1> QED BY <1>1, <1>2, <1>3, <1>4, <1>5, <1>6, <1>7, <1>8, <1>9, <1>10, <1>11, <1>12,
           <1>13, <1>14, <1>15, <1>16, <1>17, <1>18
        DEF Next, Environment, LoopStep, Handlers, RemovalStep

(***************************************************************************)
(* The directories stay a tree and every variable keeps its type.          *)
(***************************************************************************)
THEOREM TypeCorrect == Spec => []TypeOK
  BY InitTypeOK, NextTypeOK, PTL DEF Spec

-----------------------------------------------------------------------------
(***************************************************************************)
(* The notice.  LoopGivesNotice is inductive together with three facts:    *)
(* no first-seen entry is older than the notice it was reported with, the  *)
(* loop's deletable orphans have had theirs, and the loop's list of        *)
(* orphans belongs to the PV list it still holds.                          *)
(***************************************************************************)
SeenIsNoticed == \A d \in Dir : seen[d] <= noticed[d]

FoundIsNoticed == \A o \in found : o.canDelete = TRUE => noticed[o.path] = Grace

FoundIsUnclaimed ==
    /\ pc[Loop] \in {"idle", "listed"} => found = {}
    /\ \A o \in found : o.path \notin valid[Loop] \cup Hidden

NoticeInv ==
    /\ TypeOK
    /\ SeenIsNoticed /\ FoundIsNoticed /\ FoundIsUnclaimed
    /\ TargetsWereUnclaimed /\ LoopGivesNotice

\* The initial state satisfies the invariant
LEMMA InitNoticeInv == Init => NoticeInv
  BY InitTypeOK, DirFacts
     DEF Init, NoticeInv, SeenIsNoticed, FoundIsNoticed, FoundIsUnclaimed,
         TargetsWereUnclaimed, LoopGivesNotice, Removing, Never

\* A comparison gives notice of all it enters, and takes no notice back
LEMMA FindNotices ==
    ASSUME NoticeInv, NEW paths \in SUBSET Dir, Find(paths)
    PROVE  /\ SeenIsNoticed'
           /\ \A d \in Dir : noticed[d] = Grace => noticed'[d] = Grace
<1>1. \A d \in Dir : /\ seen[d] \in Age \cup {Never} /\ noticed[d] \in Age \cup {Never}
                     /\ seen[d] <= noticed[d]
  BY DEF NoticeInv, TypeOK, SeenIsNoticed
<1>2. ASSUME NEW d \in Dir PROVE seen'[d] <= noticed'[d]
  <2>1. seen'[d] = IF d \in paths THEN Never
                   ELSE IF d \in Orphans(paths) /\ seen[d] = Never THEN 0 ELSE seen[d]
    BY DEF Find, Tracked
  <2>2. noticed'[d] = IF d \in Orphans(paths) /\ noticed[d] = Never THEN 0 ELSE noticed[d]
    BY DEF Find
  <2> QED BY <1>1, <2>1, <2>2, GraceAssumption DEF Age, Never
<1>3. ASSUME NEW d \in Dir, noticed[d] = Grace PROVE noticed'[d] = Grace
  BY <1>3, AgeFacts DEF Find
<1> QED BY <1>2, <1>3 DEF SeenIsNoticed

\* Time makes an entry no older than its notice
LEMMA TickNotices ==
    ASSUME NoticeInv, Tick
    PROVE  /\ SeenIsNoticed'
           /\ \A d \in Dir : noticed[d] = Grace => noticed'[d] = Grace
<1>1. \A d \in Dir : /\ seen[d] \in Age \cup {Never} /\ noticed[d] \in Age \cup {Never}
                     /\ seen[d] <= noticed[d]
  BY DEF NoticeInv, TypeOK, SeenIsNoticed
<1>2. ASSUME NEW d \in Dir PROVE seen'[d] <= noticed'[d]
  <2>1. /\ seen'[d] = IF seen[d] = Never THEN Never ELSE Older(seen[d])
        /\ noticed'[d] = IF noticed[d] = Never THEN Never ELSE Older(noticed[d])
    BY DEF Tick
  <2> QED BY <1>1, <2>1, GraceAssumption DEF Age, Never, Older
<1>3. ASSUME NEW d \in Dir, noticed[d] = Grace PROVE noticed'[d] = Grace
  BY <1>3, AgeFacts DEF Tick
<1> QED BY <1>2, <1>3 DEF SeenIsNoticed

\* Every step keeps the invariant
LEMMA NextNoticeInv == NoticeInv /\ [Next]_vars => NoticeInv'
<1> SUFFICES ASSUME NoticeInv, [Next]_vars PROVE NoticeInv'
  OBVIOUS
<1>0. TypeOK /\ TypeOK'
  BY NextTypeOK DEF NoticeInv
<1>a. Loop \in Actor /\ \A r \in Request : r \in Actor /\ r # Loop
  BY DirFacts DEF Actor
<1>t. pc[Loop] \in Removing => target[Loop] \in Dir
  BY <1>0, <1>a DEF TypeOK
<1> USE DEF tree, actors
<1>1. CASE UNCHANGED <<seen, noticed, actors>>
  BY <1>0, <1>1 DEF NoticeInv, SeenIsNoticed, FoundIsNoticed, FoundIsUnclaimed,
                    TargetsWereUnclaimed, LoopGivesNotice
<1>2. CASE Tick
  BY <1>0, <1>2, <1>t, TickNotices
     DEF NoticeInv, FoundIsNoticed, FoundIsUnclaimed, TargetsWereUnclaimed,
         LoopGivesNotice, Tick, TypeOK
<1>3. CASE LoopLists
  BY <1>0, <1>3, <1>a
     DEF LoopLists, Begin, NoticeInv, SeenIsNoticed, FoundIsNoticed, FoundIsUnclaimed,
         TargetsWereUnclaimed, LoopGivesNotice, TypeOK, Removing
<1>4. CASE LoopFinds
  <2>0. \A o \in found' : /\ o.path \in Dir \ (valid[Loop] \cup Hidden)
                          /\ o.canDelete = TRUE => seen'[o.path] = Grace
    BY <1>4, LoopFound
  <2>1. SeenIsNoticed'
    BY <1>0, <1>4, <1>a, FindNotices DEF LoopFinds, TypeOK
  <2>2. FoundIsNoticed'
    <3>1. ASSUME NEW o \in found', o.canDelete = TRUE PROVE noticed'[o.path] = Grace
      <4>1. o.path \in Dir /\ seen'[o.path] = Grace
        BY <2>0, <3>1
      <4>2. noticed'[o.path] \in Age \cup {Never} /\ Grace <= noticed'[o.path]
        BY <1>0, <2>1, <4>1 DEF TypeOK, SeenIsNoticed
      <4> QED BY <4>2, GraceAssumption DEF Age, Never
    <3> QED BY <3>1 DEF FoundIsNoticed
  <2>3. FoundIsUnclaimed'
    <3>1. \A o \in found' : o.path \notin valid[Loop] \cup Hidden
      BY <2>0
    <3> QED BY <1>0, <1>4, <1>a, <3>1 DEF FoundIsUnclaimed, LoopFinds, Goto, TypeOK
  <2>4. TargetsWereUnclaimed' /\ LoopGivesNotice'
    BY <1>0, <1>4, <1>a
       DEF NoticeInv, TargetsWereUnclaimed, LoopGivesNotice, LoopFinds, Goto, TypeOK, Removing
  <2> QED BY <1>0, <2>1, <2>2, <2>3, <2>4 DEF NoticeInv
<1>5. CASE LoopPasses
  BY <1>0, <1>5 DEF LoopPasses, NoticeInv, SeenIsNoticed, FoundIsNoticed, FoundIsUnclaimed,
                    TargetsWereUnclaimed, LoopGivesNotice
<1>6. CASE LoopRemoves
  <2>1. PICK o \in found : /\ o.canDelete /\ found' = found \ {o}
                           /\ target' = [target EXCEPT ![Loop] = o.path]
    BY <1>6 DEF LoopRemoves
  <2>2. /\ pc' = [pc EXCEPT ![Loop] = "quota"] /\ pc[Loop] = "cleaning"
        /\ UNCHANGED <<seen, noticed, valid>>
    BY <1>6 DEF LoopRemoves, Goto
  <2>3. o.path \notin valid[Loop] \cup Hidden /\ noticed[o.path] = Grace
    BY <2>1 DEF NoticeInv, FoundIsUnclaimed, FoundIsNoticed
  <2>4. pc'[Loop] = "quota" /\ target'[Loop] = o.path
    BY <1>0, <1>a, <2>1, <2>2 DEF TypeOK
  <2>5. \A a \in Actor : a # Loop => pc'[a] = pc[a] /\ target'[a] = target[a]
    BY <1>0, <2>1, <2>2 DEF TypeOK
  <2>6. TargetsWereUnclaimed'
    BY <2>2, <2>3, <2>4, <2>5 DEF NoticeInv, TargetsWereUnclaimed
  <2>7. LoopGivesNotice'
    BY <2>2, <2>3, <2>4 DEF LoopGivesNotice
  <2> QED BY <1>0, <2>1, <2>2, <2>4, <2>6, <2>7
          DEF NoticeInv, SeenIsNoticed, FoundIsNoticed, FoundIsUnclaimed
<1>7. CASE LoopEnds
  BY <1>0, <1>7, <1>a
     DEF LoopEnds, Goto, NoticeInv, SeenIsNoticed, FoundIsNoticed, FoundIsUnclaimed,
         TargetsWereUnclaimed, LoopGivesNotice, TypeOK, Removing
<1>8. ASSUME NEW r \in Request, GetLists(r) \/ \E d \in Dir : PostLists(r, d) PROVE NoticeInv'
  <2>1. /\ UNCHANGED <<seen, noticed, found>>
        /\ pc'[r] \notin Removing
        /\ \A b \in Actor : b # r => /\ pc'[b] = pc[b] /\ valid'[b] = valid[b]
                                     /\ target'[b] = target[b]
    BY <1>0, <1>8, <1>a DEF GetLists, PostLists, Begin, TypeOK, Removing
  <2> QED BY <1>0, <1>a, <2>1
          DEF NoticeInv, SeenIsNoticed, FoundIsNoticed, FoundIsUnclaimed,
              TargetsWereUnclaimed, LoopGivesNotice
<1>9. ASSUME NEW r \in Request, GetFinds(r) \/ PostFinds(r) PROVE NoticeInv'
  <2>1. SeenIsNoticed' /\ \A d \in Dir : noticed[d] = Grace => noticed'[d] = Grace
    BY <1>0, <1>9, <1>a, FindNotices DEF GetFinds, PostFinds, TypeOK
  <2>2. /\ UNCHANGED found
        /\ \A b \in Actor : b # r => /\ pc'[b] = pc[b] /\ valid'[b] = valid[b]
                                     /\ target'[b] = target[b]
    BY <1>0, <1>9, <1>a DEF GetFinds, PostFinds, Goto, TypeOK
  <2>3. pc'[r] \in Removing => target'[r] \notin valid'[r] \cup Hidden
    BY <1>0, <1>9, <1>a, OrphanFacts DEF GetFinds, PostFinds, Goto, TypeOK, Removing
  <2>4. \A o \in found : o.path \in Dir
    BY <1>0 DEF TypeOK
  <2> QED BY <1>0, <1>a, <1>t, <2>1, <2>2, <2>3, <2>4
          DEF NoticeInv, FoundIsNoticed, FoundIsUnclaimed, TargetsWereUnclaimed, LoopGivesNotice
<1>10. ASSUME NEW a \in Actor, RemoveQuota(a) \/ RemoveAll(a) PROVE NoticeInv'
  <2>1. /\ UNCHANGED <<seen, noticed, valid, found, target>>
        /\ pc[a] \in {"quota", "remove"}
        /\ \A b \in Actor : b # a => pc'[b] = pc[b]
        /\ pc'[a] \in {"remove", "forget"}
    BY <1>0, <1>10 DEF RemoveQuota, RemoveAll, Goto, TypeOK
  <2> QED BY <1>0, <1>a, <2>1
          DEF NoticeInv, SeenIsNoticed, FoundIsNoticed, FoundIsUnclaimed,
              TargetsWereUnclaimed, LoopGivesNotice, Removing
<1>11. ASSUME NEW a \in Actor, RemoveAllFails(a) \/ ForgetOrphan(a) PROVE NoticeInv'
  <2>1. SeenIsNoticed' /\ UNCHANGED <<noticed, found>>
    <3>1. \A d \in Dir : /\ seen'[d] \in {seen[d], Never}
                         /\ noticed[d] \in Age \cup {Never} /\ seen[d] <= noticed[d]
      BY <1>0, <1>11 DEF RemoveAllFails, ForgetOrphan, TypeOK, NoticeInv, SeenIsNoticed
    <3>2. UNCHANGED <<noticed, found>>
      BY <1>11 DEF RemoveAllFails, ForgetOrphan
    <3> QED BY <3>1, <3>2, GraceAssumption DEF SeenIsNoticed, Age, Never
  <2>2. /\ pc[a] \in Removing /\ Return(a)
    BY <1>11 DEF RemoveAllFails, ForgetOrphan, Removing
  <2>3. \A b \in Actor : pc'[b] \in Removing =>
            b # a /\ pc'[b] = pc[b] /\ target'[b] = target[b] /\ valid'[b] = valid[b]
    BY <1>0, <2>2, ReturnTypes DEF Return, TypeOK
  <2>4. valid'[Loop] = valid[Loop] /\ (pc'[Loop] \in {"idle", "listed"} => pc[Loop] = pc'[Loop])
    BY <1>0, <1>a, <2>2 DEF Return, Goto, TypeOK
  <2> QED BY <1>0, <1>a, <2>1, <2>3, <2>4
          DEF NoticeInv, FoundIsNoticed, FoundIsUnclaimed, TargetsWereUnclaimed, LoopGivesNotice
<1>12. CASE Restart
  BY <1>0, <1>12, <1>a
     DEF Restart, NoticeInv, SeenIsNoticed, FoundIsNoticed, FoundIsUnclaimed,
         TargetsWereUnclaimed, LoopGivesNotice, Removing, Never
<1> QED BY <1>1, <1>2, <1>3, <1>4, <1>5, <1>6, <1>7, <1>8, <1>9, <1>10, <1>11, <1>12
        DEF Next, vars, Environment, Claim, Unclaim, MakeDir, RemoveDir, EnsureListed,
            LoopStep, Handlers, RemovalStep

(***************************************************************************)
(* The loop removes nothing before a grace period has passed since this    *)
(* process first reported it, whatever requests, PVs and directories do.   *)
(***************************************************************************)
THEOREM NoticeIsGiven == Spec => []LoopGivesNotice
<1>1. NoticeInv => LoopGivesNotice
  BY DEF NoticeInv
<1> QED BY <1>1, InitNoticeInv, NextNoticeInv, PTL DEF Spec

(***************************************************************************)
(* Nobody removes what the PV list it works from claims, nor what is       *)
(* hidden.                                                                 *)
(***************************************************************************)
THEOREM ClaimedTargetsAreSpared == Spec => []TargetsWereUnclaimed
<1>1. NoticeInv => TargetsWereUnclaimed
  BY DEF NoticeInv
<1> QED BY <1>1, InitNoticeInv, NextNoticeInv, PTL DEF Spec

-----------------------------------------------------------------------------
(***************************************************************************)
(* The refinement of Cleaner.  Each step concerns the round of at most one *)
(* goroutine; NoticeInv says that what it orders it did not find claimed,  *)
(* and that the loop's orders had their notice.                            *)
(***************************************************************************)

\* The loop runs only if it is enabled, and so does a delete request, in live mode
LiveInv ==
    /\ pc[Loop] # "idle" => Enabled
    /\ \A r \in Request : pc[r] = "post" => Enabled /\ ~DryRun
    /\ \A a \in Actor : pc[a] \in Removing => Enabled /\ ~DryRun

\* No step takes a goroutine past the flags
LEMMA FlagsHold ==
    /\ Init => LiveInv
    /\ TypeOK /\ LiveInv /\ [Next]_vars => LiveInv'
<1>1. Init => LiveInv
  BY DirFacts DEF Init, LiveInv, Actor, Removing
<1>2. ASSUME TypeOK, LiveInv, [Next]_vars PROVE LiveInv'
  <2>0. Loop \in Actor /\ \A r \in Request : r \in Actor /\ r # Loop
    BY DirFacts DEF Actor
  <2> USE DEF tree, actors
  <2>1. CASE UNCHANGED pc
    BY <1>2, <2>1 DEF LiveInv
  <2>2. CASE LoopLists \/ LoopFinds \/ LoopRemoves \/ LoopEnds
    <3>1. /\ pc'[Loop] # "idle" => Enabled
          /\ pc'[Loop] \in Removing => Enabled /\ ~DryRun
          /\ \A b \in Actor \ {Loop} : pc'[b] = pc[b]
      BY <1>2, <2>0, <2>2
         DEF LoopLists, LoopFinds, LoopRemoves, LoopEnds, Begin, Goto, TypeOK, LiveInv,
             Removing
    <3> QED BY <1>2, <2>0, <3>1 DEF LiveInv
  <2>3. ASSUME NEW r \in Request,
               GetLists(r) \/ GetFinds(r) \/ (\E d \in Dir : PostLists(r, d)) \/ PostFinds(r)
        PROVE  LiveInv'
    <3>1. /\ pc'[r] \in Removing \cup {"post"} => Enabled /\ ~DryRun
          /\ \A b \in Actor \ {r} : pc'[b] = pc[b]
      BY <1>2, <2>0, <2>3
         DEF GetLists, GetFinds, PostLists, PostFinds, Begin, Goto, TypeOK, LiveInv, Removing
    <3> QED BY <1>2, <2>0, <3>1 DEF LiveInv
  <2>4. ASSUME NEW a \in Actor, RemovalStep(a) PROVE LiveInv'
    <3>1. /\ pc[a] \in Removing /\ pc[a] # "idle" /\ pc'[a] # "post"
          /\ \A b \in Actor \ {a} : pc'[b] = pc[b]
      BY <1>2, <2>4
         DEF RemovalStep, RemoveQuota, RemoveAll, RemoveAllFails, ForgetOrphan, Return, Goto,
             TypeOK, Removing
    <3> QED BY <1>2, <2>0, <3>1 DEF LiveInv
  <2>5. CASE Restart
    BY <2>0, <2>5 DEF Restart, LiveInv, Removing
  <2> QED BY <1>2, <2>1, <2>2, <2>3, <2>4, <2>5
          DEF Next, vars, Environment, Claim, Unclaim, MakeDir, RemoveDir, EnsureListed, Tick,
              LoopStep, LoopPasses, Handlers
<1> QED BY <1>1, <1>2

\* What other goroutines keep and order does not depend on the one that moves
LEMMA OneRound ==
    ASSUME NEW a \in Actor,
           \A b \in Actor \ {a} : /\ pc'[b] = pc[b] /\ valid'[b] = valid[b]
                                  /\ target'[b] = target[b]
    PROVE  /\ Kept' = [Kept EXCEPT ![a] = IF pc'[a] = "idle" THEN Dir ELSE valid'[a]]
           /\ Ordered' = [Ordered EXCEPT ![a] = IF pc'[a] \in {"quota", "remove"}
                                                THEN target'[a] ELSE NoDir]
  BY DEF Kept, Ordered

\* A goroutine orders nothing but a directory, and nothing while it has no order
LEMMA OrderTypes ==
    ASSUME TypeOK, NEW a \in Actor
    PROVE  /\ pc[a] \in {"quota", "remove"} => /\ Ordered[a] = target[a]
                                               /\ Ordered[a] \in Dir /\ Ordered[a] # NoDir
           /\ pc[a] \notin {"quota", "remove"} => Ordered[a] = NoDir
           /\ Kept[a] = IF pc[a] = "idle" THEN Dir ELSE valid[a]
           /\ Kept = [Kept EXCEPT ![a] = Kept[a]] /\ Ordered = [Ordered EXCEPT ![a] = Ordered[a]]
<1>1. Kept[a] = IF pc[a] = "idle" THEN Dir ELSE valid[a]
  BY DEF Kept
<1>2. Ordered[a] = IF pc[a] \in {"quota", "remove"} THEN target[a] ELSE NoDir
  BY DEF Ordered
<1>3. pc[a] \in {"quota", "remove"} => target[a] \in Dir /\ target[a] # NoDir
  BY DirFacts DEF TypeOK, Removing
<1>4. Kept = [Kept EXCEPT ![a] = Kept[a]] /\ Ordered = [Ordered EXCEPT ![a] = Ordered[a]]
  BY DEF Kept, Ordered
<1> QED BY <1>1, <1>2, <1>3, <1>4

\* The goroutines stand still, and so do their orders
LEMMA NoRound ==
    ASSUME UNCHANGED <<pc, valid, target>>
    PROVE  UNCHANGED <<Kept, Ordered>>
  BY DEF Kept, Ordered

\* What a comparison reports: directories that the PV list leaves out
LEMMA FindReports ==
    ASSUME TypeOK, NEW paths \in SUBSET Dir, Find(paths)
    PROVE  /\ Orphans(paths) \in SUBSET Dir /\ Orphans(paths) \subseteq dirs \ paths
           /\ noticed' = [p \in Dir |-> IF p \in Orphans(paths) /\ noticed[p] = Promise!Unreported
                                        THEN 0 ELSE noticed[p]]
<1>1. Orphans(paths) \in SUBSET Dir /\ Orphans(paths) \subseteq dirs \ paths
  BY DEF Orphans, Visible
<1>2. Promise!Unreported = Never
  BY DEF Promise!Unreported, Never
<1> QED BY <1>1, <1>2 DEF Find

\* The cluster, its users and the quota side are the others of a cleaner
LEMMA EnvironmentRefines ==
    ASSUME TypeOK, TypeOK', Environment
    PROVE  Promise!Next
<1>1. CASE Tick
  <2>1. UNCHANGED <<claimed, dirs, listed, Kept, Ordered>>
    BY <1>1, NoRound DEF Tick, actors
  <2>2. \A d \in Dir : noticed[d] \in Age \cup {Never}
    BY DEF TypeOK
  <2>3. \A d \in Dir : (IF noticed[d] = Never THEN Never ELSE Older(noticed[d]))
                          = IF noticed[d] \in {Promise!Unreported, Grace}
                            THEN noticed[d] ELSE noticed[d] + 1
    BY <2>2, GraceAssumption DEF Age, Never, Older, Promise!Unreported
  <2>4. Promise!Pass
    BY <1>1, <2>1, <2>3 DEF Tick, Promise!Pass
  <2> QED BY <2>4 DEF Promise!Next
<1>2. ASSUME NEW d \in Dir,
             Claim(d) \/ Unclaim(d) \/ MakeDir(d) \/ RemoveDir(d) \/ EnsureListed(d)
      PROVE  Promise!Next
  <2>1. UNCHANGED <<noticed, Kept, Ordered>>
    BY <1>2, NoRound DEF Claim, Unclaim, MakeDir, RemoveDir, EnsureListed, actors
  <2>2. claimed' \in SUBSET Dir /\ dirs' \in SUBSET Dir
    BY DEF TypeOK
  <2>3. Vanish \/ dirs \subseteq dirs'
    BY <1>2 DEF Claim, Unclaim, MakeDir, RemoveDir, EnsureListed
  <2>4. listed \subseteq listed' /\ listed' \subseteq listed \cup (claimed \cap dirs)
    BY <1>2 DEF Claim, Unclaim, MakeDir, RemoveDir, EnsureListed
  <2>5. Promise!Others
    BY <2>1, <2>2, <2>3, <2>4 DEF Promise!Others
  <2> QED BY <2>5 DEF Promise!Next
<1> QED BY <1>1, <1>2 DEF Environment

\* A round begins with the PV list of that moment
LEMMA BeginRefines ==
    ASSUME TypeOK, NEW a \in Actor, NEW next, next \notin {"idle", "quota", "remove"}, Begin(a, next),
           \A b \in Actor \ {a} : target'[b] = target[b]
    PROVE  Promise!Next
<1>1. /\ pc[a] = "idle" /\ pc'[a] = next /\ valid'[a] = claimed
      /\ \A b \in Actor \ {a} : pc'[b] = pc[b] /\ valid'[b] = valid[b]
      /\ UNCHANGED <<tree, noticed>>
  BY DEF Begin, TypeOK
<1>2. /\ Kept' = [Kept EXCEPT ![a] = claimed] /\ Ordered' = [Ordered EXCEPT ![a] = NoDir]
  BY <1>1, OneRound
<1>3. Kept[a] = Dir /\ UNCHANGED Ordered
  BY <1>1, <1>2, OrderTypes
<1>4. Promise!Look(a)
  BY <1>1, <1>2, <1>3 DEF Promise!Look, tree
<1> QED BY <1>4 DEF Promise!Next

\* The comparison of each kind of round reports, and that of a delete request may order
LEMMA FindRefines ==
    ASSUME TypeOK, NEW a \in Actor, Find(valid[a]), UNCHANGED tree,
           pc[a] \in {"listed", "get", "post"},
           \A b \in Actor \ {a} : /\ pc'[b] = pc[b] /\ valid'[b] = valid[b]
                                  /\ target'[b] = target[b],
           \/ pc'[a] = "cleaning" /\ valid'[a] = valid[a]
           \/ pc'[a] = "idle"
           \/ /\ pc'[a] = "quota" /\ valid'[a] = valid[a] /\ target'[a] \in Orphans(valid[a])
              /\ a # Loop /\ Enabled /\ ~DryRun
    PROVE  Promise!Next
<1> DEFINE reported == Orphans(valid[a])
<1>1. valid[a] \in SUBSET Dir /\ Kept[a] = valid[a] /\ Ordered[a] = NoDir
  BY OrderTypes DEF TypeOK
<1>2. /\ reported \in SUBSET Dir /\ reported \subseteq dirs \ Kept[a]
      /\ noticed' = [p \in Dir |-> IF p \in reported /\ noticed[p] = Promise!Unreported
                                   THEN 0 ELSE noticed[p]]
  BY <1>1, FindReports
<1>3. /\ Kept' = [Kept EXCEPT ![a] = IF pc'[a] = "idle" THEN Dir ELSE valid'[a]]
      /\ Ordered' = [Ordered EXCEPT ![a] = IF pc'[a] \in {"quota", "remove"}
                                           THEN target'[a] ELSE NoDir]
  BY OneRound
<1>4. Kept = [Kept EXCEPT ![a] = valid[a]] /\ Ordered = [Ordered EXCEPT ![a] = NoDir]
  BY <1>1, OrderTypes
<1>5. \/ UNCHANGED <<Kept, Ordered>>
      \/ Kept' = [Kept EXCEPT ![a] = Dir] /\ UNCHANGED Ordered
      \/ /\ (Enabled /\ ~DryRun) /\ a \notin {Loop} /\ Ordered[a] = NoDir
         /\ \E p \in reported : Ordered' = [Ordered EXCEPT ![a] = p]
         /\ UNCHANGED Kept
  <2> HIDE DEF reported
  <2>1. CASE pc'[a] = "cleaning" /\ valid'[a] = valid[a]
    BY <1>3, <1>4, <2>1
  <2>2. CASE pc'[a] = "idle"
    BY <1>3, <1>4, <2>2
  <2>3. CASE /\ pc'[a] = "quota" /\ valid'[a] = valid[a] /\ target'[a] \in reported
             /\ a # Loop /\ Enabled /\ ~DryRun
    BY <1>1, <1>3, <1>4, <2>3
  <2> QED BY <2>1, <2>2, <2>3 DEF reported
<1>6. UNCHANGED <<claimed, dirs, listed>>
  BY DEF tree
<1> HIDE DEF reported
<1>7. Promise!Report(a, reported)
  BY <1>2, <1>5, <1>6 DEF Promise!Report
<1> QED BY <1>2, <1>7 DEF Promise!Next

\* The loop orders what had its notice and was not in its list
LEMMA LoopOrders ==
    ASSUME NoticeInv, LoopRemoves, Enabled
    PROVE  Promise!Next
<1>0. TypeOK /\ Loop \in Actor
  BY DirFacts DEF NoticeInv
<1>1. PICK o \in found : /\ o.canDelete /\ ~DryRun
                         /\ target' = [target EXCEPT ![Loop] = o.path]
  BY DEF LoopRemoves
<1>2. /\ pc[Loop] = "cleaning" /\ pc' = [pc EXCEPT ![Loop] = "quota"]
      /\ UNCHANGED <<tree, noticed, valid>>
  BY DEF LoopRemoves, Goto
<1>3. o.path \in Dir /\ o.path \notin valid[Loop] /\ noticed[o.path] = Grace
  BY <1>0, <1>1 DEF NoticeInv, FoundIsUnclaimed, FoundIsNoticed, TypeOK
<1>4. /\ pc'[Loop] = "quota" /\ target'[Loop] = o.path
      /\ \A b \in Actor \ {Loop} : /\ pc'[b] = pc[b] /\ valid'[b] = valid[b]
                                   /\ target'[b] = target[b]
  BY <1>0, <1>1, <1>2 DEF TypeOK
<1>5. /\ Ordered[Loop] = NoDir /\ Kept[Loop] = valid[Loop]
      /\ Kept = [Kept EXCEPT ![Loop] = valid[Loop]]
  BY <1>0, <1>2, OrderTypes
<1>6. Kept' = Kept /\ Ordered' = [Ordered EXCEPT ![Loop] = o.path]
  BY <1>0, <1>2, <1>4, <1>5, OneRound
<1>7. Promise!Order(Loop, o.path)
  BY <1>1, <1>2, <1>3, <1>5, <1>6 DEF Promise!Order, tree
<1> QED BY <1>0, <1>3, <1>7 DEF Promise!Next

\* RemoveOrphan takes out what was ordered, or fails to; a round that is over keeps all
LEMMA RemovalRefines ==
    ASSUME TypeOK, NEW a \in Actor, RemovalStep(a)
    PROVE  Promise!Next \/ UNCHANGED Promise!cleanerVars
<1>1. CASE RemoveQuota(a)
  <2>1. /\ pc[a] = "quota" /\ pc' = [pc EXCEPT ![a] = "remove"]
        /\ listed' = listed \ {target[a]}
        /\ UNCHANGED <<claimed, dirs, noticed, valid, target>>
    BY <1>1 DEF RemoveQuota, Goto
  <2>2. Ordered[a] = target[a] /\ Ordered[a] # NoDir
    BY <2>1, OrderTypes
  <2>3. UNCHANGED <<Kept, Ordered>>
    BY <2>1 DEF TypeOK, Kept, Ordered
  <2>4. Promise!Unlist(a)
    BY <2>1, <2>2, <2>3 DEF Promise!Unlist
  <2> QED BY <2>4 DEF Promise!Next
<1>2. CASE RemoveAll(a)
  <2>1. /\ pc[a] = "remove" /\ pc' = [pc EXCEPT ![a] = "forget"]
        /\ dirs' = dirs \ Subtree(target[a])
        /\ UNCHANGED <<claimed, listed, noticed, valid, target>>
    BY <1>2 DEF RemoveAll, Goto, Gone
  <2>2. Ordered[a] = target[a] /\ Ordered[a] # NoDir /\ Ordered[a] \in Dir
    BY <2>1, OrderTypes
  <2>3. Kept' = Kept /\ Ordered' = [Ordered EXCEPT ![a] = NoDir]
    BY <2>1 DEF TypeOK, Kept, Ordered
  <2>4. [d \in Dir |-> Subtree(d)][Ordered[a]] = Subtree(target[a])
    BY <2>2
  <2>5. Promise!Remove(a)
    BY <2>1, <2>2, <2>3, <2>4 DEF Promise!Remove
  <2> QED BY <2>5 DEF Promise!Next
<1>3. ASSUME Return(a), pc[a] \in Removing
      PROVE  /\ Ordered' = [Ordered EXCEPT ![a] = NoDir]
             /\ Kept' \in {Kept, [Kept EXCEPT ![a] = Dir]}
  <2>1. /\ pc'[a] = IF a = Loop THEN "cleaning" ELSE "idle"
        /\ valid' = IF a = Loop THEN valid ELSE [valid EXCEPT ![a] = {}]
        /\ \A b \in Actor \ {a} : /\ pc'[b] = pc[b] /\ valid'[b] = valid[b]
                                  /\ target'[b] = target[b]
    BY <1>3 DEF Return, Goto, TypeOK
  <2>2. /\ Kept' = [Kept EXCEPT ![a] = IF pc'[a] = "idle" THEN Dir ELSE valid'[a]]
        /\ Ordered' = [Ordered EXCEPT ![a] = NoDir]
    BY <2>1, OneRound
  <2>3. Kept = [Kept EXCEPT ![a] = valid[a]]
    BY <1>3, OrderTypes DEF Removing
  <2> QED BY <2>1, <2>2, <2>3
<1>4. CASE RemoveAllFails(a)
  <2>1. /\ pc[a] = "remove" /\ Return(a) /\ UNCHANGED <<claimed, listed, noticed>>
    BY <1>4 DEF RemoveAllFails
  <2>2. PICK ds \in SUBSET Children(target[a]) : dirs' = dirs \ ds
    BY <1>4 DEF RemoveAllFails, Gone
  <2>3. Ordered[a] = target[a] /\ Ordered[a] # NoDir /\ Ordered[a] \in Dir
    BY <2>1, OrderTypes
  <2>4. /\ Children(target[a]) \subseteq Subtree(target[a])
        /\ target[a] \notin Children(target[a])
    BY <2>3, ParentAssumption DEF Children, Subtree
  <2>5. [d \in Dir |-> Subtree(d)][Ordered[a]] = Subtree(target[a])
    BY <2>3
  <2>6. /\ dirs' \subseteq dirs /\ dirs \ Subtree(target[a]) \subseteq dirs'
        /\ target[a] \in dirs => target[a] \in dirs'
    BY <2>2, <2>4
  <2>7. Promise!Remove(a)
    BY <1>3, <2>1, <2>3, <2>5, <2>6 DEF Promise!Remove, Removing
  <2> QED BY <2>7 DEF Promise!Next
<1>5. CASE ForgetOrphan(a)
  <2>1. /\ pc[a] = "forget" /\ Return(a) /\ UNCHANGED <<claimed, dirs, listed, noticed>>
    BY <1>5 DEF ForgetOrphan, tree
  <2>2. Ordered[a] = NoDir /\ Ordered = [Ordered EXCEPT ![a] = NoDir]
    BY <2>1, OrderTypes
  <2>3. Ordered' = Ordered /\ Kept' \in {Kept, [Kept EXCEPT ![a] = Dir]}
    BY <1>3, <2>1, <2>2 DEF Removing
  <2>4. CASE Kept' = Kept
    BY <2>1, <2>3, <2>4 DEF Promise!cleanerVars
  <2>5. CASE Kept' = [Kept EXCEPT ![a] = Dir]
    <3>1. Promise!Rest(a)
      BY <2>1, <2>2, <2>3, <2>5 DEF Promise!Rest
    <3> QED BY <3>1 DEF Promise!Next
  <2> QED BY <2>3, <2>4, <2>5
<1> QED BY <1>1, <1>2, <1>4, <1>5 DEF RemovalStep

\* Every step is one of a cleaner, or none
LEMMA StepRefines == NoticeInv /\ LiveInv /\ [Next]_vars => [Promise!Next]_(Promise!cleanerVars)
<1> SUFFICES ASSUME NoticeInv, LiveInv, [Next]_vars
             PROVE  Promise!Next \/ UNCHANGED Promise!cleanerVars
  OBVIOUS
<1>0. TypeOK /\ TypeOK' /\ Loop \in Actor /\ \A r \in Request : r \in Actor /\ r # Loop
  BY NextTypeOK, DirFacts DEF NoticeInv, Actor
<1>1. CASE Environment
  BY <1>0, <1>1, EnvironmentRefines
<1>2. CASE LoopLists
  BY <1>0, <1>2, BeginRefines DEF LoopLists
<1>3. CASE LoopFinds
  <2>1. /\ Find(valid[Loop]) /\ UNCHANGED tree /\ pc[Loop] = "listed"
        /\ pc'[Loop] = "cleaning" /\ valid'[Loop] = valid[Loop]
        /\ \A b \in Actor \ {Loop} : /\ pc'[b] = pc[b] /\ valid'[b] = valid[b]
                                     /\ target'[b] = target[b]
    BY <1>0, <1>3 DEF LoopFinds, Goto, TypeOK
  <2> QED BY <1>0, <2>1, FindRefines
<1>4. CASE LoopPasses
  BY <1>4, NoRound DEF LoopPasses, tree, Promise!cleanerVars
<1>5. CASE LoopRemoves
  <2>1. Enabled
    BY <1>5 DEF LoopRemoves, LiveInv
  <2> QED BY <1>5, <2>1, LoopOrders
<1>6. CASE LoopEnds
  <2>1. /\ UNCHANGED <<claimed, dirs, listed, noticed>>
        /\ pc[Loop] = "cleaning" /\ pc'[Loop] = "idle"
        /\ \A b \in Actor \ {Loop} : /\ pc'[b] = pc[b] /\ valid'[b] = valid[b]
                                     /\ target'[b] = target[b]
    BY <1>0, <1>6 DEF LoopEnds, Goto, TypeOK, tree
  <2>2. /\ Kept' = [Kept EXCEPT ![Loop] = Dir] /\ Ordered' = [Ordered EXCEPT ![Loop] = NoDir]
    BY <1>0, <2>1, OneRound
  <2>3. Ordered[Loop] = NoDir /\ UNCHANGED Ordered
    BY <1>0, <2>1, <2>2, OrderTypes
  <2>4. Promise!Rest(Loop)
    BY <2>1, <2>2, <2>3 DEF Promise!Rest
  <2> QED BY <1>0, <2>4 DEF Promise!Next
<1>7. ASSUME NEW r \in Request, GetLists(r) \/ \E d \in Dir : PostLists(r, d)
      PROVE  Promise!Next
  <2>1. /\ Begin(r, "get") \/ Begin(r, "post")
        /\ \A b \in Actor \ {r} : target'[b] = target[b]
    BY <1>0, <1>7 DEF GetLists, PostLists, TypeOK
  <2>2. r \in Actor
    BY <1>0
  <2> QED BY <1>0, <2>1, <2>2, BeginRefines
<1>8. ASSUME NEW r \in Request, GetFinds(r)
      PROVE  Promise!Next
  <2>1. /\ Find(valid[r]) /\ UNCHANGED tree /\ pc[r] = "get" /\ pc'[r] = "idle"
        /\ \A b \in Actor \ {r} : /\ pc'[b] = pc[b] /\ valid'[b] = valid[b]
                                  /\ target'[b] = target[b]
    BY <1>0, <1>8 DEF GetFinds, Goto, TypeOK
  <2> QED BY <1>0, <2>1, FindRefines
<1>9. ASSUME NEW r \in Request, PostFinds(r)
      PROVE  Promise!Next
  <2>1. /\ Find(valid[r]) /\ UNCHANGED tree /\ pc[r] = "post"
        /\ \A b \in Actor \ {r} : /\ pc'[b] = pc[b] /\ valid'[b] = valid[b]
                                  /\ target'[b] = target[b]
    BY <1>0, <1>9 DEF PostFinds, Goto, TypeOK
  <2>2. \/ pc'[r] = "idle"
        \/ pc'[r] = "quota" /\ valid'[r] = valid[r] /\ target'[r] \in Orphans(valid[r])
    BY <1>0, <1>9 DEF PostFinds, Goto, TypeOK
  <2>3. Enabled /\ ~DryRun
    BY <2>1 DEF LiveInv
  <2> QED BY <1>0, <2>1, <2>2, <2>3, FindRefines
<1>10. ASSUME NEW a \in Actor, RemovalStep(a)
       PROVE  Promise!Next \/ UNCHANGED Promise!cleanerVars
  BY <1>0, <1>10, RemovalRefines
<1>11. CASE Restart
  <2>1. /\ Kept' = [a \in Actor |-> Dir] /\ Ordered' = [a \in Actor |-> NoDir]
        /\ noticed' = [d \in Dir |-> Promise!Unreported]
        /\ UNCHANGED <<claimed, dirs, listed>>
    BY <1>11 DEF Restart, tree, Kept, Ordered, Promise!Unreported, Never
  <2>2. Promise!Forget
    BY <2>1 DEF Promise!Forget
  <2> QED BY <2>2 DEF Promise!Next
<1>12. CASE UNCHANGED vars
  BY <1>12, NoRound DEF vars, Promise!cleanerVars
<1> QED BY <1>1, <1>2, <1>3, <1>4, <1>5, <1>6, <1>7, <1>8, <1>9, <1>10, <1>11, <1>12
        DEF Next, LoopStep, Handlers

(***************************************************************************)
(* The agent is a cleaner, with any number of goroutines: nothing it       *)
(* removes, directory or line, was not ordered, nothing is ordered that    *)
(* the PV list of the same round had, the loop's orders had their notice,  *)
(* and without the live mode nothing is ordered at all.                    *)
(***************************************************************************)
THEOREM AgentIsACleaner == Spec => ImplementsCleaner
<1>1. Init => Promise!Init
  BY DEF Init, Promise!Init, Kept, Ordered, Promise!Unreported, Never
<1>2. NoticeInv => TypeOK
  BY DEF NoticeInv
<1> QED BY <1>1, <1>2, InitNoticeInv, NextNoticeInv, FlagsHold, StepRefines, PTL
        DEF Spec, ImplementsCleaner, Promise!Spec

(***************************************************************************)
(* With --cleanup-dry-run, or with auto-cleanup off, no goroutine ever     *)
(* gets to RemoveOrphan, not even for a delete request.                    *)
(***************************************************************************)
THEOREM OnlyLiveModeRemoves ==
  ASSUME DryRun \/ ~Enabled PROVE Spec => [](\A a \in Actor : pc[a] \notin Removing)
<1>1. LiveInv => \A a \in Actor : pc[a] \notin Removing
  BY FlagAssumption DEF LiveInv
<1> QED BY <1>1, InitTypeOK, NextTypeOK, FlagsHold, PTL DEF Spec
=============================================================================
