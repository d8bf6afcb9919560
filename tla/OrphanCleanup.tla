---------------------------- MODULE OrphanCleanup ----------------------------
(***************************************************************************)
(* Orphan detection and removal: internal/agent/orphan.go, and the two     *)
(* HTTP handlers of internal/ui/server.go that call it.                    *)
(*                                                                         *)
(* The cleanup loop and the HTTP requests, each in a goroutine of its own, *)
(* run the same findOrphans: list the PVs, then compare the directories of *)
(* the export, two levels deep, with the paths of that list.  An orphan    *)
(* carries the time at which it was first seen, and may be deleted by the  *)
(* loop once that is a grace period ago.  Only the map of first-seen times *)
(* is under a lock; between the list, the comparison and the removal the   *)
(* cluster, the directories and the other goroutines move on.              *)
(*                                                                         *)
(* Time is modelled by ages: instead of the moment a path was first seen,  *)
(* the time since then, which stops counting at Grace.                     *)
(***************************************************************************)
EXTENDS Integers, FiniteSets

CONSTANTS
    Top,        \* directories of the export
    Sub,        \* directories inside those
    Parent,     \* which one each of Sub is in
    Hidden,     \* names that begin with a dot; "projects" and "projid" in Top
    Request,    \* HTTP requests served at the same time
    Grace,      \* --orphan-grace-period
    DryRun,     \* --cleanup-dry-run
    Enabled,    \* --enable-auto-cleanup
    Vanish,     \* may others than the agent remove a directory?
    MaxOps,     \* bound on the changes made by the cluster and its users
    MaxFaults   \* bound on failed removals and restarts

Dir   == Top \cup Sub
Loop  == "loop"
Actor == Request \cup {Loop}
Never == -1
Age   == 0..Grace

ASSUME ParentAssumption == Parent \in [Sub -> Top] /\ Top \cap Sub = {}
ASSUME HiddenAssumption == Hidden \subseteq Dir
ASSUME ActorAssumption  == Loop \notin Request
ASSUME GraceAssumption  == Grace \in Nat
ASSUME FlagAssumption   == DryRun \in BOOLEAN /\ Enabled \in BOOLEAN /\ Vanish \in BOOLEAN
ASSUME LimitAssumption  == MaxOps \in Nat /\ MaxFaults \in Nat

VARIABLES
    claimed,   \* directories some PV of the cluster points at
    dirs,      \* directories that exist
    seen,      \* orphanLastSeen: the age of each entry, or Never
    noticed,   \* history: time since this process first reported the directory
    pc,        \* where each goroutine is
    valid,     \* validPaths, as each goroutine read it
    found,     \* the orphans the loop has still to look at
    target,    \* the orphan a goroutine removes, or the path it was asked for
    listed,    \* directories with a line in the projects file
    ops, faults

tree == <<claimed, dirs, listed>>
vars == <<claimed, dirs, seen, noticed, pc, valid, found, target, listed, ops, faults>>

NoDir == "none"

ASSUME NoDirAssumption == NoDir \notin Dir

Children(d) == {s \in Sub : Parent[s] = d}

\* Mutant: the removal is not recursive
SubtreeShallow(d) == {d}

\* What os.RemoveAll removes
Subtree(d) == {d} \cup Children(d)

Init ==
    /\ claimed = {} /\ dirs = {} /\ listed = {}
    /\ seen = [d \in Dir |-> Never]
    /\ noticed = [d \in Dir |-> Never]
    /\ pc = [a \in Actor |-> "idle"]
    /\ valid = [a \in Actor |-> {}]
    /\ found = {}
    /\ target = [a \in Actor |-> NoDir]
    /\ ops = 0 /\ faults = 0

-----------------------------------------------------------------------------
(***************************************************************************)
(* The cluster, its users and the rest of the agent.                       *)
(***************************************************************************)
Op == ops < MaxOps /\ ops' = ops + 1
Fault == faults < MaxFaults /\ faults' = faults + 1

actors == <<pc, valid, found, target>>

Claim(d) ==
    /\ Op /\ d \notin claimed
    /\ claimed' = claimed \cup {d}
    /\ UNCHANGED <<dirs, listed, seen, noticed, actors, faults>>

Unclaim(d) ==
    /\ Op /\ d \in claimed
    /\ claimed' = claimed \ {d}
    /\ UNCHANGED <<dirs, listed, seen, noticed, actors, faults>>

MakeDir(d) ==
    /\ Op /\ d \notin dirs
    /\ d \in Sub => Parent[d] \in dirs
    /\ dirs' = dirs \cup {d}
    /\ UNCHANGED <<claimed, listed, seen, noticed, actors, faults>>

RemoveDir(d) ==
    /\ Vanish /\ Op /\ d \in dirs
    /\ dirs' = dirs \ Subtree(d)
    /\ UNCHANGED <<claimed, listed, seen, noticed, actors, faults>>

\* ensureQuota (module QuotaAgent) lists the directory of a PV
EnsureListed(d) ==
    /\ d \in claimed /\ d \in dirs /\ d \notin listed
    /\ listed' = listed \cup {d}
    /\ UNCHANGED <<claimed, dirs, seen, noticed, actors, ops, faults>>

Older(n) == IF n < Grace THEN n + 1 ELSE n

Tick ==
    /\ seen' = [d \in Dir |-> IF seen[d] = Never THEN Never ELSE Older(seen[d])]
    /\ noticed' = [d \in Dir |-> IF noticed[d] = Never THEN Never ELSE Older(noticed[d])]
    /\ UNCHANGED <<claimed, dirs, listed, actors, ops, faults>>

Environment ==
    \/ \E d \in Dir : Claim(d) \/ Unclaim(d) \/ MakeDir(d) \/ RemoveDir(d) \/ EnsureListed(d)
    \/ Tick

-----------------------------------------------------------------------------
(***************************************************************************)
(* findOrphans.                                                            *)
(***************************************************************************)
Visible(d) == d \in dirs \ Hidden /\ (d \in Sub => Parent[d] \notin Hidden)

\* Mutant: top directories are not looked up among the valid paths
OrphansAnyTop(paths) ==
    {d \in Dir : /\ Visible(d) /\ (d \in Sub => d \notin paths)
                 /\ d \in Top => \A s \in Children(d) : ~Visible(s)}

\* A visible subdirectory no PV points at, or such a top directory without
\* visible subdirectories
Orphans(paths) ==
    {d \in Dir : /\ Visible(d) /\ d \notin paths
                 /\ d \in Top => \A s \in Children(d) : ~Visible(s)}

\* Mutant: the time of a new orphan is not stored
TrackedNot(paths) ==
    [d \in Dir |-> IF d \in paths THEN Never ELSE seen[d]]

\* trackOrphan for each orphan, then the entries of valid paths are dropped
Tracked(paths) ==
    [d \in Dir |-> IF d \in paths THEN Never
                   ELSE IF d \in Orphans(paths) /\ seen[d] = Never THEN 0
                   ELSE seen[d]]

\* Mutant: an orphan may go one unit of time too early
CanDeleteEarly(d) == seen'[d] >= Grace - 1

CanDelete(d) == seen'[d] = Grace

\* Mutant: a goroutine goes on with the PV list of its last round
BeginWithOldList(a, next) ==
    /\ pc[a] = "idle"
    /\ pc' = [pc EXCEPT ![a] = next]
    /\ UNCHANGED <<tree, seen, noticed, valid, found, ops, faults>>

Begin(a, next) ==
    /\ pc[a] = "idle"
    /\ pc' = [pc EXCEPT ![a] = next]
    /\ valid' = [valid EXCEPT ![a] = claimed]
    /\ UNCHANGED <<tree, seen, noticed, found, ops, faults>>

\* The part of findOrphans under orphanMu; paths is the list read before it
Find(paths) ==
    /\ seen' = Tracked(paths)
    /\ noticed' = [d \in Dir |-> IF d \in Orphans(paths) /\ noticed[d] = Never
                                 THEN 0 ELSE noticed[d]]

Goto(a, next) == pc' = [pc EXCEPT ![a] = next]

\* The cleanup loop: a tick of its ticker, the PV list, the comparison
LoopLists == Enabled /\ Begin(Loop, "listed") /\ UNCHANGED target

LoopFinds ==
    /\ pc[Loop] = "listed" /\ Goto(Loop, "cleaning")
    /\ Find(valid[Loop])
    /\ found' = {[path |-> d, canDelete |-> CanDelete(d)] : d \in Orphans(valid[Loop])}
    /\ UNCHANGED <<tree, valid, target, ops, faults>>

LoopPasses ==
    /\ pc[Loop] = "cleaning"
    /\ \E o \in found :
          /\ ~o.canDelete \/ DryRun
          /\ found' = found \ {o}
    /\ UNCHANGED <<tree, seen, noticed, pc, valid, target, ops, faults>>

LoopRemoves ==
    /\ pc[Loop] = "cleaning"
    /\ \E o \in found :
          /\ o.canDelete /\ ~DryRun
          /\ found' = found \ {o}
          /\ target' = [target EXCEPT ![Loop] = o.path]
    /\ Goto(Loop, "quota")
    /\ UNCHANGED <<tree, seen, noticed, valid, ops, faults>>

LoopEnds ==
    /\ pc[Loop] = "cleaning" /\ found = {} /\ Goto(Loop, "idle")
    /\ valid' = [valid EXCEPT ![Loop] = {}]
    /\ UNCHANGED <<tree, seen, noticed, found, target, ops, faults>>

\* GET /api/orphans
GetLists(r) == Begin(r, "get") /\ UNCHANGED target

GetFinds(r) ==
    /\ pc[r] = "get" /\ Goto(r, "idle")
    /\ Find(valid[r])
    /\ valid' = [valid EXCEPT ![r] = {}]
    /\ UNCHANGED <<tree, found, target, ops, faults>>

\* POST /api/orphans/delete: any path, but live mode only
PostLists(r, d) ==
    /\ Enabled /\ ~DryRun
    /\ Begin(r, "post")
    /\ target' = [target EXCEPT ![r] = d]

\* The path must be an orphan now; how long it has been one is not asked
PostFinds(r) ==
    /\ pc[r] = "post"
    /\ Find(valid[r])
    /\ IF target[r] \in Orphans(valid[r])
       THEN Goto(r, "quota") /\ UNCHANGED <<valid, target>>
       ELSE /\ Goto(r, "idle")
            /\ valid' = [valid EXCEPT ![r] = {}]
            /\ target' = [target EXCEPT ![r] = NoDir]
    /\ UNCHANGED <<tree, found, ops, faults>>

(***************************************************************************)
(* RemoveOrphan, called by the loop and by the delete handler.  Nothing is *)
(* looked at again: neither the PVs nor the directory.                     *)
(***************************************************************************)
RemoveQuota(a) ==
    /\ pc[a] = "quota" /\ Goto(a, "remove")
    /\ listed' = listed \ {target[a]}
    /\ UNCHANGED <<claimed, dirs, seen, noticed, valid, found, target, ops, faults>>

Gone(ds) == dirs' = dirs \ ds

RemoveAll(a) ==
    /\ pc[a] = "remove" /\ Goto(a, "forget")
    /\ Gone(Subtree(target[a]))
    /\ UNCHANGED <<claimed, listed, seen, noticed, valid, found, target, ops, faults>>

\* Where a goroutine goes when RemoveOrphan returns
Return(a) ==
    /\ Goto(a, IF a = Loop THEN "cleaning" ELSE "idle")
    /\ target' = [target EXCEPT ![a] = NoDir]
    /\ valid' = IF a = Loop THEN valid ELSE [valid EXCEPT ![a] = {}]

\* RemoveAll stops at an error, with some of the children gone
RemoveAllFails(a) ==
    /\ pc[a] = "remove" /\ Return(a) /\ Fault
    /\ \E ds \in SUBSET Children(target[a]) : Gone(ds)
    /\ UNCHANGED <<claimed, listed, seen, noticed, found, ops>>

ForgetOrphan(a) ==
    /\ pc[a] = "forget" /\ Return(a)
    /\ seen' = [seen EXCEPT ![target[a]] = Never]
    /\ UNCHANGED <<tree, noticed, found, ops, faults>>

Restart ==
    /\ Fault
    /\ seen' = [d \in Dir |-> Never]
    /\ noticed' = [d \in Dir |-> Never]
    /\ pc' = [a \in Actor |-> "idle"]
    /\ valid' = [a \in Actor |-> {}]
    /\ found' = {}
    /\ target' = [a \in Actor |-> NoDir]
    /\ UNCHANGED <<tree, ops>>

LoopStep ==
    LoopLists \/ LoopFinds \/ LoopPasses \/ LoopRemoves \/ LoopEnds

Handlers ==
    \E r \in Request :
        \/ GetLists(r) \/ GetFinds(r)
        \/ (\E d \in Dir : PostLists(r, d)) \/ PostFinds(r)

RemovalStep(a) ==
    RemoveQuota(a) \/ RemoveAll(a) \/ RemoveAllFails(a) \/ ForgetOrphan(a)

Next ==
    \/ Environment
    \/ LoopStep
    \/ Handlers
    \/ \E a \in Actor : RemovalStep(a)
    \/ Restart

Spec == Init /\ [][Next]_vars

\* Time passes, and the loop's ticker and goroutine keep being served
Fairness ==
    /\ WF_vars(Tick)
    /\ WF_vars(LoopStep \/ RemovalStep(Loop))

FairSpec == Spec /\ Fairness

-----------------------------------------------------------------------------
(***************************************************************************)
(* Properties.                                                             *)
(***************************************************************************)
Removing == {"quota", "remove", "forget"}

\* Every variable has its type, the directories form a tree, and a goroutine
\* that removes something knows what.
TypeOK ==
    /\ claimed \subseteq Dir /\ listed \subseteq Dir
    /\ dirs \subseteq Dir /\ \A s \in Sub : s \in dirs => Parent[s] \in dirs
    /\ seen \in [Dir -> Age \cup {Never}]
    /\ noticed \in [Dir -> Age \cup {Never}]
    /\ pc \in [Actor -> {"idle", "listed", "cleaning", "get", "post"} \cup Removing]
    /\ valid \in [Actor -> SUBSET Dir]
    /\ found \subseteq [path : Dir, canDelete : BOOLEAN]
    /\ target \in [Actor -> Dir \cup {NoDir}]
    /\ \A a \in Actor : pc[a] \in Removing => target[a] \in Dir
    /\ ops \in Nat /\ faults \in Nat

\* Whatever a goroutine removes was neither claimed by a PV of the list it
\* works from nor hidden, although the loop removes long after the comparison
\* and the others keep changing what is orphaned.
TargetsWereUnclaimed ==
    \A a \in Actor : pc[a] \in Removing => target[a] \notin valid[a] \cup Hidden

\* The loop gives notice: nothing is removed by it that a comparison of this
\* process had not reported a full grace period before.  A restart begins the
\* period anew; no other goroutine can shorten it.
LoopGivesNotice ==
    pc[Loop] \in Removing => noticed[target[Loop]] = Grace

\* In live mode no orphan stays: once the cluster and its users are quiet, the
\* loop removes subdirectories and then their parents, one grace period after
\* the other, in spite of requests, failures and restarts on the way.
OrphansAreReclaimed == <>[](Orphans(claimed) = {})

\* The directories of the PVs at the given paths, and what lies in them
DataOf(paths) == {d \in dirs : d \in paths \/ (d \in Sub /\ Parent[d] \in paths)}

\* No goroutine is about to remove data of a PV that is in its own list: an
\* orphan is a directory that has "no matching PersistentVolume".
KnownDataSurvives ==
    \A a \in Actor :
        pc[a] = "remove" => Subtree(target[a]) \cap DataOf(valid[a]) = {}

\* A goroutine leaves everything alone until it has a PV list, and what is in that
\* list afterwards; RemoveOrphan is under way until RemoveAll has returned.
Kept == [a \in Actor |-> IF pc[a] = "idle" THEN Dir ELSE valid[a]]
Ordered == [a \in Actor |-> IF pc[a] \in {"quota", "remove"} THEN target[a] ELSE NoDir]

Promise == INSTANCE Cleaner WITH
    Place    <- Dir,
    Below    <- [d \in Dir |-> Subtree(d)],
    Cleaner  <- Actor,
    Patient  <- {Loop},
    Wait     <- Grace,
    Live     <- Enabled /\ ~DryRun,
    Unstable <- Vanish,
    NoPlace  <- NoDir,
    claims   <- claimed,
    present  <- dirs,
    lines    <- listed,
    notice   <- noticed,
    kept     <- Kept,
    order    <- Ordered

\* Whatever its goroutines do side by side, the agent is a cleaner: a directory or
\* a line disappears by its doing only on an order, an order is for a directory
\* that the PV list of the same round left out, and the loop's only for one that was
\* reported a grace period ago.  In dry-run nothing is ever ordered.
ImplementsCleaner == Promise!Spec
=============================================================================
