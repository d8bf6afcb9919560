------------------------- MODULE QuotaAgent_proofs --------------------------
(***************************************************************************)
(* Machine-checked proofs about QuotaAgent, for every set of volumes,      *)
(* paths and capacities, every bound and both file systems.                *)
(***************************************************************************)
EXTENDS QuotaAgent, TLAPS

(***************************************************************************)
(* A quota is never set to "no limit": the rounding of ApplyXFSQuota and   *)
(* ApplyExt4Quota leaves at least one block.                               *)
(***************************************************************************)
LEMMA SizePositive == \A c \in Nat : SizeKB(c) \in Nat /\ SizeKB(c) > 0
  BY DEF SizeKB

\* PVs as objects and as items, and what the constants say of a volume
LEMMA ObjectTypes ==
    /\ Absent \notin Object
    /\ \A pv \in PV, obj \in Object : ItemOf(pv, obj) \in Item
    /\ \A item \in Item : Volume[item.pv] \in VolumeSpec
    /\ \A pv \in PV : Volume[pv].path \in Path \cup {NoPath}
                   /\ Volume[pv].name \in Name /\ IDOf(pv) \in ID
  BY VolumeAssumption, ProjectIDAssumption, CapacityAssumption
     DEF Absent, Object, Item, ItemOf, VolumeSpec, IDOf

\* A List returns items
LEMMA ListingTypes == ASSUME TypeOK PROVE Listing \subseteq Item
  BY ObjectTypes DEF TypeOK, Listing

\* Taking up an item leaves mu and job in order, whichever goroutine does it
LEMMA EnsureQuotaTypes ==
    ASSUME TypeOK, NEW t \in Thread, NEW item \in Item, mu # t, EnsureQuota(t, item)
    PROVE  /\ mu' \in Thread \cup {Free}
           /\ IF mu' = Free
              THEN job' = NoJob
              ELSE /\ job' \in [pc : {"projid", "projects", "init", "limit", "applied", "failed"},
                                pv : PV, cap : Capacity]
                   /\ Volume[job'.pv].path # NoPath
  <1>1. CASE UNCHANGED <<mu, job>>
    BY <1>1 DEF TypeOK
  <1>2. CASE /\ ~NothingToDo(item) /\ mu' = t
             /\ job' = [pc |-> "projid", pv |-> item.pv, cap |-> item.cap]
    BY <1>2 DEF NothingToDo, Item, Thread, Free
  <1> QED BY <1>1, <1>2 DEF EnsureQuota

\* What holds of a job while its goroutine is inside ensureQuota
LEMMA JobTypes ==
    ASSUME TypeOK, mu # Free
    PROVE  /\ job.pv \in PV /\ job.cap \in Capacity
           /\ JobPath \in Path /\ JobID \in ID /\ Volume[job.pv].name \in Name
  BY ObjectTypes DEF TypeOK, JobPath, JobID

\* Every step of a job leaves the lock and the rest of the job as they are
LEMMA GotoTypes ==
    ASSUME TypeOK, mu # Free, NEW pc \in {"projects", "init", "limit", "applied", "failed"},
           Goto(pc)
    PROVE  /\ mu' = mu /\ job'.pv = job.pv /\ job'.cap = job.cap /\ job'.pc = pc
           /\ job' \in [pc : {"projid", "projects", "init", "limit", "applied", "failed"},
                        pv : PV, cap : Capacity]
           /\ Volume[job'.pv].path # NoPath
  BY DEF TypeOK, Goto

\* Both appends of AddProject keep the files well typed
LEMMA AppendTypes ==
    /\ \A file \in SUBSET ProjidLine, n \in Name, i \in ID :
          AppendToFile(file, Line(n, i)) \in SUBSET ProjidLine
    /\ \A file \in SUBSET ProjectsLine, i \in ID, p \in Path :
          AppendToFile(file, Line(i, p)) \in SUBSET ProjectsLine
  BY DEF AppendToFile, Line, ProjidLine, ProjectsLine

\* An audit entry is well typed
LEMMA EntryTypes ==
    ASSUME TypeOK, mu # Free, NEW ok \in BOOLEAN
    PROVE  AuditEntry(ok) \in [action : {"none", "CREATE", "UPDATE"}, pv : PV \cup {NoPV},
                               old : Capacity \cup {0}, new : Capacity \cup {0}, ok : BOOLEAN]
  BY JobTypes DEF AuditEntry, TypeOK

\* An event added to the stream leaves it well typed
LEMMA EmitTypes ==
    ASSUME TypeOK, NEW type \in {"set", "deleted"}, NEW item \in Item, Emit(type, item)
    PROVE  events' \in Seq(Event)
  <1>1. [type |-> type, item |-> item] \in Event
    BY DEF Event
  <1> QED BY <1>1 DEF Emit, TypeOK

\* An event taken from the stream is an item, and the rest is a stream
LEMMA ReceiveTypes ==
    ASSUME TypeOK, NEW type \in {"set", "deleted"}, WatchReceives(type)
    PROVE  Head(events) \in Event /\ Head(events).item \in Item /\ events' \in Seq(Event)
  <1>1. events \in Seq(Event) /\ events # <<>>
    BY DEF TypeOK, WatchReceives
  <1>2. Head(events) \in Event /\ Tail(events) \in Seq(Event)
    BY <1>1
  <1>3. Head(events).item \in Item
    BY <1>2 DEF Event
  <1> QED BY <1>2, <1>3 DEF WatchReceives

\* The initial state is well typed
LEMMA InitTypeOK == Init => TypeOK
  BY BoundsAssumption DEF Init, TypeOK, NoEntry, NoJob, Thread, Free

\* Every step keeps the types
LEMMA NextTypeOK == TypeOK /\ [Next]_vars => TypeOK'
<1> SUFFICES ASSUME TypeOK, [Next]_vars PROVE TypeOK'
  OBVIOUS
<1> USE DEF cluster, disk
<1>1. ASSUME NEW pv \in PV, NEW obj \in Object, SetPV(pv, obj) PROVE TypeOK'
  <2>1. events' \in Seq(Event)
    BY <1>1, EmitTypes, ObjectTypes DEF SetPV
  <2> QED BY <1>1, <2>1 DEF SetPV, ClusterStep, TypeOK
<1>2. ASSUME NEW pv \in PV, DeletePV(pv) PROVE TypeOK'
  <2>1. events' \in Seq(Event)
    BY <1>2, EmitTypes, ObjectTypes DEF DeletePV, TypeOK
  <2> QED BY <1>2, <2>1 DEF DeletePV, ClusterStep, TypeOK
<1>3. ASSUME NEW p \in Path, MakeDir(p) \/ RemoveDir(p) PROVE TypeOK'
  <2>1. dir' \in [Path -> {"none", "present", "gone"}]
    BY <1>3 DEF MakeDir, RemoveDir, TypeOK
  <2>2. tag' \in [Path -> ID \cup {NoID}]
    BY <1>3 DEF MakeDir, RemoveDir, TypeOK
  <2>3. ops' \in Nat
    BY <1>3 DEF MakeDir, RemoveDir, ClusterStep, TypeOK
  <2> QED BY <1>3, <2>1, <2>2, <2>3 DEF MakeDir, RemoveDir, TypeOK
<1>4. CASE SyncList
  BY <1>4, ListingTypes DEF SyncList, TypeOK, Thread
<1>5. CASE SyncNext
  <2>1. PICK item \in todo["sync"] :
             /\ EnsureQuota("sync", item)
             /\ todo' = [todo EXCEPT !["sync"] = @ \ {item}]
    BY <1>5 DEF SyncNext
  <2>2. item \in Item
    BY DEF TypeOK, Thread
  <2>3. todo' \in [Thread -> SUBSET Item]
    BY <2>1 DEF TypeOK
  <2> QED BY <1>5, <2>1, <2>2, <2>3, EnsureQuotaTypes DEF SyncNext, TypeOK, Thread
<1>6. CASE GoWatch
  BY <1>6 DEF GoWatch, TypeOK
<1>7. CASE WatchStart
  BY <1>7, ListingTypes DEF WatchStart, TypeOK, Thread
<1>8. CASE WatchInitial
  <2>1. PICK item \in todo["watch"] :
             /\ EnsureQuota("watch", item)
             /\ todo' = [todo EXCEPT !["watch"] = @ \ {item}]
    BY <1>8 DEF WatchInitial
  <2>2. item \in Item
    BY DEF TypeOK, Thread
  <2>3. todo' \in [Thread -> SUBSET Item]
    BY <2>1 DEF TypeOK
  <2> QED BY <1>8, <2>1, <2>2, <2>3, EnsureQuotaTypes DEF WatchInitial, TypeOK, Thread
<1>9. CASE WatchSet
  <2>1. Head(events).item \in Item /\ events' \in Seq(Event)
    BY <1>9, ReceiveTypes DEF WatchSet
  <2>2. mu # "watch" /\ EnsureQuota("watch", Head(events).item)
    BY <1>9 DEF WatchSet, WatchReceives
  <2> QED BY <1>9, <2>1, <2>2, EnsureQuotaTypes DEF WatchSet, TypeOK, Thread
<1>10. CASE WatchDeleted
  <2>1. events' \in Seq(Event)
    BY <1>10, ReceiveTypes DEF WatchDeleted
  <2>2. applied' \in [Path -> Capacity \cup {0}]
    BY <1>10 DEF WatchDeleted, Forget, TypeOK
  <2> QED BY <1>10, <2>1, <2>2 DEF WatchDeleted, TypeOK
<1>11. CASE AddProjid
  <2>1. projid' \subseteq ProjidLine
    BY <1>11, JobTypes, AppendTypes DEF AddProjid, At, TypeOK
  <2> QED BY <1>11, <2>1 DEF AddProjid, At, Goto, TypeOK
<1>12. CASE AddProjects
  <2>1. projects' \subseteq ProjectsLine
    BY <1>12, JobTypes, AppendTypes DEF AddProjects, At, TypeOK
  <2> QED BY <1>12, <2>1 DEF AddProjects, At, Goto, TypeOK
<1>13. CASE InitProject \/ InitProjectTolerated
  <2>1. mu # Free /\ Goto("limit")
    BY <1>13 DEF InitProject, InitProjectTolerated, At
  <2>2. tag' \in [Path -> ID \cup {NoID}]
    BY <1>13, <2>1, JobTypes, ZenonT(30) DEF InitProject, InitProjectTolerated, TypeOK
  <2>3. faults' \in Nat
    BY <1>13 DEF InitProject, InitProjectTolerated, Fault, TypeOK
  <2> QED BY <1>13, <2>1, <2>2, <2>3, GotoTypes
          DEF InitProject, InitProjectTolerated, TypeOK
<1>14. CASE SetLimit
  <2>1. audit' = AuditEntry(TRUE) /\ mu # Free
    BY <1>14 DEF SetLimit, At
  <2>2. limit' \in [ID -> Nat] /\ applied' \in [Path -> Capacity \cup {0}]
    BY <1>14, <2>1, JobTypes, SizePositive, CapacityAssumption DEF SetLimit, TypeOK
  <2> QED BY <1>14, <2>1, <2>2, EntryTypes DEF SetLimit, Goto, TypeOK
<1>15. CASE ApplyFails
  <2>1. audit' = AuditEntry(FALSE) /\ mu # Free /\ Goto("failed") /\ faults' \in Nat
    BY <1>15 DEF ApplyFails, Fault, TypeOK
  <2> QED BY <1>15, <2>1, EntryTypes, GotoTypes DEF ApplyFails, TypeOK
<1>16. CASE UpdateQuotaStatus
  <2>1. job.pv \in PV /\ job.pc \in {"applied", "failed"}
    BY <1>16, JobTypes DEF UpdateQuotaStatus
  <2>2. events' \in Seq(Event)
    <3>1. CASE UNCHANGED events
      BY <3>1 DEF TypeOK
    <3>2. CASE /\ api[job.pv] # Absent
               /\ Emit("set", ItemOf(job.pv, api[job.pv]))
      BY <3>2, <2>1, EmitTypes, ObjectTypes DEF TypeOK
    <3> QED BY <1>16, <3>1, <3>2 DEF UpdateQuotaStatus
  <2>3. status' \in [PV -> {"none", "applied", "failed"}]
    BY <1>16, <2>1 DEF UpdateQuotaStatus, TypeOK
  <2> QED BY <1>16, <2>2, <2>3 DEF UpdateQuotaStatus, Unlock, TypeOK
<1>17. CASE UpdateQuotaStatusFails
  BY <1>17 DEF UpdateQuotaStatusFails, Unlock, Fault, TypeOK
<1>18. CASE WatchBreaks
  <2>1. events' \in Seq(Event) /\ faults' \in Nat
    BY <1>18 DEF WatchBreaks, Fault, TypeOK
  <2>2. todo' \in [Thread -> SUBSET Item]
    BY <1>18 DEF WatchBreaks, TypeOK
  <2> QED BY <1>18, <2>1, <2>2 DEF WatchBreaks, TypeOK
<1>19. CASE Restart
  BY <1>19 DEF Restart, Unlock, Fault, TypeOK, Thread
<1>20. CASE UNCHANGED vars
  BY <1>20 DEF vars, TypeOK
<1> QED BY <1>1, <1>2, <1>3, <1>4, <1>5, <1>6, <1>7, <1>8, <1>9, <1>10, <1>11, <1>12,
           <1>13, <1>14, <1>15, <1>16, <1>17, <1>18, <1>19, <1>20
        DEF Next, Cluster, Agent, EnsureStep

(***************************************************************************)
(* Every variable of the agent keeps its type.                             *)
(***************************************************************************)
THEOREM TypeCorrect == Spec => []TypeOK
  BY InitTypeOK, NextTypeOK, PTL DEF Spec

-----------------------------------------------------------------------------
(***************************************************************************)
(* The status annotation.  StatusMeansLimited is inductive together with   *)
(* what a job knows once its limit is set: limits are never taken away.    *)
(***************************************************************************)
StatusInv ==
    /\ TypeOK
    /\ StatusMeansLimited
    /\ mu # Free /\ job.pc = "applied" => limit[JobID] # 0

\* Nothing reports "applied" initially
LEMMA InitStatusInv == Init => StatusInv
  BY InitTypeOK DEF Init, StatusInv, StatusMeansLimited

\* No step of the agent or of the cluster sets a limit to zero
LEMMA LimitsStay ==
    ASSUME TypeOK, [Next]_vars, NEW i \in ID, limit[i] # 0
    PROVE  limit'[i] # 0
<1>1. CASE SetLimit
  <2>1. SizeKB(job.cap) > 0 /\ limit' = [limit EXCEPT ![JobID] = SizeKB(job.cap)]
    BY <1>1, JobTypes, SizePositive, CapacityAssumption DEF SetLimit, At
  <2> QED BY <2>1 DEF TypeOK
<1>2. CASE ~SetLimit
  BY <1>2 DEF Next, vars, cluster, disk, Cluster, SetPV, DeletePV, MakeDir, RemoveDir, Agent,
     SyncList, SyncNext, GoWatch, WatchStart, WatchInitial, WatchSet, WatchDeleted,
     EnsureStep, AddProjid, AddProjects, InitProject, InitProjectTolerated, ApplyFails,
     UpdateQuotaStatus, UpdateQuotaStatusFails, WatchBreaks, Restart
<1> QED BY <1>1, <1>2

\* Every step keeps the invariant behind StatusMeansLimited
LEMMA NextStatusInv == StatusInv /\ [Next]_vars => StatusInv'
<1> SUFFICES ASSUME StatusInv, [Next]_vars PROVE StatusInv'
  OBVIOUS
<1>0. TypeOK /\ TypeOK'
  BY NextTypeOK DEF StatusInv
<1>1. \A pv \in PV : limit[IDOf(pv)] # 0 => limit'[IDOf(pv)] # 0
  BY <1>0, LimitsStay, ObjectTypes
<1>2. CASE SetLimit
  <2>1. mu' # Free /\ job'.pv = job.pv /\ limit'[JobID] # 0
    <3>1. mu # Free /\ Goto("applied")
      BY <1>2 DEF SetLimit, At
    <3>2. limit' = [limit EXCEPT ![JobID] = SizeKB(job.cap)] /\ JobID \in ID
      BY <1>0, <1>2, <3>1, JobTypes DEF SetLimit
    <3>3. SizeKB(job.cap) > 0
      BY <1>0, <3>1, JobTypes, SizePositive, CapacityAssumption
    <3> QED BY <1>0, <3>1, <3>2, <3>3, GotoTypes DEF TypeOK, Goto
  <2> QED BY <1>0, <1>1, <1>2, <2>1 DEF StatusInv, StatusMeansLimited, SetLimit, cluster, JobID
<1>3. CASE UpdateQuotaStatus
  <2>1. mu' = Free /\ limit' = limit /\ mu # Free
    BY <1>3 DEF UpdateQuotaStatus, Unlock, disk
  <2>2. \A pv \in PV : status'[pv] = "applied" =>
            status[pv] = "applied" \/ (pv = job.pv /\ job.pc = "applied")
    BY <1>0, <1>3 DEF UpdateQuotaStatus, TypeOK
  <2> QED BY <1>0, <2>1, <2>2 DEF StatusInv, StatusMeansLimited, JobID
<1>4. CASE \E pv \in PV : DeletePV(pv)
  <2>1. \A pv \in PV : status'[pv] = "applied" => status[pv] = "applied"
    BY <1>0, <1>4 DEF DeletePV, TypeOK
  <2> QED BY <1>0, <1>4, <2>1
          DEF StatusInv, StatusMeansLimited, DeletePV, disk, JobID, IDOf
<1>5. CASE ~SetLimit /\ ~UpdateQuotaStatus /\ ~\E pv \in PV : DeletePV(pv)
  <2>1. status' = status
    BY <1>5 DEF Next, vars, cluster, disk, Cluster, SetPV, MakeDir, RemoveDir, Agent,
     SyncList, SyncNext, GoWatch, WatchStart, WatchInitial, WatchSet, WatchDeleted,
     EnsureStep, AddProjid, AddProjects, InitProject, InitProjectTolerated, ApplyFails,
     UpdateQuotaStatusFails, WatchBreaks, Restart
  <2>2. mu' # Free /\ job'.pc = "applied" => mu # Free /\ job' = job
    <3>1. CASE AddProjid \/ AddProjects \/ InitProject \/ InitProjectTolerated \/ ApplyFails
      BY <1>0, <3>1 DEF AddProjid, AddProjects, InitProject, InitProjectTolerated,
         ApplyFails, Goto, TypeOK
    <3>2. CASE SyncNext \/ WatchInitial \/ WatchSet
      BY <3>2 DEF SyncNext, WatchInitial, WatchSet, EnsureQuota
    <3>3. CASE UpdateQuotaStatusFails \/ Restart
      BY <3>3 DEF UpdateQuotaStatusFails, Restart, Unlock
    <3>4. CASE UNCHANGED <<mu, job>>
      BY <3>4
    <3> QED BY <1>5, <3>1, <3>2, <3>3, <3>4
            DEF Next, vars, Cluster, SetPV, MakeDir, RemoveDir, Agent, SyncList, GoWatch,
                WatchStart, WatchDeleted, EnsureStep, WatchBreaks
  <2> QED BY <1>0, <1>1, <2>1, <2>2, JobTypes
          DEF StatusInv, StatusMeansLimited, JobID, IDOf
<1> QED BY <1>2, <1>3, <1>4, <1>5

(***************************************************************************)
(* A PV that reports "applied" has a limit, for any volumes at all: also   *)
(* when they share directories, names or ids.                              *)
(***************************************************************************)
THEOREM StatusIsSupported == Spec => []StatusMeansLimited
<1>1. StatusInv => StatusMeansLimited
  BY DEF StatusInv
<1> QED BY <1>1, InitStatusInv, NextStatusInv, PTL DEF Spec

-----------------------------------------------------------------------------
(***************************************************************************)
(* appliedQuotas against the kernel.  TrackedIsEnforced is inductive once  *)
(* the project id of every directory is known to be its volume's or none,  *)
(* whether or not the path is tracked at the moment: a job that fails      *)
(* between "project -s" and the limit leaves just that behind.             *)
(***************************************************************************)
TagsAreOwn == \A pv \in Tracked : tag[Volume[pv].path] \in {IDOf(pv), NoID}

EnforcedInv == TypeOK /\ TagsAreOwn /\ TrackedIsEnforced

\* Nothing is remembered initially
LEMMA InitEnforcedInv == Init => EnforcedInv
  <1> SUFFICES ASSUME Init PROVE EnforcedInv
    OBVIOUS
  <1>1. \A pv \in Tracked : Volume[pv].path \in Path
    BY ObjectTypes DEF Tracked
  <1> QED BY <1>1, InitTypeOK DEF Init, EnforcedInv, TagsAreOwn, TrackedIsEnforced

\* Every step keeps the invariant behind TrackedIsEnforced
LEMMA NextEnforcedInv ==
  ASSUME DistinctVolumes PROVE EnforcedInv /\ [Next]_vars => EnforcedInv'
<1> SUFFICES ASSUME EnforcedInv, [Next]_vars PROVE EnforcedInv'
  OBVIOUS
<1>0. TypeOK /\ TypeOK'
  BY NextTypeOK DEF EnforcedInv
<1>1. \A pv \in Tracked : pv \in PV /\ Volume[pv].path \in Path /\ IDOf(pv) \in ID
  BY ObjectTypes DEF Tracked
<1>2. mu # Free => job.pv \in Tracked
  BY <1>0 DEF TypeOK, Tracked
<1>3. CASE InitProject
  <2>1. tag' = [tag EXCEPT ![JobPath] = IF dir[JobPath] = "present" THEN JobID ELSE @]
        /\ job.pv \in Tracked /\ UNCHANGED <<limit, applied>>
    BY <1>2, <1>3 DEF InitProject, At
  <2>2. \A pv \in Tracked : pv # job.pv => tag'[Volume[pv].path] = tag[Volume[pv].path]
    BY <1>0, <1>1, <2>1 DEF DistinctVolumes, JobPath, TypeOK
  <2>3. tag'[JobPath] \in {JobID, tag[JobPath]}
    BY <1>0, <1>1, <2>1 DEF TypeOK, JobPath
  <2> QED BY <1>0, <2>1, <2>2, <2>3
          DEF EnforcedInv, TagsAreOwn, TrackedIsEnforced, JobPath, JobID
<1>4. CASE \E p \in Path : RemoveDir(p)
  <2>1. \A p \in Path : tag'[p] \in {NoID, tag[p]}
    BY <1>0, <1>4 DEF RemoveDir, TypeOK
  <2>2. UNCHANGED <<limit, applied>>
    BY <1>4 DEF RemoveDir
  <2> QED BY <1>0, <1>1, <2>1, <2>2 DEF EnforcedInv, TagsAreOwn, TrackedIsEnforced
<1>5. CASE SetLimit
  <2>1. /\ limit' = [limit EXCEPT ![JobID] = SizeKB(job.cap)]
        /\ applied' = [applied EXCEPT ![JobPath] = job.cap]
        /\ job.pv \in Tracked /\ UNCHANGED tag
    BY <1>2, <1>5 DEF SetLimit, At
  <2>2. ASSUME NEW pv \in Tracked, pv # job.pv
        PROVE  /\ applied'[Volume[pv].path] = applied[Volume[pv].path]
               /\ limit'[IDOf(pv)] = limit[IDOf(pv)]
    BY <1>0, <1>1, <2>1, <2>2 DEF DistinctVolumes, JobPath, JobID, TypeOK
  <2>3. applied'[JobPath] = job.cap /\ limit'[JobID] = SizeKB(job.cap)
    BY <1>0, <1>1, <2>1 DEF TypeOK, JobPath, JobID
  <2> QED BY <1>0, <2>1, <2>2, <2>3
          DEF EnforcedInv, TagsAreOwn, TrackedIsEnforced, JobPath, JobID
<1>6. CASE WatchDeleted \/ Restart
  <2>1. UNCHANGED <<tag, limit>>
    BY <1>6 DEF WatchDeleted, Restart, disk
  <2>2. \A p \in Path : applied'[p] \in {0, applied[p]}
    BY <1>0, <1>6 DEF WatchDeleted, Forget, Restart, TypeOK
  <2> QED BY <1>0, <1>1, <2>1, <2>2 DEF EnforcedInv, TagsAreOwn, TrackedIsEnforced
<1>7. CASE UNCHANGED <<tag, limit, applied>>
  BY <1>0, <1>7 DEF EnforcedInv, TagsAreOwn, TrackedIsEnforced
<1> QED BY <1>3, <1>4, <1>5, <1>6, <1>7
     DEF Next, vars, cluster, disk, Cluster, SetPV, DeletePV, MakeDir, Agent,
     SyncList, SyncNext, GoWatch, WatchStart, WatchInitial, WatchSet, EnsureStep,
     AddProjid, AddProjects, InitProjectTolerated, ApplyFails,
     UpdateQuotaStatus, UpdateQuotaStatusFails, WatchBreaks

(***************************************************************************)
(* For volumes that share nothing, what appliedQuotas remembers is what    *)
(* the kernel enforces: through failed commands, stale objects, lost watch *)
(* events, crashes at any step, and directories made anew.                 *)
(***************************************************************************)
THEOREM EnforcementIsRemembered ==
  ASSUME DistinctVolumes PROVE Spec => []TrackedIsEnforced
<1>1. EnforcedInv => TrackedIsEnforced
  BY DEF EnforcedInv
<1>2. Init => EnforcedInv
  BY InitEnforcedInv
<1>3. EnforcedInv /\ [Next]_vars => EnforcedInv'
  BY NextEnforcedInv
<1> QED BY <1>1, <1>2, <1>3, PTL DEF Spec

-----------------------------------------------------------------------------
(***************************************************************************)
(* The project files.  AppendToFile looks for its key anywhere in the      *)
(* file; when no text is part of another, what it finds is the entry.      *)
(***************************************************************************)
NamesAreGenuine == \A n \in projid : n.val = ProjectID[n.key]

IDsAreGenuine ==
    \A line \in projects : \E pv \in Tracked : line = Line(IDOf(pv), Volume[pv].path)

JobIsListed ==
    mu # Free =>
      /\ job.pc \in {"projects", "init", "limit"} =>
            Line(Volume[job.pv].name, JobID) \in projid
      /\ job.pc \in {"init", "limit"} => Line(JobID, JobPath) \in projects

ListedInv ==
    /\ TypeOK
    /\ NamesAreGenuine /\ IDsAreGenuine /\ JobIsListed
    /\ TrackedIsListed /\ ProjectsAreNamed

\* After the first append of AddProject the name is in the projid file
LEMMA ProjidAppends ==
  ASSUME SeparateTexts, NEW file \in SUBSET ProjidLine,
         \A n \in file : n.val = ProjectID[n.key], NEW name \in Name
  PROVE  Line(name, ProjectID[name]) \in AppendToFile(file, Line(name, ProjectID[name]))
<1> DEFINE new == Line(name, ProjectID[name])
<1>1. CASE Contains(file, name)
  <2>1. PICK line \in file : name = line.key \/ name = line.val
    BY <1>1 DEF Contains, SeparateTexts
  <2>2. line.key = name /\ line.val = ProjectID[name]
    BY <2>1 DEF ProjidLine, SeparateTexts
  <2>3. line = new
    BY <2>2 DEF ProjidLine, Line
  <2> QED BY <2>3, <1>1 DEF AppendToFile, Line
<1>2. CASE ~Contains(file, name)
  BY <1>2 DEF AppendToFile, Line
<1> QED BY <1>1, <1>2

\* After the second append the path is in the projects file, under its id
LEMMA ProjectsAppends ==
  ASSUME SeparateTexts, DistinctVolumes, NEW file \in SUBSET ProjectsLine,
         \A line \in file : \E pv \in Tracked : line = Line(IDOf(pv), Volume[pv].path),
         NEW qv \in Tracked
  PROVE  Line(IDOf(qv), Volume[qv].path)
            \in AppendToFile(file, Line(IDOf(qv), Volume[qv].path))
<1>0. \A pv \in Tracked : Volume[pv].path \in Path /\ IDOf(pv) \in ID
  BY ObjectTypes DEF Tracked
<1>1. CASE Contains(file, IDOf(qv))
  <2>1. PICK line \in file : IDOf(qv) = line.key \/ IDOf(qv) = line.val
    BY <1>1 DEF Contains, SeparateTexts
  <2>2. PICK pv \in Tracked : line = Line(IDOf(pv), Volume[pv].path)
    BY <2>1
  <2>3. IDOf(qv) = IDOf(pv)
    BY <1>0, <2>1, <2>2 DEF Line, SeparateTexts
  <2>4. pv = qv
    BY <2>3 DEF DistinctVolumes
  <2> QED BY <2>2, <2>4, <1>1 DEF AppendToFile, Line
<1>2. CASE ~Contains(file, IDOf(qv))
  BY <1>2 DEF AppendToFile, Line
<1> QED BY <1>1, <1>2

\* An append adds no second line under one key, whatever the file holds
LEMMA AppendKeepsKeys ==
  ASSUME NEW file, UniqueKeys(file), NEW k, NEW v
  PROVE  UniqueKeys(AppendToFile(file, Line(k, v)))
<1>1. CASE Contains(file, k)
  BY <1>1 DEF AppendToFile, Line
<1>2. CASE ~Contains(file, k)
  <2>1. \A l \in file : l.key # k
    BY <1>2 DEF Contains
  <2> QED BY <1>2, <2>1 DEF AppendToFile, Line, UniqueKeys
<1> QED BY <1>1, <1>2

\* Both files are empty initially
LEMMA InitListedInv == Init => ListedInv
  <1> SUFFICES ASSUME Init PROVE ListedInv
    OBVIOUS
  <1>1. \A pv \in Tracked : Volume[pv].path \in Path
    BY ObjectTypes DEF Tracked
  <1> QED BY <1>1, InitTypeOK
          DEF Init, ListedInv, NamesAreGenuine, IDsAreGenuine, JobIsListed,
              TrackedIsListed, ProjectsAreNamed, UniqueKeys

\* Every step keeps the invariant behind TrackedIsListed and ProjectsAreNamed
LEMMA NextListedInv ==
  ASSUME SeparateTexts, DistinctVolumes PROVE ListedInv /\ [Next]_vars => ListedInv'
<1> SUFFICES ASSUME ListedInv, [Next]_vars PROVE ListedInv'
  OBVIOUS
<1>0. TypeOK /\ TypeOK'
  BY NextTypeOK DEF ListedInv
<1>1. \A pv \in Tracked : pv \in PV /\ Volume[pv].path \in Path /\ IDOf(pv) \in ID
  BY ObjectTypes DEF Tracked
<1>2. mu # Free => job.pv \in Tracked /\ Volume[job.pv].name \in Name
                   /\ JobID = ProjectID[Volume[job.pv].name]
  BY <1>0, JobTypes DEF TypeOK, Tracked, JobID, IDOf
<1>3. CASE AddProjid
  <2> DEFINE new == Line(Volume[job.pv].name, JobID)
  <2>1. /\ mu # Free /\ Goto("projects")
        /\ projid' = AppendToFile(projid, new) /\ UNCHANGED <<projects, applied>>
    BY <1>3 DEF AddProjid, At
  <2>2. new \in projid' /\ projid \subseteq projid'
    BY <1>0, <1>2, <2>1, ProjidAppends, ZenonT(30) DEF ListedInv, NamesAreGenuine, TypeOK, AppendToFile
  <2>3. NamesAreGenuine'
    BY <1>2, <2>1 DEF ListedInv, NamesAreGenuine, AppendToFile, Line
  <2>4. JobIsListed'
    BY <1>0, <2>1, <2>2, GotoTypes DEF JobIsListed, JobID, JobPath
  <2>5. TrackedIsListed' /\ ProjectsAreNamed' /\ IDsAreGenuine'
    BY <2>1, <2>2 DEF ListedInv, TrackedIsListed, ProjectsAreNamed, IDsAreGenuine
  <2> QED BY <1>0, <2>3, <2>4, <2>5 DEF ListedInv
<1>4. CASE AddProjects
  <2> DEFINE new == Line(JobID, JobPath)
  <2>1. /\ mu # Free /\ job.pc = "projects" /\ Goto("init")
        /\ projects' = AppendToFile(projects, new) /\ UNCHANGED <<projid, applied>>
    BY <1>4 DEF AddProjects, At
  <2>2. new \in projects' /\ projects \subseteq projects' /\ projects' \subseteq projects \cup {new}
    BY <1>0, <1>2, <2>1, ProjectsAppends
       DEF ListedInv, IDsAreGenuine, TypeOK, AppendToFile, JobID, JobPath
  <2>3. Line(Volume[job.pv].name, JobID) \in projid
    BY <2>1 DEF ListedInv, JobIsListed
  <2>4. IDsAreGenuine'
    BY <1>2, <2>1, <2>2 DEF ListedInv, IDsAreGenuine, JobID, JobPath
  <2>5. JobIsListed'
    BY <1>0, <2>1, <2>2, <2>3, GotoTypes DEF JobIsListed, JobID, JobPath
  <2>6. UniqueKeys(projects')
    BY <2>1, AppendKeepsKeys DEF ListedInv, ProjectsAreNamed
  <2>7. \A line \in projects' : \E n \in projid : n.val = line.key
    BY <2>2, <2>3 DEF ListedInv, ProjectsAreNamed, Line
  <2>8. ProjectsAreNamed'
    BY <2>1, <2>6, <2>7 DEF ProjectsAreNamed
  <2>9. TrackedIsListed' /\ NamesAreGenuine'
    BY <2>1, <2>2 DEF ListedInv, TrackedIsListed, NamesAreGenuine
  <2> QED BY <1>0, <2>4, <2>5, <2>8, <2>9 DEF ListedInv
<1>5. CASE SetLimit
  <2>1. /\ mu # Free /\ job.pc = "limit" /\ Goto("applied")
        /\ applied' = [applied EXCEPT ![JobPath] = job.cap] /\ UNCHANGED <<projid, projects>>
    BY <1>5 DEF SetLimit, At
  <2>2. JobIsListed'
    BY <1>0, <2>1, GotoTypes DEF JobIsListed
  <2>3. ASSUME NEW pv \in Tracked, applied'[Volume[pv].path] # 0
        PROVE  /\ Line(IDOf(pv), Volume[pv].path) \in projects
               /\ Line(Volume[pv].name, IDOf(pv)) \in projid
    <3>1. CASE pv = job.pv
      BY <2>1, <3>1 DEF ListedInv, JobIsListed, JobID, JobPath
    <3>2. CASE pv # job.pv
      <4>1. applied'[Volume[pv].path] = applied[Volume[pv].path]
        BY <1>0, <1>1, <1>2, <2>1, <3>2 DEF DistinctVolumes, JobPath, TypeOK
      <4> QED BY <2>3, <4>1 DEF ListedInv, TrackedIsListed
    <3> QED BY <3>1, <3>2
  <2> QED BY <1>0, <2>1, <2>2, <2>3
          DEF ListedInv, TrackedIsListed, NamesAreGenuine, IDsAreGenuine, ProjectsAreNamed
<1>6. CASE UNCHANGED <<projid, projects>> /\ ~SetLimit
  <2>1. \A p \in Path : applied'[p] \in {0, applied[p]}
    <3>1. CASE WatchDeleted \/ Restart
      BY <1>0, <3>1 DEF WatchDeleted, Forget, Restart, TypeOK
    <3>2. CASE UNCHANGED applied
      BY <3>2
    <3> QED BY <1>6, <3>1, <3>2
         DEF Next, vars, cluster, disk, Cluster, SetPV, DeletePV, MakeDir, RemoveDir, Agent,
         SyncList, SyncNext, GoWatch, WatchStart, WatchInitial, WatchSet, EnsureStep,
         AddProjid, AddProjects, InitProject, InitProjectTolerated, ApplyFails,
         UpdateQuotaStatus, UpdateQuotaStatusFails, WatchBreaks
  <2>2. JobIsListed'
    <3>1. CASE UNCHANGED <<mu, job>>
      BY <1>6, <3>1 DEF ListedInv, JobIsListed, JobID, JobPath
    <3>2. CASE mu' = Free
      BY <3>2 DEF JobIsListed
    <3>3. CASE job'.pc \in {"projid", "failed"}
      BY <3>3 DEF JobIsListed
    <3>4. CASE /\ mu # Free /\ job.pc = "init" /\ Goto("limit")
      BY <1>0, <1>6, <3>4, GotoTypes DEF ListedInv, JobIsListed, JobID, JobPath
    <3>5. CASE SyncNext \/ WatchInitial \/ WatchSet
      BY <3>1, <3>3, <3>5 DEF SyncNext, WatchInitial, WatchSet, EnsureQuota
    <3>6. CASE AddProjid \/ AddProjects
      <4>1. /\ mu # Free /\ \/ job.pc = "projid" /\ Goto("projects") /\ AddProjid
                            \/ job.pc = "projects" /\ Goto("init") /\ AddProjects
        BY <3>6 DEF AddProjid, AddProjects, At
      <4> QED BY <1>3, <1>4, <4>1 DEF ListedInv
    <3>7. CASE ApplyFails
      BY <1>0, <3>3, <3>7, GotoTypes DEF ApplyFails
    <3>8. CASE UpdateQuotaStatus \/ UpdateQuotaStatusFails \/ Restart
      BY <3>2, <3>8 DEF UpdateQuotaStatus, UpdateQuotaStatusFails, Restart, Unlock
    <3>9. CASE InitProject \/ InitProjectTolerated
      BY <3>4, <3>9 DEF InitProject, InitProjectTolerated, At
    <3> QED BY <1>6, <3>1, <3>5, <3>6, <3>7, <3>8, <3>9
         DEF Next, vars, Cluster, SetPV, DeletePV, MakeDir, RemoveDir, Agent,
             SyncList, GoWatch, WatchStart, WatchDeleted, EnsureStep, WatchBreaks
  <2>3. TrackedIsListed'
    BY <1>1, <1>6, <2>1 DEF ListedInv, TrackedIsListed
  <2> QED BY <1>0, <1>6, <2>2, <2>3
          DEF ListedInv, NamesAreGenuine, IDsAreGenuine, ProjectsAreNamed
<1> QED BY <1>3, <1>4, <1>5, <1>6
     DEF Next, vars, cluster, disk, Cluster, SetPV, DeletePV, MakeDir, RemoveDir, Agent,
     SyncList, SyncNext, GoWatch, WatchStart, WatchInitial, WatchSet, WatchDeleted,
     EnsureStep, InitProject, InitProjectTolerated, ApplyFails,
     UpdateQuotaStatus, UpdateQuotaStatusFails, WatchBreaks, Restart

(***************************************************************************)
(* For volumes that share nothing and texts that do not overlap, every     *)
(* path in appliedQuotas is listed in both files.                          *)
(***************************************************************************)
THEOREM TrackingIsListed ==
  ASSUME SeparateTexts, DistinctVolumes PROVE Spec => []TrackedIsListed
<1>1. ListedInv => TrackedIsListed
  BY DEF ListedInv
<1>2. Init => ListedInv
  BY InitListedInv
<1>3. ListedInv /\ [Next]_vars => ListedInv'
  BY NextListedInv
<1> QED BY <1>1, <1>2, <1>3, PTL DEF Spec

(***************************************************************************)
(* Under the same conditions every listed id has a name and a single       *)
(* directory: a crash or an error between the two appends never leaves an  *)
(* id without its name.                                                    *)
(***************************************************************************)
THEOREM ListedIDsAreNamed ==
  ASSUME SeparateTexts, DistinctVolumes PROVE Spec => []ProjectsAreNamed
<1>1. ListedInv => ProjectsAreNamed
  BY DEF ListedInv
<1>2. Init => ListedInv
  BY InitListedInv
<1>3. ListedInv /\ [Next]_vars => ListedInv'
  BY NextListedInv
<1> QED BY <1>1, <1>2, <1>3, PTL DEF Spec

-----------------------------------------------------------------------------
\* The steps that write an audit entry, against the limits before and after
LEMMA AuditStep ==
  ASSUME DistinctVolumes
  PROVE  EnforcedInv /\ [Next]_vars => [audit' # audit => EntryIsTruthful]_vars
<1> SUFFICES ASSUME EnforcedInv, [Next]_vars, audit' # audit PROVE EntryIsTruthful
  OBVIOUS
<1>0. TypeOK
  BY DEF EnforcedInv
<1>1. SetLimit \/ ApplyFails
  BY DEF Next, vars, cluster, disk, Cluster, SetPV, DeletePV, MakeDir, RemoveDir, Agent,
     SyncList, SyncNext, GoWatch, WatchStart, WatchInitial, WatchSet, WatchDeleted,
     EnsureStep, AddProjid, AddProjects, InitProject, InitProjectTolerated,
     UpdateQuotaStatus, UpdateQuotaStatusFails, WatchBreaks, Restart
<1>2. PICK ok \in BOOLEAN : /\ mu # Free /\ audit' = AuditEntry(ok)
                            /\ ok => SetLimit
  BY <1>1 DEF SetLimit, ApplyFails, At
<1>3. /\ job.pv \in Tracked /\ JobID \in ID /\ job.cap \in Capacity /\ JobPath \in Path
  BY <1>0, <1>2, JobTypes DEF TypeOK, Tracked
<1>4. ok => limit'[JobID] = SizeKB(job.cap)
  BY <1>0, <1>2, <1>3 DEF SetLimit, TypeOK
<1>5. IsUpdate => limit[JobID] = SizeKB(applied[JobPath])
  BY <1>0, <1>3, CapacityAssumption
     DEF IsUpdate, EnforcedInv, TrackedIsEnforced, JobPath, JobID, TypeOK
<1> QED BY <1>2, <1>4, <1>5 DEF EntryIsTruthful, AuditEntry, JobID

(***************************************************************************)
(* What the audit log says of old and new quotas is what the kernel held   *)
(* before and after the entry was written.                                 *)
(***************************************************************************)
THEOREM AuditTellsTheTruth ==
  ASSUME DistinctVolumes PROVE Spec => AuditIsTruthful
<1>1. Init => EnforcedInv
  BY InitEnforcedInv
<1>2. EnforcedInv /\ [Next]_vars => EnforcedInv'
  BY NextEnforcedInv
<1>3. EnforcedInv /\ [Next]_vars => [audit' # audit => EntryIsTruthful]_vars
  BY AuditStep
<1> QED BY <1>1, <1>2, <1>3, PTL DEF Spec, AuditIsTruthful

-----------------------------------------------------------------------------
(***************************************************************************)
(* The refinement of QuotaTable.  What has to be shown of each step is     *)
(* that no capacity is asked for anew unless the cluster sets it: every    *)
(* object in hand was read from the API server, or from another one in     *)
(* hand.                                                                   *)
(***************************************************************************)
Listed(pv, c) == \E t \in Thread : \E item \in todo[t] : item.pv = pv /\ item.cap = c

Streamed(pv, c) == \E i \in DOMAIN events :
    events[i].type = "set" /\ events[i].item.pv = pv /\ events[i].item.cap = c

InWork(pv, c) == mu # Free /\ job.pv = pv /\ job.cap = c

\* The four places a capacity may be asked from
LEMMA AskedParts ==
  \A pv \in PV, c \in Capacity :
     /\ c \in Asked(pv) <=> api[pv].cap = c \/ Listed(pv, c) \/ Streamed(pv, c) \/ InWork(pv, c)
     /\ c \in Asked(pv)' <=> \/ api'[pv].cap = c \/ Listed(pv, c)'
                             \/ Streamed(pv, c)' \/ InWork(pv, c)'
  BY DEF Asked, Listed, Streamed, InWork

\* An event that is sent adds what it shows, and nothing else
LEMMA EmitAsks ==
  ASSUME TypeOK, NEW type \in {"set", "deleted"}, NEW item \in Item, Emit(type, item),
         NEW pv, NEW c, Streamed(pv, c)'
  PROVE  Streamed(pv, c) \/ (type = "set" /\ item.pv = pv /\ item.cap = c)
<1>1. PICK i \in DOMAIN events' : /\ events'[i].type = "set"
                                  /\ events'[i].item.pv = pv /\ events'[i].item.cap = c
  BY DEF Streamed
<1>2. CASE events' = events
  BY <1>1, <1>2 DEF Streamed
<1>3. CASE events' = Append(events, [type |-> type, item |-> item])
  <2>1. events \in Seq(Event)
    BY DEF TypeOK
  <2>2. CASE i \in 1..Len(events)
    <3>1. events'[i] = events[i] /\ i \in DOMAIN events
      BY <1>3, <2>1, <2>2
    <3> QED BY <1>1, <3>1 DEF Streamed
  <2>3. CASE i = Len(events) + 1
    <3>1. events'[i] = [type |-> type, item |-> item]
      BY <1>3, <2>1, <2>3
    <3> QED BY <1>1, <3>1
  <2>4. i \in 1..(Len(events) + 1)
    BY <1>1, <1>3, <2>1
  <2> QED BY <2>1, <2>2, <2>3, <2>4
<1> QED BY <1>2, <1>3 DEF Emit

\* Receiving an event adds nothing, and what it shows was asked for
LEMMA ReceiveAsks ==
  ASSUME TypeOK, NEW type \in {"set", "deleted"}, WatchReceives(type), NEW pv, NEW c
  PROVE  /\ Streamed(pv, c)' => Streamed(pv, c)
         /\ type = "set" /\ Head(events).item.pv = pv /\ Head(events).item.cap = c
               => Streamed(pv, c)
<1>1. /\ events \in Seq(Event) /\ events # <<>> /\ events' = Tail(events)
      /\ Head(events).type = type
  BY DEF TypeOK, WatchReceives
<1>2. \A i \in DOMAIN events' : i + 1 \in DOMAIN events /\ events'[i] = events[i + 1]
  BY <1>1
<1>3. 1 \in DOMAIN events /\ Head(events) = events[1]
  BY <1>1
<1> QED BY <1>1, <1>2, <1>3 DEF Streamed

\* Taking up an item adds nothing that the item does not show
LEMMA EnsureQuotaAsks ==
  ASSUME NEW t \in Thread, NEW item \in Item, EnsureQuota(t, item), NEW pv, NEW c, InWork(pv, c)'
  PROVE  InWork(pv, c) \/ (item.pv = pv /\ item.cap = c)
  BY DEF EnsureQuota, InWork

\* A step that does not set the volume's PV lets capacities lapse at most
LEMMA AskedLapses ==
  ASSUME TypeOK, [Next]_vars, NEW pv \in PV, \A obj \in Object : ~SetPV(pv, obj)
  PROVE  Asked(pv)' \subseteq Asked(pv)
<1> SUFFICES ASSUME NEW c \in Capacity, c \in Asked(pv)' PROVE c \in Asked(pv)
  BY DEF Asked
<1> USE DEF cluster, disk
<1>a. CASE UNCHANGED <<api, todo, events>> /\ (InWork(pv, c)' => InWork(pv, c))
  <2>1. /\ api'[pv].cap = api[pv].cap /\ Listed(pv, c)' <=> Listed(pv, c)
        /\ Streamed(pv, c)' <=> Streamed(pv, c)
    BY <1>a DEF Listed, Streamed
  <2> QED BY <1>a, <2>1, AskedParts
<1>1. ASSUME NEW qv \in PV, NEW obj \in Object, SetPV(qv, obj) PROVE c \in Asked(pv)
  <2>1. qv # pv
    BY <1>1
  <2>2. api'[pv] = api[pv]
    BY <1>1, <2>1 DEF SetPV, TypeOK
  <2>3. (Listed(pv, c)' => Listed(pv, c)) /\ (InWork(pv, c)' => InWork(pv, c))
    BY <1>1 DEF SetPV, Listed, InWork
  <2>4. Streamed(pv, c)' => Streamed(pv, c)
    <3>1. Emit("set", ItemOf(qv, obj)) /\ ItemOf(qv, obj) \in Item /\ ItemOf(qv, obj).pv # pv
      BY <1>1, <2>1, ObjectTypes DEF SetPV, ItemOf
    <3> QED BY <3>1, EmitAsks
  <2> QED BY <2>2, <2>3, <2>4, AskedParts
<1>2. ASSUME NEW qv \in PV, DeletePV(qv) PROVE c \in Asked(pv)
  <2>1. api'[pv].cap = c => api[pv].cap = c
    BY <1>2, CapacityAssumption DEF DeletePV, TypeOK, Absent
  <2>2. (Listed(pv, c)' => Listed(pv, c)) /\ (InWork(pv, c)' => InWork(pv, c))
    BY <1>2 DEF DeletePV, Listed, InWork
  <2>3. Streamed(pv, c)' => Streamed(pv, c)
    <3>1. Emit("deleted", ItemOf(qv, api[qv])) /\ ItemOf(qv, api[qv]) \in Item
      BY <1>2, ObjectTypes DEF DeletePV, TypeOK
    <3> QED BY <3>1, EmitAsks
  <2> QED BY <2>1, <2>2, <2>3, AskedParts
<1>3. CASE SyncList \/ WatchStart
  <2>1. UNCHANGED <<api, mu, job>> /\ (events' = events \/ events' = <<>>)
    BY <1>3 DEF SyncList, WatchStart
  <2>2. Streamed(pv, c)' => Streamed(pv, c)
    BY <2>1 DEF Streamed
  <2>3. \A t \in Thread : todo'[t] \in {todo[t], Listing}
    BY <1>3 DEF SyncList, WatchStart, TypeOK
  <2>4. \A item \in Listing : item.pv = pv /\ item.cap = c => api[pv].cap = c
    BY DEF Listing, ItemOf
  <2>5. Listed(pv, c)' => Listed(pv, c) \/ api[pv].cap = c
    BY <2>3, <2>4 DEF Listed
  <2>6. InWork(pv, c)' => InWork(pv, c)
    BY <2>1 DEF InWork
  <2> QED BY <2>1, <2>2, <2>5, <2>6, AskedParts
<1>4. CASE SyncNext \/ WatchInitial
  <2>0. PICK t \in Thread : \E item \in todo[t] :
             EnsureQuota(t, item) /\ todo' = [todo EXCEPT ![t] = @ \ {item}]
    BY <1>4 DEF SyncNext, WatchInitial, Thread
  <2>1. PICK item \in todo[t] :
             EnsureQuota(t, item) /\ todo' = [todo EXCEPT ![t] = @ \ {item}]
    BY <2>0
  <2>2. item \in Item /\ UNCHANGED <<api, events>>
    BY <1>4, <2>1 DEF SyncNext, WatchInitial, TypeOK
  <2>3. Listed(pv, c)' => Listed(pv, c)
    BY <2>1 DEF Listed, TypeOK
  <2>4. InWork(pv, c)' => InWork(pv, c) \/ Listed(pv, c)
    BY <2>1, <2>2, EnsureQuotaAsks DEF Listed
  <2>5. api'[pv].cap = api[pv].cap /\ (Streamed(pv, c)' => Streamed(pv, c))
    BY <2>2 DEF Streamed
  <2> QED BY <2>3, <2>4, <2>5, AskedParts
<1>5. CASE WatchSet
  <2>1. /\ WatchReceives("set") /\ EnsureQuota("watch", Head(events).item)
        /\ UNCHANGED <<api, todo>>
    BY <1>5 DEF WatchSet
  <2>2. Head(events).item \in Item
    BY <2>1, ReceiveTypes
  <2>3. Streamed(pv, c)' => Streamed(pv, c)
    BY <2>1, ReceiveAsks
  <2>4. InWork(pv, c)' => InWork(pv, c) \/ Streamed(pv, c)
    BY <2>1, <2>2, ReceiveAsks, EnsureQuotaAsks DEF Thread
  <2>5. api'[pv].cap = api[pv].cap /\ (Listed(pv, c)' => Listed(pv, c))
    BY <2>1 DEF Listed
  <2> QED BY <2>3, <2>4, <2>5, AskedParts
<1>6. CASE WatchDeleted
  <2>1. Streamed(pv, c)' => Streamed(pv, c)
    BY <1>6, ReceiveAsks DEF WatchDeleted
  <2>2. UNCHANGED <<api, todo, mu, job>>
    BY <1>6 DEF WatchDeleted
  <2>3. /\ api'[pv].cap = api[pv].cap /\ (Listed(pv, c)' => Listed(pv, c))
        /\ (InWork(pv, c)' => InWork(pv, c))
    BY <2>2 DEF Listed, InWork
  <2> QED BY <2>1, <2>3, AskedParts
<1>7. CASE UpdateQuotaStatus
  <2>1. UNCHANGED <<api, todo>> /\ mu' = Free /\ job.pv \in PV
    BY <1>7, JobTypes DEF UpdateQuotaStatus, Unlock
  <2>2. Streamed(pv, c)' => Streamed(pv, c) \/ api[pv].cap = c
    <3>1. CASE UNCHANGED events
      BY <3>1 DEF Streamed
    <3>2. CASE api[job.pv] # Absent /\ Emit("set", ItemOf(job.pv, api[job.pv]))
      <4>1. ItemOf(job.pv, api[job.pv]) \in Item
        BY <3>2, <2>1, ObjectTypes DEF TypeOK
      <4>2. /\ ItemOf(job.pv, api[job.pv]).pv = job.pv
            /\ ItemOf(job.pv, api[job.pv]).cap = api[job.pv].cap
        BY DEF ItemOf
      <4> QED BY <3>2, <4>1, <4>2, EmitAsks
    <3> QED BY <1>7, <3>1, <3>2 DEF UpdateQuotaStatus
  <2>3. /\ api'[pv].cap = api[pv].cap /\ (Listed(pv, c)' => Listed(pv, c))
        /\ ~InWork(pv, c)'
    BY <2>1 DEF Listed, InWork
  <2> QED BY <2>2, <2>3, AskedParts
<1>8. CASE WatchBreaks \/ Restart
  <2>1. /\ api' = api /\ events' = <<>> /\ \A t \in Thread : todo'[t] \in {todo[t], {}}
        /\ mu' = Free \/ UNCHANGED <<mu, job>>
    BY <1>8 DEF WatchBreaks, Restart, Unlock, TypeOK
  <2>2. /\ api'[pv].cap = api[pv].cap /\ (Listed(pv, c)' => Listed(pv, c))
        /\ ~Streamed(pv, c)' /\ (InWork(pv, c)' => InWork(pv, c))
    BY <2>1 DEF Listed, Streamed, InWork
  <2> QED BY <2>2, AskedParts
<1>9. CASE \/ AddProjid \/ AddProjects \/ InitProject \/ InitProjectTolerated
           \/ SetLimit \/ ApplyFails
  <2>1. mu' = mu /\ job'.pv = job.pv /\ job'.cap = job.cap
    BY <1>9, GotoTypes DEF AddProjid, AddProjects, InitProject, InitProjectTolerated,
       SetLimit, ApplyFails, At
  <2>2. InWork(pv, c)' => InWork(pv, c)
    BY <2>1 DEF InWork
  <2>3. UNCHANGED <<api, todo, events>>
    BY <1>9 DEF AddProjid, AddProjects, InitProject, InitProjectTolerated,
       SetLimit, ApplyFails
  <2> QED BY <1>a, <2>2, <2>3
<1>10. CASE UpdateQuotaStatusFails
  <2>1. mu' = Free /\ UNCHANGED <<api, todo, events>>
    BY <1>10 DEF UpdateQuotaStatusFails, Unlock
  <2> QED BY <1>a, <2>1 DEF InWork
<1>11. CASE UNCHANGED <<api, todo, events, mu, job>>
  BY <1>a, <1>11 DEF InWork
<1> QED BY <1>1, <1>2, <1>3, <1>4, <1>5, <1>6, <1>7, <1>8, <1>9, <1>10, <1>11
        DEF Next, vars, Cluster, MakeDir, RemoveDir, Agent, GoWatch, EnsureStep

\* Every step of the agent and of its surroundings is a step of the table
LEMMA StepRefines ==
  ASSUME DistinctVolumes
  PROVE  StatusInv /\ [Next]_vars => [Table!Next]_(Table!tableVars)
<1> SUFFICES ASSUME StatusInv, [Next]_vars PROVE Table!Next
  OBVIOUS
<1> USE DEF cluster, disk
<1>0. TypeOK
  BY DEF StatusInv
<1>1. \A pv \in Tracked : /\ pv \in PV /\ IDOf(pv) \in ID
                          /\ Volume[pv].path \in Path /\ Volume[pv].path # NoPath
  BY ObjectTypes DEF Tracked
<1>2. ASSUME NEW vols \in SUBSET Tracked,
             \A pv \in vols : /\ api'[pv].cap = api[pv].cap
                             /\ \A obj \in Object : ~SetPV(pv, obj)
      PROVE  Table!Lapse(vols)
  <2> SUFFICES ASSUME NEW pv \in vols
               PROVE  /\ Asked(pv)' \subseteq Asked(pv)
                      /\ api[pv].cap # 0 => api[pv].cap \in Asked(pv)'
    BY DEF Table!Lapse
  <2>1. pv \in PV /\ Asked(pv)' \subseteq Asked(pv)
    BY <1>0, <1>1, <1>2, AskedLapses
  <2>2. api[pv].cap # 0 => api[pv].cap \in Capacity
    BY <1>0, <2>1 DEF TypeOK, Object, Absent
  <2>3. api'[pv].cap = api[pv].cap
    BY <1>2
  <2> QED BY <2>1, <2>2, <2>3, AskedParts
<1>3. ASSUME UNCHANGED api PROVE Table!Lapse(Tracked) /\ \A pv \in PV : api'[pv].cap = api[pv].cap
  <2>1. \A pv \in PV, obj \in Object : ~SetPV(pv, obj)
    BY <1>0, <1>3 DEF SetPV, TypeOK
  <2> QED BY <1>1, <1>2, <1>3, <2>1
<1>4. ASSUME NEW pv \in PV, NEW obj \in Object, SetPV(pv, obj) PROVE Table!Next
  <2>1. \A qv \in PV \ {pv} : api'[qv] = api[qv] /\ \A new \in Object : ~SetPV(qv, new)
    BY <1>0, <1>4 DEF SetPV, TypeOK
  <2>2. Asked(pv)' \subseteq Asked(pv) \cup {obj.cap}
    <3> SUFFICES ASSUME NEW c \in Capacity, c \in Asked(pv)', c # obj.cap
                 PROVE  c \in Asked(pv)
      BY DEF Asked
    <3>1. api'[pv] = obj
      BY <1>0, <1>4 DEF SetPV, TypeOK
    <3>2. (Listed(pv, c)' => Listed(pv, c)) /\ (InWork(pv, c)' => InWork(pv, c))
      BY <1>4 DEF SetPV, Listed, InWork
    <3>3. Streamed(pv, c)' => Streamed(pv, c)
      <4>1. Emit("set", ItemOf(pv, obj)) /\ ItemOf(pv, obj) \in Item
            /\ ItemOf(pv, obj).cap = obj.cap
        BY <1>4, ObjectTypes DEF SetPV, ItemOf
      <4> QED BY <1>0, <4>1, EmitAsks
    <3> QED BY <3>1, <3>2, <3>3, AskedParts
  <2>3. UNCHANGED <<limit, applied, status>> /\ obj.cap \in Capacity /\ api'[pv] = obj
    BY <1>0, <1>4 DEF SetPV, Object, TypeOK
  <2>4. CASE pv \in Tracked
    <3>1. obj.cap \in Asked(pv)'
      BY <2>3, AskedParts
    <3>2. \A qv \in Tracked : api'[qv].cap = IF qv = pv THEN obj.cap ELSE api[qv].cap
      BY <1>1, <2>1, <2>3
    <3>3. Table!Lapse(Tracked \ {pv})
      BY <1>1, <1>2, <2>1
    <3>4. Table!Ask(pv, obj.cap)
      BY <1>1, <2>2, <2>3, <2>4, <3>1, <3>2, <3>3 DEF Table!Ask
    <3> QED BY <2>3, <2>4, <3>4 DEF Table!Next
  <2>5. CASE pv \notin Tracked
    <3>1. Table!Lapse(Tracked) /\ \A qv \in Tracked : api'[qv].cap = api[qv].cap
      BY <1>1, <1>2, <2>1, <2>5
    <3>2. Table!Forget({})
      BY <2>3, <3>1 DEF Table!Forget
    <3> QED BY <3>2 DEF Table!Next
  <2> QED BY <2>4, <2>5
<1>5. ASSUME NEW pv \in PV, DeletePV(pv) PROVE Table!Next
  <2>1. \A qv \in PV : /\ api'[qv].cap = IF qv = pv THEN 0 ELSE api[qv].cap
                       /\ status'[qv] = IF qv = pv THEN "none" ELSE status[qv]
    BY <1>0, <1>5 DEF DeletePV, TypeOK, Absent
  <2>2. UNCHANGED <<limit, applied>>
    BY <1>5 DEF DeletePV
  <2>3. \A qv \in PV, obj \in Object : ~SetPV(qv, obj)
    <3> SUFFICES ASSUME NEW qv \in PV, NEW obj \in Object, SetPV(qv, obj) PROVE FALSE
      OBVIOUS
    <3>1. api'[qv] = obj /\ obj # api[qv] /\ obj # Absent
      BY <1>0, ObjectTypes DEF SetPV, TypeOK
    <3>2. api'[qv] \in {Absent, api[qv]}
      BY <1>0, <1>5 DEF DeletePV, TypeOK
    <3> QED BY <3>1, <3>2
  <2>4. Table!Lapse(Tracked \ {pv})
    BY <1>1, <1>2, <2>1, <2>3
  <2>5. CASE pv \in Tracked
    <3>1. Asked(pv)' \subseteq Asked(pv)
      BY <1>0, <2>3, AskedLapses
    <3>2. Table!Withdraw(pv)
      BY <1>1, <2>1, <2>2, <2>4, <2>5, <3>1 DEF Table!Withdraw
    <3> QED BY <2>5, <3>2 DEF Table!Next
  <2>6. CASE pv \notin Tracked
    <3>1. \A qv \in Tracked : api'[qv].cap = api[qv].cap /\ status'[qv] = status[qv]
      BY <1>1, <2>1, <2>6
    <3>2. Tracked \ {pv} = Tracked
      BY <2>6
    <3>3. Table!Forget({})
      BY <1>1, <2>2, <2>4, <3>1, <3>2 DEF Table!Forget
    <3> QED BY <3>3 DEF Table!Next
  <2> QED BY <2>5, <2>6
<1>6. CASE SetLimit
  <2>1. Table!Lapse(Tracked) /\ \A pv \in PV : api'[pv].cap = api[pv].cap
    BY <1>3, <1>6 DEF SetLimit
  <2>2. /\ mu # Free /\ job.pv \in Tracked /\ job.cap \in Capacity /\ UNCHANGED status
        /\ JobID \in ID /\ JobPath \in Path
    BY <1>0, <1>6, JobTypes DEF SetLimit, At, TypeOK, Tracked
  <2>3. job.cap \in Asked(job.pv)
    BY <2>2 DEF Asked, Tracked
  <2>4. \A pv \in Tracked :
           /\ limit'[IDOf(pv)] = IF pv = job.pv THEN SizeKB(job.cap) ELSE limit[IDOf(pv)]
           /\ applied'[Volume[pv].path] =
                 IF pv = job.pv THEN job.cap ELSE applied[Volume[pv].path]
    BY <1>0, <1>1, <1>6, <2>2 DEF SetLimit, DistinctVolumes, JobID, JobPath, TypeOK
  <2>5. PICK pv \in Tracked, c \in Capacity : pv = job.pv /\ c = job.cap
    BY <2>2
  <2>6. Table!Set(pv, c)
    BY <1>1, <2>1, <2>2, <2>3, <2>4, <2>5 DEF Table!Set
  <2> QED BY <2>6 DEF Table!Next
<1>7. CASE WatchDeleted
  <2>1. Table!Lapse(Tracked) /\ \A pv \in PV : api'[pv].cap = api[pv].cap
    BY <1>3, <1>7 DEF WatchDeleted
  <2>2. PICK pv \in PV : Forget(pv) /\ UNCHANGED <<limit, status>>
    <3>1. Head(events).item.pv \in PV
      BY <1>0, <1>7, ReceiveTypes DEF WatchDeleted, Item
    <3> QED BY <1>7, <3>1 DEF WatchDeleted
  <2>3. \A qv \in Tracked : applied'[Volume[qv].path] =
           IF qv \in {pv} \cap Tracked THEN 0 ELSE applied[Volume[qv].path]
    BY <1>0, <1>1, <2>2 DEF Forget, Tracked, DistinctVolumes, TypeOK
  <2>4. Table!Forget({pv} \cap Tracked)
    BY <1>1, <2>1, <2>2, <2>3 DEF Table!Forget
  <2> QED BY <2>4 DEF Table!Next
<1>8. CASE Restart
  <2>1. Table!Lapse(Tracked) /\ \A pv \in PV : api'[pv].cap = api[pv].cap
    BY <1>3, <1>8 DEF Restart
  <2>2. Table!Forget(Tracked)
    BY <1>1, <1>8, <2>1 DEF Restart, Table!Forget
  <2> QED BY <2>2 DEF Table!Next
<1>9. CASE UpdateQuotaStatus
  <2>1. Table!Lapse(Tracked) /\ \A pv \in PV : api'[pv].cap = api[pv].cap
    BY <1>3, <1>9 DEF UpdateQuotaStatus
  <2>2. mu # Free /\ job.pv \in Tracked /\ UNCHANGED <<limit, applied>>
    BY <1>0, <1>9, JobTypes DEF UpdateQuotaStatus, TypeOK, Tracked
  <2>3. CASE UNCHANGED status
    <3>1. Table!Forget({})
      BY <1>1, <2>1, <2>2, <2>3 DEF Table!Forget
    <3> QED BY <3>1 DEF Table!Next
  <2>4. CASE api[job.pv] # Absent /\ status' = [status EXCEPT ![job.pv] = job.pc]
    <3>1. job.pc \in {"applied", "failed"} /\ (job.pc = "applied" => limit[JobID] # 0)
      BY <1>9, <2>2 DEF UpdateQuotaStatus, StatusInv
    <3>2. \A pv \in Tracked : status'[pv] = IF pv = job.pv THEN job.pc ELSE status[pv]
      BY <1>0, <1>1, <2>4 DEF TypeOK
    <3>3. PICK pv \in Tracked, r \in {"applied", "failed"} : pv = job.pv /\ r = job.pc
      BY <2>2, <3>1
    <3>4. api[pv].cap # 0
      BY <1>0, <1>1, <2>4, <3>3, CapacityAssumption DEF TypeOK, Object
    <3>5. Table!Say(pv, r)
      BY <1>1, <2>1, <2>2, <3>1, <3>2, <3>3, <3>4 DEF Table!Say, JobID
    <3> QED BY <3>5 DEF Table!Next
  <2> QED BY <1>9, <2>3, <2>4 DEF UpdateQuotaStatus
<1>10. CASE UNCHANGED <<api, limit, applied, status>>
  <2>1. Table!Forget({})
    BY <1>1, <1>3, <1>10 DEF Table!Forget
  <2> QED BY <2>1 DEF Table!Next
<1> QED BY <1>4, <1>5, <1>6, <1>7, <1>8, <1>9, <1>10
        DEF Next, vars, Cluster, MakeDir, RemoveDir, Agent, SyncList, SyncNext, GoWatch,
            WatchStart, WatchInitial, WatchSet, EnsureStep, AddProjid, AddProjects,
            InitProject, InitProjectTolerated, ApplyFails, UpdateQuotaStatusFails, WatchBreaks

(***************************************************************************)
(* For volumes that share nothing the agent is a table of limits: files,   *)
(* commands, locks, lists, events and crashes come to setting a limit and  *)
(* remembering it in one step, to a capacity that the cluster gave the     *)
(* volume and that has not lapsed since: none that all objects in hand     *)
(* have overtaken comes back, and the agent changes nobody's capacity.     *)
(***************************************************************************)
THEOREM AgentIsATable ==
  ASSUME DistinctVolumes PROVE Spec => ImplementsTable
<1>1. Init => Table!Init
  <2> SUFFICES ASSUME Init PROVE Table!Init
    OBVIOUS
  <2>1. \A pv \in Tracked : pv \in PV /\ IDOf(pv) \in ID /\ Volume[pv].path \in Path
    BY ObjectTypes DEF Tracked
  <2>2. \A pv \in Tracked : Asked(pv) = {} /\ api[pv].cap = 0
    BY <2>1, CapacityAssumption DEF Init, Asked, Absent, Thread, Free
  <2> QED BY <2>1, <2>2 DEF Init, Table!Init
<1>2. StatusInv /\ [Next]_vars => [Table!Next]_(Table!tableVars)
  BY StepRefines
<1> QED BY <1>1, <1>2, InitStatusInv, NextStatusInv, PTL
        DEF Spec, ImplementsTable, Table!Spec
=============================================================================
