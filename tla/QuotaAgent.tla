----------------------------- MODULE QuotaAgent -----------------------------
(***************************************************************************)
(* The quota agent proper: internal/agent/agent.go and watch.go, with the  *)
(* quota back ends they call (internal/quota/xfs.go, ext4.go, project.go). *)
(*                                                                         *)
(* Two goroutines, the periodic "sync" and the "watch", bring the kernel's *)
(* project quotas in line with the PersistentVolumes of the cluster.  Both *)
(* work from objects that may be out of date by the time they are used: a  *)
(* List result, or a watch event still in the stream.  They meet in        *)
(* ensureQuota, which holds the mutex mu over all its steps.  The agent's  *)
(* memory is appliedQuotas; a restart loses it, and keeps the project      *)
(* files, the kernel's limits and the directories' project ids.            *)
(***************************************************************************)
EXTENDS Integers, Sequences, FiniteSets, ProjectFiles

CONSTANTS
    PV,             \* names of PersistentVolumes
    NoPV,           \* the PV of no job
    NoPath,         \* the path of a volume with neither an NFS nor a CSI share
    NoID,           \* the project id of a directory nobody has initialised
    Volume,         \* what of a PV's spec never changes
    ProjectID,      \* generateProjectID: project name -> project id
    Capacity,       \* storage requests, in bytes
    FsType,         \* "xfs" or "ext4"
    ProcessAllNFS,  \* --process-all-nfs
    Rebuild,        \* may a directory that was removed come back?
    MaxOps,         \* bound on the changes made by the cluster
    MaxFaults       \* bound on failed commands and calls, broken watches, restarts

Source == {"nfs", "csi", "otherCSI", "none"}

VolumeSpec == [source : Source, provisioned : BOOLEAN,
               path : Path \cup {NoPath}, name : Name]

ASSUME VolumeAssumption   == Volume \in [PV -> VolumeSpec]
ASSUME ProjectIDAssumption == ProjectID \in [Name -> ID]
ASSUME NoneAssumption     == NoPV \notin PV /\ NoPath \notin Path /\ NoID \notin ID
ASSUME CapacityAssumption == Capacity \subseteq Nat \ {0}
ASSUME FsTypeAssumption   == FsType \in {"xfs", "ext4"}
ASSUME FlagsAssumption    == ProcessAllNFS \in BOOLEAN /\ Rebuild \in BOOLEAN
ASSUME BoundsAssumption   == MaxOps \in Nat /\ MaxFaults \in Nat

VARIABLES
    api,       \* the API server's PVs: phase and capacity
    status,    \* the quota-status annotation of each PV
    dir,       \* the directories of the export
    tag,       \* the project id set on each directory
    limit,     \* the kernel's block limit of each project, in KB; 0 is none
    projid,    \* /etc/projid
    projects,  \* /etc/projects
    audit,     \* the last quota entry of the audit log
    applied,   \* appliedQuotas; 0 for a path that has no entry
    mu,        \* which goroutine holds a.mu
    job,       \* where the holder is in ensureQuota, and for which PV
    todo,      \* objects each goroutine has listed and not yet looked at
    conn,      \* the watch: not started, between two watches, connected
    events,    \* the watch events not yet received
    ops,       \* changes made by the cluster so far
    faults     \* faults so far

cluster == <<api, status, dir, ops>>
disk    == <<tag, limit, projid, projects, audit>>
vars    == <<api, status, dir, tag, limit, projid, projects, audit, applied,
             mu, job, todo, conn, events, ops, faults>>

Thread == {"sync", "watch"}
Free   == "free"

Object == [bound : BOOLEAN, cap : Capacity]
Absent == [bound |-> FALSE, cap |-> 0]
Item   == [pv : PV, bound : BOOLEAN, cap : Capacity]
Event  == [type : {"set", "deleted"}, item : Item]

NoJob == [pc |-> "idle", pv |-> NoPV, cap |-> 0]
NoEntry == [action |-> "none", pv |-> NoPV, old |-> 0, new |-> 0, ok |-> FALSE]

ItemOf(pv, obj) == [pv |-> pv, bound |-> obj.bound, cap |-> obj.cap]
Listing == {ItemOf(pv, api[pv]) : pv \in {q \in PV : api[q] # Absent}}

IDOf(pv) == ProjectID[Volume[pv].name]

\* Blocks of 1 KB, never none
SizeKB(bytes) == IF bytes \div 1024 = 0 THEN 1 ELSE bytes \div 1024

-----------------------------------------------------------------------------
Init ==
    /\ api = [pv \in PV |-> Absent]
    /\ status = [pv \in PV |-> "none"]
    /\ dir = [p \in Path |-> "none"]
    /\ tag = [p \in Path |-> NoID]
    /\ limit = [i \in ID |-> 0]
    /\ projid = {} /\ projects = {}
    /\ audit = NoEntry
    /\ applied = [p \in Path |-> 0]
    /\ mu = Free /\ job = NoJob
    /\ todo = [t \in Thread |-> {}]
    /\ conn = "off" /\ events = <<>>
    /\ ops = 0 /\ faults = 0

(***************************************************************************)
(* The cluster and the provisioner (outside src/).  A change of a PV is    *)
(* seen by the agent only if its watch is connected.                       *)
(***************************************************************************)
Emit(type, item) ==
    events' = IF conn = "up" THEN Append(events, [type |-> type, item |-> item])
                             ELSE events

ClusterStep == ops < MaxOps /\ ops' = ops + 1

SetPV(pv, obj) ==
    /\ ClusterStep
    /\ obj # api[pv]
    /\ api' = [api EXCEPT ![pv] = obj]
    /\ Emit("set", ItemOf(pv, obj))
    /\ UNCHANGED <<status, dir, disk, applied, mu, job, todo, conn, faults>>

DeletePV(pv) ==
    /\ ClusterStep
    /\ api[pv] # Absent
    /\ api' = [api EXCEPT ![pv] = Absent]
    /\ status' = [status EXCEPT ![pv] = "none"]
    /\ Emit("deleted", ItemOf(pv, api[pv]))
    /\ UNCHANGED <<dir, disk, applied, mu, job, todo, conn, faults>>

MakeDir(p) ==
    /\ ClusterStep
    /\ dir[p] = "none" \/ (Rebuild /\ dir[p] = "gone")
    /\ dir' = [dir EXCEPT ![p] = "present"]
    /\ UNCHANGED <<api, status, disk, applied, mu, job, todo, conn, events, faults>>

RemoveDir(p) ==
    /\ ClusterStep
    /\ dir[p] = "present"
    /\ dir' = [dir EXCEPT ![p] = "gone"]
    /\ tag' = [tag EXCEPT ![p] = NoID]
    /\ UNCHANGED <<api, status, limit, projid, projects, audit, applied, mu, job,
                   todo, conn, events, faults>>

Cluster ==
    \/ \E pv \in PV, obj \in Object : SetPV(pv, obj)
    \/ \E pv \in PV : DeletePV(pv)
    \/ \E p \in Path : MakeDir(p) \/ RemoveDir(p)

-----------------------------------------------------------------------------
ShouldProcessPV(item) ==
    LET v == Volume[item.pv] IN
    /\ item.bound
    /\ v.source \in {"nfs", "csi"}
    /\ ProcessAllNFS \/ v.source = "csi" \/ v.provisioned

\* Mutant: a quota once applied is taken for settled, whatever its size
NothingToDoEver(item) ==
    LET p == Volume[item.pv].path IN
    p = NoPath \/ dir[p] # "present" \/ applied[p] # 0

\* The early returns of ensureQuota: no path, no directory, nothing to change
NothingToDo(item) ==
    LET p == Volume[item.pv].path IN
    p = NoPath \/ dir[p] # "present" \/ applied[p] = item.cap

\* Mutant: the object has no capacity in it, and a default one is taken
EnsureQuotaDefault(t, item) ==
    \/ /\ ~ShouldProcessPV(item) \/ (mu = Free /\ NothingToDo(item))
       /\ UNCHANGED <<mu, job>>
    \/ /\ mu = Free /\ ShouldProcessPV(item) /\ ~NothingToDo(item)
       /\ mu' = t
       /\ job' = [pc |-> "projid", pv |-> item.pv, cap |-> CHOOSE c \in Capacity : TRUE]

\* Goroutine t takes up item: passes it over, or enters ensureQuota with it
EnsureQuota(t, item) ==
    \/ /\ ~ShouldProcessPV(item)
       /\ UNCHANGED <<mu, job>>
    \/ /\ ShouldProcessPV(item)
       /\ mu = Free /\ NothingToDo(item)
       /\ UNCHANGED <<mu, job>>
    \/ /\ ShouldProcessPV(item)
       /\ mu = Free /\ ~NothingToDo(item)
       /\ mu' = t
       /\ job' = [pc |-> "projid", pv |-> item.pv, cap |-> item.cap]

\* syncAllQuotas lists once and works through the result
SyncList ==
    /\ todo["sync"] = {} /\ mu # "sync"
    /\ todo' = [todo EXCEPT !["sync"] = Listing]
    /\ UNCHANGED <<cluster, disk, applied, mu, job, conn, events, faults>>

SyncNext ==
    /\ mu # "sync"
    /\ \E item \in todo["sync"] :
          /\ EnsureQuota("sync", item)
          /\ todo' = [todo EXCEPT !["sync"] = @ \ {item}]
    /\ UNCHANGED <<cluster, disk, applied, conn, events, faults>>

\* Run starts the watch after the initial sync, whether or not its List worked
GoWatch ==
    /\ conn = "off" /\ todo["sync"] = {} /\ mu # "sync"
    /\ conn' = "down"
    /\ UNCHANGED <<cluster, disk, applied, mu, job, todo, events, faults>>

\* A watch without a resource version begins with an Added event for every PV
WatchStart ==
    /\ conn = "down" /\ mu # "watch"
    /\ conn' = "up" /\ events' = <<>>
    /\ todo' = [todo EXCEPT !["watch"] = Listing]
    /\ UNCHANGED <<cluster, disk, applied, mu, job, faults>>

WatchInitial ==
    /\ mu # "watch"
    /\ \E item \in todo["watch"] :
          /\ EnsureQuota("watch", item)
          /\ todo' = [todo EXCEPT !["watch"] = @ \ {item}]
    /\ UNCHANGED <<cluster, disk, applied, conn, events, faults>>

WatchReceives(type) ==
    /\ mu # "watch" /\ todo["watch"] = {}
    /\ events # <<>> /\ Head(events).type = type
    /\ events' = Tail(events)

WatchSet ==
    /\ WatchReceives("set")
    /\ EnsureQuota("watch", Head(events).item)
    /\ UNCHANGED <<cluster, disk, applied, todo, conn, faults>>

\* The Deleted case takes mu for one map deletion, whoever the PV belongs to
Forget(pv) ==
    LET p == Volume[pv].path IN
    applied' = IF p = NoPath THEN applied ELSE [applied EXCEPT ![p] = 0]

WatchDeleted ==
    /\ WatchReceives("deleted")
    /\ mu = Free
    /\ Forget(Head(events).item.pv)
    /\ UNCHANGED <<cluster, disk, mu, job, todo, conn, faults>>

-----------------------------------------------------------------------------
(***************************************************************************)
(* ensureQuota past its early returns, one action for each effect that     *)
(* outlives a crash.  Any of the commands may fail: the rest of            *)
(* applyQuota is then skipped, and nothing done so far is undone.          *)
(***************************************************************************)
At(pc) == mu # Free /\ job.pc = pc
Goto(pc) == job' = [job EXCEPT !.pc = pc] /\ UNCHANGED mu
Fault == faults < MaxFaults /\ faults' = faults + 1

JobPath == Volume[job.pv].path
JobID   == IDOf(job.pv)

\* Mutant: an error of the first append is ignored
AddProjidIgnoresError ==
    /\ At("projid") /\ Goto("projects")
    /\ \/ projid' = AppendToFile(projid, Line(Volume[job.pv].name, JobID))
       \/ UNCHANGED projid
    /\ UNCHANGED <<cluster, tag, limit, projects, audit, applied, todo, conn, events, faults>>

AddProjid ==
    /\ At("projid") /\ Goto("projects")
    /\ projid' = AppendToFile(projid, Line(Volume[job.pv].name, JobID))
    /\ UNCHANGED <<cluster, tag, limit, projects, audit, applied, todo, conn, events, faults>>

\* Mutant: the second append is left to the next sync
AddProjectsNot ==
    /\ At("projects") /\ Goto("init")
    /\ UNCHANGED <<cluster, disk, applied, todo, conn, events, faults>>

AddProjects ==
    /\ At("projects") /\ Goto("init")
    /\ projects' = AppendToFile(projects, Line(JobID, JobPath))
    /\ UNCHANGED <<cluster, tag, limit, projid, audit, applied, todo, conn, events, faults>>

\* xfs_quota "project -s", or chattr: the directory gets the project id
InitProject ==
    /\ At("init") /\ Goto("limit")
    /\ tag' = [tag EXCEPT ![JobPath] = IF dir[JobPath] = "present" THEN JobID ELSE @]
    /\ UNCHANGED <<cluster, limit, projid, projects, audit, applied, todo, conn, events, faults>>

\* ApplyExt4Quota goes on when chattr and its fallback fail
InitProjectTolerated ==
    /\ FsType = "ext4"
    /\ At("init") /\ Goto("limit") /\ Fault
    /\ UNCHANGED <<cluster, disk, applied, todo, conn, events>>

IsUpdate == applied[JobPath] > 0 /\ applied[JobPath] # job.cap

\* Mutant: the entry does not look at the error
AuditEntryAlwaysOk(ok) ==
    [action |-> IF IsUpdate THEN "UPDATE" ELSE "CREATE",
     pv |-> job.pv, old |-> IF IsUpdate THEN applied[JobPath] ELSE 0,
     new |-> job.cap, ok |-> TRUE]

AuditEntry(ok) ==
    [action |-> IF IsUpdate THEN "UPDATE" ELSE "CREATE",
     pv |-> job.pv, old |-> IF IsUpdate THEN applied[JobPath] ELSE 0,
     new |-> job.cap, ok |-> ok]

\* xfs_quota "limit" or setquota; then the audit entry and the map entry
SetLimit ==
    /\ At("limit") /\ Goto("applied")
    /\ limit' = [limit EXCEPT ![JobID] = SizeKB(job.cap)]
    /\ audit' = AuditEntry(TRUE)
    /\ applied' = [applied EXCEPT ![JobPath] = job.cap]
    /\ UNCHANGED <<cluster, tag, projid, projects, todo, conn, events, faults>>

\* Mutant: the capacity is remembered before the error is looked at
ApplyFailsRemembers ==
    /\ job.pc \in {"projid", "projects", "init", "limit"}
    /\ mu # Free /\ Goto("failed") /\ Fault
    /\ audit' = AuditEntry(FALSE)
    /\ applied' = [applied EXCEPT ![JobPath] = job.cap]
    /\ UNCHANGED <<cluster, tag, limit, projid, projects, todo, conn, events>>

ApplyFails ==
    /\ job.pc \in {"projid", "projects", "init", "limit"}
    /\ FsType = "xfs" \/ job.pc # "init"
    /\ mu # Free /\ Goto("failed") /\ Fault
    /\ audit' = AuditEntry(FALSE)
    /\ UNCHANGED <<cluster, tag, limit, projid, projects, applied, todo, conn, events>>

\* Mutant: the job outlives the lock
UnlockKeepsJob == mu' = Free /\ UNCHANGED job

Unlock == mu' = Free /\ job' = NoJob

\* Mutant: the annotation does not look at the error
UpdateQuotaStatusAlwaysApplied ==
    /\ mu # Free /\ job.pc \in {"applied", "failed"} /\ Unlock
    /\ IF api[job.pv] = Absent \/ status[job.pv] = "applied"
       THEN UNCHANGED <<status, events>>
       ELSE /\ status' = [status EXCEPT ![job.pv] = "applied"]
            /\ Emit("set", ItemOf(job.pv, api[job.pv]))
    /\ UNCHANGED <<api, dir, ops, disk, applied, todo, conn, faults>>

\* Mutant: the annotation is written with the object the job began with
UpdateQuotaStatusFromOld ==
    /\ mu # Free /\ job.pc \in {"applied", "failed"} /\ Unlock
    /\ IF api[job.pv] = Absent \/ status[job.pv] = job.pc
       THEN UNCHANGED <<api, status, events>>
       ELSE /\ api' = [api EXCEPT ![job.pv].cap = job.cap]
            /\ status' = [status EXCEPT ![job.pv] = job.pc]
            /\ Emit("set", ItemOf(job.pv, api'[job.pv]))
    /\ UNCHANGED <<dir, ops, disk, applied, todo, conn, faults>>

\* Get the PV by its name and write the annotation; a change makes an event
UpdateQuotaStatus ==
    /\ mu # Free /\ job.pc \in {"applied", "failed"} /\ Unlock
    /\ IF api[job.pv] = Absent \/ status[job.pv] = job.pc
       THEN UNCHANGED <<status, events>>
       ELSE /\ status' = [status EXCEPT ![job.pv] = job.pc]
            /\ Emit("set", ItemOf(job.pv, api[job.pv]))
    /\ UNCHANGED <<api, dir, ops, disk, applied, todo, conn, faults>>

\* The Get or the Update fails: logged, and forgotten
UpdateQuotaStatusFails ==
    /\ mu # Free /\ job.pc \in {"applied", "failed"} /\ Unlock /\ Fault
    /\ UNCHANGED <<cluster, disk, applied, todo, conn, events>>

EnsureStep ==
    \/ AddProjid \/ AddProjects \/ InitProject \/ InitProjectTolerated
    \/ SetLimit \/ ApplyFails \/ UpdateQuotaStatus \/ UpdateQuotaStatusFails

-----------------------------------------------------------------------------
\* The stream ends; what it had not delivered is lost
WatchBreaks ==
    /\ conn = "up" /\ Fault
    /\ conn' = "down" /\ events' = <<>>
    /\ todo' = [todo EXCEPT !["watch"] = {}]
    /\ UNCHANGED <<cluster, disk, applied, mu, job>>

\* The process dies at any point and Run begins again with empty maps
Restart ==
    /\ Fault
    /\ applied' = [p \in Path |-> 0]
    /\ Unlock
    /\ todo' = [t \in Thread |-> {}]
    /\ conn' = "off" /\ events' = <<>>
    /\ UNCHANGED <<cluster, disk>>

Agent ==
    \/ SyncList \/ SyncNext \/ GoWatch
    \/ WatchStart \/ WatchInitial \/ WatchSet \/ WatchDeleted
    \/ EnsureStep

Next == Cluster \/ Agent \/ WatchBreaks \/ Restart

Spec == Init /\ [][Next]_vars

(***************************************************************************)
(* The ticker fires again and again, both goroutines are scheduled, and    *)
(* whoever holds mu runs to the end of ensureQuota.  Weak fairness is      *)
(* enough: nothing here relies on the order in which mu is handed on.      *)
(***************************************************************************)
Fairness ==
    /\ WF_vars(SyncList) /\ WF_vars(SyncNext)
    /\ WF_vars(GoWatch) /\ WF_vars(WatchStart)
    /\ WF_vars(WatchInitial) /\ WF_vars(WatchSet) /\ WF_vars(WatchDeleted)
    /\ WF_vars(EnsureStep)

FairSpec == Spec /\ Fairness

-----------------------------------------------------------------------------
(***************************************************************************)
(* Properties.                                                             *)
(***************************************************************************)

\* Every variable has its type; a job exists exactly while mu is held.
TypeOK ==
    /\ api \in [PV -> Object \cup {Absent}]
    /\ status \in [PV -> {"none", "applied", "failed"}]
    /\ dir \in [Path -> {"none", "present", "gone"}]
    /\ tag \in [Path -> ID \cup {NoID}]
    /\ limit \in [ID -> Nat]
    /\ projid \subseteq ProjidLine /\ projects \subseteq ProjectsLine
    /\ audit \in [action : {"none", "CREATE", "UPDATE"}, pv : PV \cup {NoPV},
                  old : Capacity \cup {0}, new : Capacity \cup {0}, ok : BOOLEAN]
    /\ applied \in [Path -> Capacity \cup {0}]
    /\ mu \in Thread \cup {Free}
    /\ IF mu = Free
       THEN job = NoJob
       ELSE /\ job \in [pc : {"projid", "projects", "init", "limit", "applied", "failed"},
                        pv : PV, cap : Capacity]
            /\ Volume[job.pv].path # NoPath
    /\ todo \in [Thread -> SUBSET Item]
    /\ conn \in {"off", "down", "up"}
    /\ events \in Seq(Event)
    /\ ops \in Nat /\ faults \in Nat

\* The volumes the agent works on use different directories, names and ids:
\* what the properties of the project files and of the limits presuppose, and
\* what a hash of a cut-off name and the base-name rule of nfsPathToLocal do
\* not by themselves provide.
Tracked == {pv \in PV : Volume[pv].path # NoPath}

DistinctVolumes ==
    \A pv, qv \in Tracked : pv # qv =>
        /\ Volume[pv].path # Volume[qv].path
        /\ Volume[pv].name # Volume[qv].name
        /\ IDOf(pv) # IDOf(qv)

\* No name, id or path is part of the text of another.
SeparateTexts ==
    Within = {} /\ Name \cap ID = {} /\ ID \cap Path = {}

\* What appliedQuotas remembers is in force: for a path with an entry, the
\* kernel's limit of the owner's project is the remembered capacity, and the
\* directory belongs to that project or, if it was made anew or chattr failed,
\* to none.  Jobs that fail half-way, stale objects and lost events included.
TrackedIsEnforced ==
    \A pv \in Tracked : LET p == Volume[pv].path IN
        applied[p] # 0 =>
            /\ limit[IDOf(pv)] = SizeKB(applied[p])
            /\ tag[p] \in {IDOf(pv), NoID}

\* A path with an entry in appliedQuotas is listed in both project files,
\* although each append is skipped whenever the file seems to have the entry.
TrackedIsListed ==
    \A pv \in Tracked : LET p == Volume[pv].path IN
        applied[p] # 0 =>
            /\ Line(IDOf(pv), p) \in projects
            /\ Line(Volume[pv].name, IDOf(pv)) \in projid

\* Every id listed in the projects file has a name in the projid file, also
\* after a crash or an error between the two appends of AddProject, and no id
\* is listed for two directories.
ProjectsAreNamed ==
    /\ \A line \in projects : \E n \in projid : n.val = line.key
    /\ UniqueKeys(projects)

\* A PV that reports "applied" has a limit in the kernel, although the status
\* is written later, by name, and perhaps to a PV that was created meanwhile.
StatusMeansLimited ==
    \A pv \in PV : status[pv] = "applied" => limit[IDOf(pv)] # 0

EntryIsTruthful ==
    LET id == IDOf(audit'.pv) IN
    /\ audit'.ok => limit'[id] = SizeKB(audit'.new)
    /\ audit'.action = "UPDATE" => limit[id] = SizeKB(audit'.old)

\* The audit log tells the truth: an entry of success is written when the limit
\* in force becomes the entry's new value, and an UPDATE's old value is the
\* limit that was in force until then.
AuditIsTruthful ==
    [][audit' # audit => EntryIsTruthful]_vars

Wanted(pv) ==
    /\ api[pv] # Absent /\ ShouldProcessPV(ItemOf(pv, api[pv]))
    /\ Volume[pv].path # NoPath /\ dir[Volume[pv].path] = "present"

Enforced(pv) ==
    /\ tag[Volume[pv].path] = IDOf(pv)
    /\ limit[IDOf(pv)] = SizeKB(api[pv].cap)

\* Once the cluster and the faults come to rest, every bound volume with a
\* directory is held to its present capacity for good: whatever was lost,
\* reordered, applied from an old object or left half-done is made up for.
Converges == <>[](\A pv \in PV : Wanted(pv) => Enforced(pv))

\* The capacities a PV may still be limited to: its present one, those of objects
\* that were read and not yet looked at, and the one that ensureQuota is at.
Asked(pv) == {c \in Capacity :
    \/ api[pv].cap = c
    \/ \E t \in Thread : \E item \in todo[t] : item.pv = pv /\ item.cap = c
    \/ \E i \in DOMAIN events : LET item == events[i].item IN
          events[i].type = "set" /\ item.pv = pv /\ item.cap = c
    \/ mu # Free /\ job.pv = pv /\ job.cap = c}

Table == INSTANCE QuotaTable WITH
    Blocks <- [c \in Capacity |-> SizeKB(c)],
    want   <- [pv \in Tracked |-> api[pv].cap],
    table  <- [pv \in Tracked |-> limit[IDOf(pv)]],
    memo   <- [pv \in Tracked |-> applied[Volume[pv].path]],
    report <- [pv \in Tracked |-> status[pv]],
    asked  <- [pv \in Tracked |-> Asked(pv)]

\* All the agent does amounts to a table of limits.  What it works towards comes
\* from the cluster: ensureQuota takes up no capacity but of an object in hand,
\* and one that every object in hand has overtaken, which a lost event, a restart
\* or a new List brings about, is never applied again unless the PV is given it
\* again; and no status the agent writes changes what the PV asks for.  A limit is
\* set and remembered in a single step or not at all; a deleted PV is given no
\* status, and "applied" is said of a volume that has a limit.
ImplementsTable == Table!Spec
=============================================================================
