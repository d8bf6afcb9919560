----------------------------- MODULE UsageReport -----------------------------
(***************************************************************************)
(* Who uses how much of which limit: GetDirUsages of internal/status/dir.go *)
(* over the quota reports of internal/quota/report.go, as the quota page,  *)
(* the status page, the report command and the metrics call it.            *)
(*                                                                         *)
(* A report runs a quota command, reads the project files to find out whose *)
(* lines the command printed, scans the directories, measures them one by  *)
(* one, and the quota page at last lists the PVs.  All of that changes in  *)
(* the meantime, and every step may fail.  Sizes are in KB.                *)
(*                                                                         *)
(* The agent and the page derive a PV's directory each on its own, and do  *)
(* not agree on every CSI volume: path is the agent's, uiPath the page's.  *)
(***************************************************************************)
EXTENDS ProjectFiles, Naturals, FiniteSets

CONSTANTS
    Vol,        \* volumes
    Volume,     \* each with its name, id and path, and its path for the page
    NoDir,      \* above the top-level directories: the base path
    Parent,     \* of a directory
    Hidden,     \* names with a dot, and the project files' names at the top
    Limit,      \* block limits; 0 is none
    Use,        \* what a directory may hold
    MaxMoves    \* bound on what changes during one report

\* The page knows no path of a volume of another driver than nfs.csi.k8s.io, and
\* takes a share without a subdirectory for the path: that may be the base path
ASSUME VolumeAssumption ==
    Volume \in [Vol -> [name : Name, id : ID, path : Path, uiPath : Path \cup {NoDir}]]
ASSUME ParentAssumption == NoDir \notin Path /\ Parent \in [Path -> Path \cup {NoDir}]
ASSUME SizeAssumption   == Limit \subseteq Nat /\ Use \subseteq Nat
ASSUME MovesAssumption  == MaxMoves \in Nat

VARIABLES
    fs,        \* what DetectFSType finds
    client,    \* has the page a client of the API server?  The ui command has none
    projid, projects,   \* the project files
    limit,     \* the kernel's limit of each project
    usage,     \* what the files under each directory sum up to
    dirs,      \* directories that exist
    claimed,   \* volumes with a PV
    report,    \* the report in progress: for which page, and where it is
    table,     \* what the quota command printed
    idNames,   \* what was read of /etc/projid
    known,     \* quotaMap and usageMap
    toScan,    \* top-level directories to be looked into
    toMeasure, \* quotaDirs
    lines,     \* the directories of the answer
    owners,    \* getPVInfoMap: a volume for each path that has one
    wasLimit,  \* history: limits of each project since the report began
    upset,     \* history: did something change or fail since then?
    moves      \* how many of the changes have been made

files == <<projid, projects>>
reality == <<fs, client, files, limit, usage, dirs, claimed>>
scan == <<table, idNames, known, toScan, toMeasure, lines, owners>>
since == <<wasLimit, upset, moves>>
reportVars == <<fs, client, projid, projects, limit, usage, dirs, claimed, report, table,
                idNames, known, toScan, toMeasure, lines, owners, wasLimit, upset, moves>>

Page == {"quotas", "status"}
PathOf(v) == Volume[v].path
IDLine(v)   == Line(Volume[v].name, Volume[v].id)
PathLine(v) == Line(Volume[v].id, PathOf(v))

Visible(p) == p \in dirs \ Hidden
Tops == {p \in dirs : Parent[p] = NoDir /\ Visible(p)}
Subs(p) == {q \in dirs : Parent[q] = p /\ Visible(q)}

NoOwners == [p \in {} |-> p]

\* Some of the volumes have their project, and some of the changes are not to come
ReportInit ==
    /\ fs \in {"xfs", "ext4", "other"} /\ client \in BOOLEAN
    /\ \E made \in SUBSET Vol :
          /\ projid = {IDLine(v) : v \in made} /\ projects = {PathLine(v) : v \in made}
          /\ limit \in [ID -> Limit]
          /\ claimed \in SUBSET made
    /\ usage \in [Path -> Use]
    /\ dirs = Path
    /\ report = [page |-> "quotas", pc |-> "idle"]
    /\ table = {} /\ idNames = {} /\ known = {} /\ toScan = {} /\ toMeasure = {}
    /\ lines = {} /\ owners = NoOwners
    /\ wasLimit = [i \in ID |-> {limit[i]}]
    /\ upset = "none" /\ moves \in 0..MaxMoves

-----------------------------------------------------------------------------
(***************************************************************************)
(* The agent, its removals, the cluster and its pods.                      *)
(***************************************************************************)
Move ==
    /\ report.pc \notin {"idle", "answered", "error"}
    /\ moves < MaxMoves /\ moves' = moves + 1
    /\ upset' = IF upset = "failed" THEN "failed" ELSE "changed"
    /\ UNCHANGED <<fs, client, report, scan>>

Toggle(set, x) == IF x \in set THEN set \ {x} ELSE set \cup {x}

EditsProjid(v) ==
    /\ Move /\ projid' = Toggle(projid, IDLine(v))
    /\ UNCHANGED <<projects, limit, usage, dirs, claimed, wasLimit>>

EditsProjects(v) ==
    /\ Move /\ projects' = Toggle(projects, PathLine(v))
    /\ UNCHANGED <<projid, limit, usage, dirs, claimed, wasLimit>>

SetsLimit(i, l) ==
    /\ Move /\ limit' = [limit EXCEPT ![i] = l]
    /\ wasLimit' = [wasLimit EXCEPT ![i] = @ \cup {l}]
    /\ UNCHANGED <<files, usage, dirs, claimed>>

Fills(p, u) ==
    /\ Move /\ p \in dirs /\ usage' = [usage EXCEPT ![p] = u]
    /\ UNCHANGED <<files, limit, dirs, claimed, wasLimit>>

MovesDir(p) ==
    /\ Move /\ dirs' = Toggle(dirs, p)
    /\ Parent[p] # NoDir => Parent[p] \in dirs
    /\ p \in dirs => \A q \in dirs : Parent[q] # p
    /\ UNCHANGED <<files, limit, usage, claimed, wasLimit>>

Claims(v) ==
    /\ Move /\ claimed' = Toggle(claimed, v)
    /\ UNCHANGED <<files, limit, usage, dirs, wasLimit>>

World ==
    \/ \E v \in Vol : EditsProjid(v) \/ EditsProjects(v) \/ Claims(v)
    \/ \E i \in ID, l \in Limit : SetsLimit(i, l)
    \/ \E p \in Path : MovesDir(p) \/ \E u \in Use : Fills(p, u)

-----------------------------------------------------------------------------
At(pc) == report.pc = pc
GoesTo(pc) == report' = [report EXCEPT !.pc = pc]
Still == UNCHANGED <<reality, since>>
Fails == upset' = "failed" /\ UNCHANGED <<reality, wasLimit, moves>>

\* handleAPIQuotas, or one of those that only count.  Reports share nothing, so
\* that one, begun in any state of the world, stands for all.
Report(page) ==
    /\ At("idle")
    /\ report' = [page |-> page, pc |-> IF fs = "other" THEN "scan" ELSE "command"]
    /\ UNCHANGED <<reality, scan, wasLimit, upset, moves>>

\* xfs_quota report and repquota print a line per project with a limit or files,
\* under its name, or its id behind a # if it has none
KernelUse(i) ==
    LET here == {v \in Vol : Volume[v].id = i /\ PathOf(v) \in dirs}
    IN  IF here = {} THEN 0 ELSE usage[PathOf(CHOOSE v \in here : TRUE)]

Named(i) == \E l \in projid : l.val = i
LabelOf(i) == IF Named(i) THEN (CHOOSE l \in projid : l.val = i).key ELSE i

RunsCommand ==
    /\ At("command") /\ GoesTo(IF fs = "xfs" THEN "projid" ELSE "projects")
    /\ table' = {[label |-> LabelOf(i), named |-> Named(i), used |-> KernelUse(i), hard |-> limit[i]] :
                    i \in {j \in ID : limit[j] # 0 \/ KernelUse(j) # 0}}
    /\ UNCHANGED <<idNames, known, toScan, toMeasure, lines, owners>> /\ Still

\* GetDirUsages goes on without any limit
CommandFails ==
    /\ At("command") /\ GoesTo("scan")
    /\ UNCHANGED scan /\ Fails

ReadsProjid ==
    /\ At("projid") /\ GoesTo("projects")
    /\ idNames' = projid
    /\ UNCHANGED <<table, known, toScan, toMeasure, lines, owners>> /\ Still

\* A file that cannot be read counts as empty
ProjidFails ==
    /\ At("projid") /\ GoesTo("projects")
    /\ UNCHANGED scan /\ Fails

\* Of GetXFSQuotaReport: by name, or else by id
PathsXFS(row) ==
    LET byName == {l.val : l \in {m \in projects :
                     \E k \in idNames : k.key = row.label /\ k.val = m.key}}
        byID == {l.val : l \in {m \in projects : m.key = row.label}}
    IN  IF byName # {} THEN byName ELSE byID

\* Of GetExt4QuotaReport: by id, in lines that do not begin with a #
PathsExt4(row) == {l.val : l \in {m \in projects : row.named /\ m.key = row.label}}

\* Mutant: a line of nobody goes to the path of the line before
PathsOrSome(row) ==
    LET own == IF fs = "xfs" THEN PathsXFS(row) ELSE PathsExt4(row)
    IN  IF own = {} THEN {l.val : l \in projects} ELSE own

PathsOfRow(row) == IF fs = "xfs" THEN PathsXFS(row) ELSE PathsExt4(row)

ReadsProjects ==
    /\ At("projects") /\ GoesTo("scan")
    /\ known' = UNION {{[path |-> p, used |-> row.used, hard |-> row.hard] : p \in PathsOfRow(row)} :
                          row \in table}
    /\ table' = {} /\ idNames' = {}
    /\ UNCHANGED <<toScan, toMeasure, lines, owners>> /\ Still

ProjectsFail ==
    /\ At("projects") /\ GoesTo("scan")
    /\ table' = {} /\ idNames' = {}
    /\ UNCHANGED <<known, toScan, toMeasure, lines, owners>> /\ Fails

\* The top level, on top of what the command knows limits of
ReadsBase ==
    /\ At("scan") /\ GoesTo("measure")
    /\ toScan' = Tops
    /\ toMeasure' = {k.path : k \in {l \in known : l.hard > 0}}
    /\ UNCHANGED <<table, idNames, known, lines, owners>> /\ Still

\* Reported as an error, except by the status page, which shows no directory
BaseFails ==
    /\ At("scan") /\ GoesTo(IF report.page = "status" THEN "answered" ELSE "error")
    /\ UNCHANGED scan /\ Fails

\* Mutant: a namespace's directory is reported next to those in it
LooksIntoBoth(p) ==
    /\ At("measure") /\ p \in toScan
    /\ toScan' = toScan \ {p}
    /\ toMeasure' = toMeasure \cup Subs(p) \cup {p}
    /\ UNCHANGED <<report, table, idNames, known, lines, owners>> /\ Still

\* The visible directories one level down, or if there are none, p itself
LooksInto(p) ==
    /\ At("measure") /\ p \in toScan
    /\ toScan' = toScan \ {p}
    /\ toMeasure' = toMeasure \cup (IF Subs(p) = {} THEN {p} ELSE Subs(p))
    /\ UNCHANGED <<report, table, idNames, known, lines, owners>> /\ Still

LookFails(p) ==
    /\ At("measure") /\ p \in toScan
    /\ toScan' = toScan \ {p} /\ toMeasure' = toMeasure \cup {p}
    /\ UNCHANGED <<report, table, idNames, known, lines, owners>> /\ Fails

\* At least 100% and at least 90% of the limit
StatusOf(used, quota) ==
    IF quota = 0 THEN "no_quota"
    ELSE IF used >= quota THEN "exceeded"
    ELSE IF 10 * used >= 9 * quota THEN "warning" ELSE "ok"

KnownOf(p) == CHOOSE k \in known : k.path = p

\* A directory's line: used comes from the kernel if it knows it, else from a walk
LineOf(p) ==
    LET mine  == \E k \in known : k.path = p
        used  == IF mine THEN KnownOf(p).used ELSE usage[p]
        quota == IF mine THEN KnownOf(p).hard ELSE 0
    IN  [path |-> p, used |-> used, quota |-> quota, status |-> StatusOf(used, quota)]

\* Mutant: a directory that is gone ends the loop
MeasuresOrReturns(p) ==
    /\ At("measure") /\ toScan = {} /\ p \in toMeasure
    /\ toMeasure' = toMeasure \ {p}
    /\ lines' = IF p \in dirs THEN lines \cup {LineOf(p)} ELSE lines
    /\ IF p \in dirs THEN UNCHANGED report ELSE GoesTo("answered")
    /\ UNCHANGED <<table, idNames, known, toScan, owners>> /\ Still

\* Directories that are gone by now are passed over
Measures(p) ==
    /\ At("measure") /\ toScan = {} /\ p \in toMeasure
    /\ toMeasure' = toMeasure \ {p}
    /\ lines' = IF p \in dirs THEN lines \cup {LineOf(p)} ELSE lines
    /\ UNCHANGED <<report, table, idNames, known, toScan, owners>> /\ Still

Measured ==
    /\ At("measure") /\ toScan = {} /\ toMeasure = {}
    /\ GoesTo(IF report.page = "quotas" THEN "owners" ELSE "answered")
    /\ known' = {}
    /\ UNCHANGED <<table, idNames, toScan, toMeasure, lines, owners>> /\ Still

\* Mutant: volumes without a limit are left out
ListsLimitedOwners ==
    /\ At("owners") /\ GoesTo("answered")
    /\ LET at == IF client THEN {Volume[v].uiPath : v \in claimed} \ {NoDir} ELSE {}
       IN  /\ owners' \in [{p \in at : \E v \in claimed : Volume[v].uiPath = p /\ limit[Volume[v].id] # 0}
                             -> claimed]
           /\ \A p \in DOMAIN owners' : Volume[owners'[p]].uiPath = p
    /\ UNCHANGED <<table, idNames, known, toScan, toMeasure, lines>> /\ Still

\* getPVInfoMap: of the volumes it takes for one path, the last of the list counts;
\* without a client there are none
ListsOwners ==
    /\ At("owners") /\ GoesTo("answered")
    /\ LET at == IF client THEN {Volume[v].uiPath : v \in claimed} \ {NoDir} ELSE {}
       IN  /\ owners' \in [at -> claimed]
           /\ \A p \in at : Volume[owners'[p]].uiPath = p
    /\ UNCHANGED <<table, idNames, known, toScan, toMeasure, lines>> /\ Still

\* Logged, and every directory is shown as orphaned
OwnersFail ==
    /\ At("owners") /\ client /\ GoesTo("answered")
    /\ UNCHANGED scan /\ Fails

Reporting ==
    \/ \E page \in Page : Report(page)
    \/ RunsCommand \/ CommandFails \/ ReadsProjid \/ ProjidFails
    \/ ReadsProjects \/ ProjectsFail \/ ReadsBase \/ BaseFails
    \/ \E p \in Path : LooksInto(p) \/ LookFails(p) \/ Measures(p)
    \/ Measured \/ ListsOwners \/ OwnersFail

ReportNext == World \/ Reporting

ReportSpec == ReportInit /\ [][ReportNext]_reportVars

-----------------------------------------------------------------------------
Row     == [label : Name \cup ID, named : BOOLEAN, used : Nat, hard : Nat]
Known   == [path : Path, used : Nat, hard : Nat]
DirLine == [path : Path, used : Nat, quota : Nat,
            status : {"no_quota", "ok", "warning", "exceeded"}]

\* Every variable has its type; a report has a table and names only until it has
\* made its maps of them, directories to do only while it measures, and those it
\* reports carry the status of their numbers.
ReportTypeOK ==
    /\ fs \in {"xfs", "ext4", "other"} /\ client \in BOOLEAN
    /\ projid \subseteq ProjidLine /\ projects \subseteq ProjectsLine
    /\ limit \in [ID -> Nat] /\ usage \in [Path -> Nat]
    /\ dirs \subseteq Path /\ claimed \subseteq Vol
    /\ report \in [page : Page, pc : {"idle", "command", "projid", "projects", "scan",
                                      "measure", "owners", "answered", "error"}]
    /\ table \subseteq Row /\ idNames \subseteq ProjidLine /\ known \subseteq Known
    /\ toScan \subseteq Path /\ toMeasure \subseteq Path
    /\ lines \subseteq DirLine
    /\ DOMAIN owners \subseteq Path /\ owners \in [DOMAIN owners -> Vol]
    /\ wasLimit \in [ID -> SUBSET Nat]
    /\ upset \in {"none", "changed", "failed"} /\ moves \in 0..MaxMoves
    /\ report.pc \notin {"projid", "projects"} => table = {} /\ idNames = {}
    /\ report.pc # "measure" => toScan = {} /\ toMeasure = {}

\* Whatever changes between the command, the two files and the scan: a limit that
\* a report shows for a directory is one that the directory's own project had
\* while the report was made.
LimitsAreOwn ==
    \A l \in lines : l.quota # 0 =>
        \E v \in Vol : PathOf(v) = l.path /\ l.quota \in wasLimit[Volume[v].id]

\* If nothing changes and nothing fails meanwhile, a report has exactly the
\* innermost visible directories and those with a limit, each once, with what it
\* holds, its limit and what follows from the two; on the quotas page each with a
\* volume whose PV the page maps to it, and as orphaned only if there is none or
\* the page has no client.  On ext4 the command's lines are not recognised, and on
\* other file systems there is none: no limit is ever shown.
Innermost(p) ==
    \/ p \in Tops /\ Subs(p) = {}
    \/ \E t \in Tops : p \in Subs(t)
LimitAt(p) ==
    IF fs = "xfs" /\ \E v \in Vol : PathOf(v) = p /\ PathLine(v) \in projects
    THEN limit[Volume[CHOOSE v \in Vol : PathOf(v) = p].id] ELSE 0
Percent(p) == (100 * usage[p]) \div LimitAt(p)
Expected == {p \in dirs : Innermost(p) \/ LimitAt(p) # 0}
PVsAt(p) == {v \in claimed : client /\ Volume[v].uiPath = p}

ReportIsExact ==
    report.pc = "answered" /\ upset = "none" =>
        /\ {l.path : l \in lines} = Expected
        /\ \A l \in lines :
              /\ l.used = usage[l.path] /\ l.quota = LimitAt(l.path)
              /\ l.status = IF LimitAt(l.path) = 0 THEN "no_quota"
                            ELSE IF Percent(l.path) >= 100 THEN "exceeded"
                            ELSE IF Percent(l.path) >= 90 THEN "warning" ELSE "ok"
              /\ report.page = "quotas" =>
                    IF l.path \in DOMAIN owners THEN owners[l.path] \in PVsAt(l.path)
                                                ELSE PVsAt(l.path) = {}
=============================================================================
