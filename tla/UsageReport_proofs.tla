-------------------------- MODULE UsageReport_proofs --------------------------
(***************************************************************************)
(* What UsageReport keeps, for any volumes, directories, limits and sizes, *)
(* and any number of changes during a report.                              *)
(***************************************************************************)
EXTENDS UsageReport, TLAPS

\* A project name stands for one id, and is never taken for one
NamesAreOwn ==
    /\ Name \cap ID = {}
    /\ \A v, w \in Vol : Volume[v].name = Volume[w].name => Volume[v].id = Volume[w].id

\* No two volumes share a directory
PathsAreOwn == \A v, w \in Vol : PathOf(v) = PathOf(w) => v = w

ReportPC == {"idle", "command", "projid", "projects", "scan", "measure", "owners",
             "answered", "error"}

-----------------------------------------------------------------------------
(***************************************************************************)
(* Types, in two parts: the world and its history, and the report.         *)
(***************************************************************************)
WorldTyped ==
    /\ fs \in {"xfs", "ext4", "other"} /\ client \in BOOLEAN
    /\ projid \subseteq ProjidLine /\ projects \subseteq ProjectsLine
    /\ limit \in [ID -> Nat] /\ usage \in [Path -> Nat]
    /\ dirs \subseteq Path /\ claimed \subseteq Vol
    /\ wasLimit \in [ID -> SUBSET Nat]
    /\ upset \in {"none", "changed", "failed"} /\ moves \in 0..MaxMoves

ScanTyped ==
    /\ report \in [page : Page, pc : ReportPC]
    /\ table \subseteq Row /\ idNames \subseteq ProjidLine /\ known \subseteq Known
    /\ toScan \subseteq Path /\ toMeasure \subseteq Path
    /\ lines \subseteq DirLine
    /\ DOMAIN owners \subseteq Path /\ owners \in [DOMAIN owners -> Vol]
    /\ report.pc \notin {"projid", "projects"} => table = {} /\ idNames = {}
    /\ report.pc # "measure" => toScan = {} /\ toMeasure = {}

LEMMA TypeParts == ReportTypeOK <=> WorldTyped /\ ScanTyped
  BY DEF ReportTypeOK, WorldTyped, ScanTyped, ReportPC

LEMMA NextTypeParts == ReportTypeOK' <=> WorldTyped' /\ ScanTyped'
  BY DEF ReportTypeOK, WorldTyped, ScanTyped, ReportPC

LEMMA LinesTyped ==
    \A v \in Vol : /\ IDLine(v) \in ProjidLine /\ PathLine(v) \in ProjectsLine
                   /\ PathOf(v) \in Path /\ Volume[v].uiPath \in Path \cup {NoDir} /\ Volume[v].id \in ID /\ Volume[v].name \in Name
  BY VolumeAssumption DEF IDLine, PathLine, PathOf, Line, ProjidLine, ProjectsLine

LEMMA InitTypes == ReportInit => ReportTypeOK
<1> SUFFICES ASSUME ReportInit PROVE ReportTypeOK
  OBVIOUS
<1>1. /\ limit \in [ID -> Nat] /\ usage \in [Path -> Nat] /\ claimed \subseteq Vol
      /\ projid \subseteq ProjidLine /\ projects \subseteq ProjectsLine
  BY SizeAssumption, LinesTyped DEF ReportInit
<1>2. wasLimit \in [ID -> SUBSET Nat] /\ moves \in 0..MaxMoves
  BY <1>1, MovesAssumption DEF ReportInit
<1>3. WorldTyped
  BY <1>1, <1>2 DEF ReportInit, WorldTyped
<1>4. ScanTyped
  BY DEF ReportInit, ScanTyped, NoOwners, Page, ReportPC
<1> QED BY <1>3, <1>4, TypeParts

-----------------------------------------------------------------------------
\* The world moves while a report runs, and leaves the report alone
LEMMA WorldTypes ==
    ASSUME WorldTyped, World
    PROVE  WorldTyped' /\ UNCHANGED <<fs, client, report, scan>>
<1>1. /\ moves' \in 0..MaxMoves /\ upset' \in {"none", "changed", "failed"}
      /\ UNCHANGED <<fs, client, report, scan>>
  BY MovesAssumption DEF WorldTyped, World, EditsProjid, EditsProjects, SetsLimit, Fills, MovesDir, Claims, Move
<1>2. ASSUME NEW v \in Vol, EditsProjid(v) \/ EditsProjects(v) \/ Claims(v) PROVE WorldTyped'
  BY <1>1, <1>2, LinesTyped DEF WorldTyped, EditsProjid, EditsProjects, Claims, Toggle, files
<1>3. ASSUME NEW i \in ID, NEW l \in Limit, SetsLimit(i, l) PROVE WorldTyped'
  <2>1. l \in Nat
    BY SizeAssumption
  <2> QED BY <1>1, <1>3, <2>1 DEF WorldTyped, SetsLimit, files
<1>4. ASSUME NEW p \in Path, MovesDir(p) PROVE WorldTyped'
  BY <1>1, <1>4 DEF WorldTyped, MovesDir, Toggle, files
<1>5. ASSUME NEW p \in Path, NEW u \in Use, Fills(p, u) PROVE WorldTyped'
  <2>1. u \in Nat
    BY SizeAssumption
  <2> QED BY <1>1, <1>5, <2>1 DEF WorldTyped, Fills, files
<1> QED BY <1>1, <1>2, <1>3, <1>4, <1>5 DEF World

\* A report only ever notes what fails
LEMMA ReportingWorld ==
    ASSUME WorldTyped, Reporting
    PROVE  /\ WorldTyped' /\ UNCHANGED <<reality, wasLimit, moves>>
           /\ upset' = upset \/ upset' = "failed"
<1>1. /\ UNCHANGED <<reality, wasLimit, moves>>
      /\ upset' = upset \/ upset' = "failed"
  BY DEF Reporting, Report, RunsCommand, CommandFails, ReadsProjid, ProjidFails, ReadsProjects,
     ProjectsFail, ReadsBase, BaseFails, LooksInto, LookFails, Measures, Measured, ListsOwners,
     OwnersFail, Still, Fails, since, At
<1> QED BY <1>1 DEF WorldTyped, reality, files

-----------------------------------------------------------------------------
\* What a report makes of the command's output
LEMMA TableTypes ==
    ASSUME ReportTypeOK, RunsCommand
    PROVE  table' \subseteq Row
<1>1. ASSUME NEW i \in ID PROVE KernelUse(i) \in Nat
  <2> DEFINE here == {v \in Vol : Volume[v].id = i /\ PathOf(v) \in dirs}
  <2>1. CASE here = {}
    BY <2>1 DEF KernelUse
  <2>2. CASE here # {}
    <3>1. PathOf(CHOOSE v \in here : TRUE) \in Path
      BY <2>2, LinesTyped
    <3> QED BY <2>2, <3>1 DEF KernelUse, ReportTypeOK
  <2> QED BY <2>1, <2>2
<1>2. ASSUME NEW i \in ID PROVE LabelOf(i) \in Name \cup ID
  BY DEF LabelOf, Named, ReportTypeOK, ProjidLine, Line
<1>3. ASSUME NEW i \in ID
      PROVE  [label |-> LabelOf(i), named |-> Named(i), used |-> KernelUse(i), hard |-> limit[i]] \in Row
  <2>1. Named(i) \in BOOLEAN
    BY DEF Named
  <2> QED BY <1>1, <1>2, <2>1 DEF Row, ReportTypeOK
<1> QED BY <1>3 DEF RunsCommand

LEMMA KnownTypes ==
    ASSUME ReportTypeOK, ReadsProjects
    PROVE  known' \subseteq Known
<1>1. \A row \in table : PathsOfRow(row) \subseteq Path
  BY DEF PathsOfRow, PathsXFS, PathsExt4, ReportTypeOK, ProjectsLine, Line
<1>2. \A row \in table : row.used \in Nat /\ row.hard \in Nat
  BY DEF ReportTypeOK, Row
<1> QED BY <1>1, <1>2 DEF ReadsProjects, Known

LEMMA LineTypes ==
    ASSUME ReportTypeOK, NEW p \in Path
    PROVE  LineOf(p) \in DirLine /\ LineOf(p).path = p
<1>1. (\E k \in known : k.path = p) => KnownOf(p) \in Known
  BY DEF KnownOf, ReportTypeOK
<1>2. \A u, q \in Nat : StatusOf(u, q) \in {"no_quota", "ok", "warning", "exceeded"}
  BY DEF StatusOf
<1>3. PICK u \in Nat, q \in Nat :
         LineOf(p) = [path |-> p, used |-> u, quota |-> q, status |-> StatusOf(u, q)]
  BY <1>1 DEF LineOf, Known, ReportTypeOK
<1> QED BY <1>2, <1>3 DEF DirLine

\* Each step of a report keeps its types
LEMMA ReportingTypes ==
    ASSUME ReportTypeOK, Reporting
    PROVE  ScanTyped'
<1>0. ScanTyped /\ WorldTyped
  BY TypeParts
<1>1. ASSUME NEW page \in Page, Report(page) PROVE ScanTyped'
  BY <1>0, <1>1 DEF Report, At, ScanTyped, scan, ReportPC
<1>2. CASE RunsCommand
  BY <1>0, <1>2, TableTypes DEF RunsCommand, At, GoesTo, ScanTyped, ReportPC
<1>3. CASE CommandFails \/ ProjidFails \/ BaseFails \/ OwnersFail
  BY <1>0, <1>3 DEF CommandFails, ProjidFails, BaseFails, OwnersFail, At, GoesTo, ScanTyped, scan,
     ReportPC
<1>4. CASE ReadsProjid
  BY <1>0, <1>4 DEF ReadsProjid, At, GoesTo, ScanTyped, WorldTyped, ReportPC
<1>5. CASE ReadsProjects \/ ProjectsFail
  BY <1>0, <1>5, KnownTypes DEF ReadsProjects, ProjectsFail, At, GoesTo, ScanTyped, ReportPC
<1>6. CASE ReadsBase
  <2>1. Tops \subseteq Path /\ {k.path : k \in {l \in known : l.hard > 0}} \subseteq Path
    BY <1>0 DEF Tops, ScanTyped, WorldTyped, Known
  <2> QED BY <1>0, <1>6, <2>1 DEF ReadsBase, At, GoesTo, ScanTyped, ReportPC
<1>7. ASSUME NEW p \in Path, LooksInto(p) \/ LookFails(p) PROVE ScanTyped'
  <2>1. Subs(p) \subseteq Path
    BY <1>0 DEF Subs, WorldTyped
  <2> QED BY <1>0, <1>7, <2>1 DEF LooksInto, LookFails, At, ScanTyped
<1>8. ASSUME NEW p \in Path, Measures(p) PROVE ScanTyped'
  BY <1>0, <1>8, LineTypes DEF Measures, At, ScanTyped
<1>9. CASE Measured
  BY <1>0, <1>9 DEF Measured, At, GoesTo, ScanTyped, ReportPC
<1>10. CASE ListsOwners
  <2>1. PICK at : at \subseteq Path /\ owners' \in [at -> claimed]
    <3>1. {Volume[v].uiPath : v \in claimed} \ {NoDir} \subseteq Path
      BY <1>0, LinesTyped DEF WorldTyped
    <3> QED BY <1>10, <3>1 DEF ListsOwners
  <2>2. DOMAIN owners' \subseteq Path /\ owners' \in [DOMAIN owners' -> Vol]
    BY <1>0, <2>1 DEF WorldTyped
  <2> QED BY <1>0, <1>10, <2>2 DEF ListsOwners, At, GoesTo, ScanTyped, ReportPC
<1> QED BY <1>1, <1>2, <1>3, <1>4, <1>5, <1>6, <1>7, <1>8, <1>9, <1>10 DEF Reporting

LEMMA NextTypes == ReportTypeOK /\ [ReportNext]_reportVars => ReportTypeOK'
<1> SUFFICES ASSUME ReportTypeOK, [ReportNext]_reportVars PROVE ReportTypeOK'
  OBVIOUS
<1>1. CASE World
  <2>1. WorldTyped' /\ UNCHANGED <<report, scan>>
    BY <1>1, WorldTypes, TypeParts
  <2>2. ScanTyped'
    BY <2>1, TypeParts DEF ScanTyped, scan
  <2> QED BY <2>1, <2>2, NextTypeParts
<1>2. CASE Reporting
  BY <1>2, ReportingWorld, ReportingTypes, TypeParts, NextTypeParts
<1>3. CASE UNCHANGED reportVars
  BY <1>3 DEF reportVars, ReportTypeOK
<1> QED BY <1>1, <1>2, <1>3 DEF ReportNext
-----------------------------------------------------------------------------
(***************************************************************************)
(* Whose limits a report shows.                                            *)
(***************************************************************************)

\* A limit that the project of i has had since the report began
WasLimitOf(i, h) == h \in wasLimit[i]

\* The command's line of a project: under its name or its id
RowIsOwn(row) ==
    \E i \in ID :
        /\ WasLimitOf(i, row.hard)
        /\ IF row.named THEN \E v \in Vol : Volume[v].name = row.label /\ Volume[v].id = i
                        ELSE row.label = i

LimitIsOwn(p, h) == h # 0 => \E v \in Vol : PathOf(v) = p /\ WasLimitOf(Volume[v].id, h)

\* The files hold lines of volumes, and what was read of them too
FilesInv ==
    /\ projid \subseteq {IDLine(v) : v \in Vol} /\ idNames \subseteq {IDLine(v) : v \in Vol}
    /\ projects \subseteq {PathLine(v) : v \in Vol}

OwnInv ==
    /\ \A i \in ID : WasLimitOf(i, limit[i])
    /\ \A row \in table : RowIsOwn(row)
    /\ \A k \in known : LimitIsOwn(k.path, k.hard)
    /\ \A l \in lines : LimitIsOwn(l.path, l.quota)

LimitInv == ReportTypeOK /\ FilesInv /\ OwnInv

LEMMA InitLimitInv == ReportInit => LimitInv
<1> SUFFICES ASSUME ReportInit PROVE LimitInv
  OBVIOUS
<1>1. FilesInv
  BY DEF ReportInit, FilesInv
<1>2. OwnInv
  BY DEF ReportInit, OwnInv, WasLimitOf
<1> QED BY <1>1, <1>2, InitTypes DEF LimitInv

\* The lines stay lines of volumes
LEMMA FilesStay ==
    ASSUME FilesInv, [ReportNext]_reportVars
    PROVE  FilesInv'
<1>1. CASE World
  <2>1. /\ idNames' = idNames
        /\ projid' = projid \/ \E v \in Vol : projid' = Toggle(projid, IDLine(v))
        /\ projects' = projects \/ \E v \in Vol : projects' = Toggle(projects, PathLine(v))
    BY <1>1 DEF World, EditsProjid, EditsProjects, SetsLimit, Fills, MovesDir, Claims, Move, scan, files
  <2>2. projid' \subseteq {IDLine(v) : v \in Vol}
    BY <2>1 DEF FilesInv, Toggle
  <2>3. projects' \subseteq {PathLine(v) : v \in Vol}
    BY <2>1 DEF FilesInv, Toggle
  <2> QED BY <2>1, <2>2, <2>3 DEF FilesInv
<1>2. CASE Reporting
  <2>1. /\ projid' = projid /\ projects' = projects
        /\ idNames' = idNames \/ idNames' = projid \/ idNames' = {}
    BY <1>2 DEF Reporting, Report, RunsCommand, CommandFails, ReadsProjid, ProjidFails,
       ReadsProjects, ProjectsFail, ReadsBase, BaseFails, LooksInto, LookFails, Measures, Measured,
       ListsOwners, OwnersFail, Still, Fails, reality, files, scan
  <2> QED BY <2>1 DEF FilesInv
<1>3. CASE UNCHANGED reportVars
  BY <1>3 DEF reportVars, FilesInv
<1> QED BY <1>1, <1>2, <1>3 DEF ReportNext

\* The report adds nothing to what the limits were, the world adds the limits it sets
LEMMA PastStays ==
    ASSUME ReportTypeOK, OwnInv, [ReportNext]_reportVars
    PROVE  /\ \A i \in ID : wasLimit[i] \subseteq wasLimit'[i]
           /\ \A i \in ID : WasLimitOf(i, limit[i])'
<1>0. limit \in [ID -> Nat] /\ wasLimit \in [ID -> SUBSET Nat]
  BY DEF ReportTypeOK
<1>1. ASSUME NEW i \in ID, NEW l \in Limit, SetsLimit(i, l)
      PROVE  /\ \A j \in ID : wasLimit[j] \subseteq wasLimit'[j]
             /\ \A j \in ID : limit'[j] \in wasLimit'[j]
  BY <1>0, <1>1 DEF SetsLimit, OwnInv, WasLimitOf
<1>2. CASE UNCHANGED <<limit, wasLimit>>
  BY <1>2 DEF OwnInv, WasLimitOf
<1>3. UNCHANGED <<limit, wasLimit>> \/ \E i \in ID, l \in Limit : SetsLimit(i, l)
  <2>1. World => UNCHANGED <<limit, wasLimit>> \/ \E i \in ID, l \in Limit : SetsLimit(i, l)
    BY DEF World, EditsProjid, EditsProjects, Fills, MovesDir, Claims
  <2>2. Reporting => UNCHANGED <<limit, wasLimit>>
    BY TypeParts, ReportingWorld DEF reality
  <2> QED BY <2>1, <2>2 DEF ReportNext, reportVars
<1> QED BY <1>1, <1>2, <1>3 DEF WasLimitOf

\* What was a project's own limit stays one
LEMMA OwnStays ==
    ASSUME \A i \in ID : wasLimit[i] \subseteq wasLimit'[i]
    PROVE  /\ \A row : RowIsOwn(row) => RowIsOwn(row)'
           /\ \A p, h : LimitIsOwn(p, h) => LimitIsOwn(p, h)'
<1>1. \A i \in ID : \A h : WasLimitOf(i, h) => WasLimitOf(i, h)'
  BY DEF WasLimitOf
<1>2. ASSUME NEW row, RowIsOwn(row) PROVE RowIsOwn(row)'
  BY <1>1, <1>2 DEF RowIsOwn
<1>3. ASSUME NEW p, NEW h, LimitIsOwn(p, h) PROVE LimitIsOwn(p, h)'
  BY <1>1, <1>3, LinesTyped DEF LimitIsOwn
<1> QED BY <1>2, <1>3

\* The command prints each project's limit under that project's label
LEMMA TableIsOwn ==
    ASSUME LimitInv, RunsCommand
    PROVE  \A row \in table' : RowIsOwn(row)
<1> SUFFICES ASSUME NEW row \in table' PROVE RowIsOwn(row)
  OBVIOUS
<1>1. PICK i \in ID : row = [label |-> LabelOf(i), named |-> Named(i),
                             used |-> KernelUse(i), hard |-> limit[i]]
  BY DEF RunsCommand
<1>2. row.label = LabelOf(i) /\ row.named = Named(i) /\ row.hard = limit[i]
  BY <1>1
<1>3. WasLimitOf(i, row.hard)
  BY <1>2 DEF LimitInv, OwnInv
<1>4. CASE Named(i)
  <2>1. \E l \in projid : l.val = i
    BY <1>4 DEF Named
  <2>2. PICK l \in projid : l.val = i /\ LabelOf(i) = l.key
    BY <1>4, <2>1 DEF LabelOf
  <2>3. PICK v \in Vol : l = IDLine(v)
    BY <2>2 DEF LimitInv, FilesInv
  <2>4. Volume[v].name = row.label /\ Volume[v].id = i
    BY <1>2, <2>2, <2>3 DEF IDLine, Line
  <2> QED BY <1>2, <1>3, <1>4, <2>4 DEF RowIsOwn
<1>5. CASE ~Named(i)
  BY <1>2, <1>3, <1>5 DEF RowIsOwn, LabelOf
<1> QED BY <1>4, <1>5

\* A path that is found for a line is one of the project the line is of
LEMMA PathsAreOfRow ==
    ASSUME NamesAreOwn, LimitInv, NEW row \in table, NEW p \in PathsOfRow(row)
    PROVE  LimitIsOwn(p, row.hard)
<1>1. /\ row \in Row /\ RowIsOwn(row)
      /\ \A l \in projects : \E v \in Vol : l.key = Volume[v].id /\ l.val = PathOf(v)
      /\ \A k \in idNames : \E v \in Vol : k.key = Volume[v].name /\ k.val = Volume[v].id
  BY DEF LimitInv, FilesInv, OwnInv, ReportTypeOK, IDLine, PathLine, Line
<1>2. PICK i \in ID :
        /\ WasLimitOf(i, row.hard)
        /\ IF row.named THEN \E v \in Vol : Volume[v].name = row.label /\ Volume[v].id = i
                        ELSE row.label = i
  BY <1>1 DEF RowIsOwn
<1>3. PICK l \in projects : /\ l.val = p
                            /\ \/ \E k \in idNames : k.key = row.label /\ k.val = l.key
                               \/ l.key = row.label
  BY DEF PathsOfRow, PathsXFS, PathsExt4
<1>4. PICK v \in Vol : l.key = Volume[v].id /\ l.val = PathOf(v)
  BY <1>1
<1>5. Volume[v].id = i
  <2>1. CASE row.named
    <3>1. PICK w \in Vol : Volume[w].name = row.label /\ Volume[w].id = i
      BY <1>2, <2>1
    <3>2. row.label \notin ID
      BY <3>1, LinesTyped DEF NamesAreOwn
    <3>3. \E u \in Vol : Volume[u].name = row.label /\ Volume[u].id = Volume[v].id
      BY <1>1, <1>3, <1>4, <3>2, LinesTyped
    <3> QED BY <3>1, <3>3 DEF NamesAreOwn
  <2>2. CASE ~row.named
    <3>1. row.label = i /\ i \notin Name
      BY <1>2, <2>2 DEF NamesAreOwn
    <3>2. ~ \E k \in idNames : k.key = row.label
      BY <1>1, <3>1, LinesTyped
    <3> QED BY <1>3, <1>4, <3>1, <3>2
  <2> QED BY <2>1, <2>2
<1> QED BY <1>2, <1>3, <1>4, <1>5 DEF LimitIsOwn

\* A directory's line shows what the maps have of it
LEMMA LineIsOwn ==
    ASSUME LimitInv, NEW p \in Path
    PROVE  LimitIsOwn(p, LineOf(p).quota)
<1>1. CASE \E k \in known : k.path = p
  <2>1. PICK k \in known : k = KnownOf(p) /\ k.path = p
    BY <1>1 DEF KnownOf
  <2>2. LineOf(p).quota = k.hard
    BY <1>1, <2>1 DEF LineOf
  <2> QED BY <2>1, <2>2 DEF LimitInv, OwnInv
<1>2. CASE ~ \E k \in known : k.path = p
  BY <1>2 DEF LineOf, LimitIsOwn
<1> QED BY <1>1, <1>2

LEMMA NextLimitInv ==
    ASSUME NamesAreOwn PROVE LimitInv /\ [ReportNext]_reportVars => LimitInv'
<1> SUFFICES ASSUME LimitInv, [ReportNext]_reportVars PROVE LimitInv'
  OBVIOUS
<1>1. ReportTypeOK' /\ FilesInv'
  BY NextTypes, FilesStay DEF LimitInv
<1>2. /\ \A i \in ID : WasLimitOf(i, limit[i])'
      /\ \A row : RowIsOwn(row) => RowIsOwn(row)'
      /\ \A p, h : LimitIsOwn(p, h) => LimitIsOwn(p, h)'
  BY PastStays, OwnStays DEF LimitInv
<1>3. \A row \in table' : RowIsOwn(row)
  <2>1. RunsCommand \/ table' = table \/ table' = {}
    BY DEF ReportNext, World, EditsProjid, EditsProjects, SetsLimit, Fills, MovesDir, Claims, Move,
       Reporting, Report, CommandFails, ReadsProjid, ProjidFails, ReadsProjects, ProjectsFail,
       ReadsBase, BaseFails, LooksInto, LookFails, Measures, Measured, ListsOwners, OwnersFail,
       scan, reportVars
  <2> QED BY <2>1, TableIsOwn DEF LimitInv, OwnInv
<1>4. \A k \in known' : LimitIsOwn(k.path, k.hard)
  <2>1. ReadsProjects \/ known' = known \/ known' = {}
    BY DEF ReportNext, World, EditsProjid, EditsProjects, SetsLimit, Fills, MovesDir, Claims, Move,
       Reporting, Report, RunsCommand, CommandFails, ReadsProjid, ProjidFails, ProjectsFail,
       ReadsBase, BaseFails, LooksInto, LookFails, Measures, Measured, ListsOwners, OwnersFail,
       scan, reportVars
  <2>2. ASSUME ReadsProjects, NEW k \in known' PROVE LimitIsOwn(k.path, k.hard)
    <3>1. PICK row \in table : \E p \in PathsOfRow(row) :
                 k = [path |-> p, used |-> row.used, hard |-> row.hard]
      BY <2>2 DEF ReadsProjects
    <3> QED BY <3>1, PathsAreOfRow
  <2> QED BY <2>1, <2>2 DEF LimitInv, OwnInv
<1>5. \A l \in lines' : LimitIsOwn(l.path, l.quota)
  <2>1. lines' \subseteq lines \cup {LineOf(p) : p \in Path}
    BY DEF ReportNext, World, EditsProjid, EditsProjects, SetsLimit, Fills, MovesDir, Claims, Move,
       Reporting, Report, RunsCommand, CommandFails, ReadsProjid, ProjidFails, ReadsProjects,
       ProjectsFail, ReadsBase, BaseFails, LooksInto, LookFails, Measures, Measured, ListsOwners,
       OwnersFail, scan, reportVars
  <2>2. \A p \in Path : LineOf(p).path = p
    BY LineTypes DEF LimitInv
  <2> QED BY <2>1, <2>2, LineIsOwn DEF LimitInv, OwnInv
<1> QED BY <1>1, <1>2, <1>3, <1>4, <1>5 DEF LimitInv, OwnInv

-----------------------------------------------------------------------------
\* The variables of a report keep their types, and hold nothing beyond their step.
THEOREM ReportTypeCorrect == ReportSpec => []ReportTypeOK
  BY InitTypes, NextTypes, PTL DEF ReportSpec

(***************************************************************************)
(* Where names stand for ids, no directory is shown with the limit of      *)
(* another project, or with one from before the report.                    *)
(***************************************************************************)
THEOREM LimitsAreTheirOwn == ASSUME NamesAreOwn PROVE ReportSpec => []LimitsAreOwn
<1>1. LimitInv => LimitsAreOwn
  BY DEF LimitInv, OwnInv, LimitIsOwn, WasLimitOf, LimitsAreOwn
<1> QED BY <1>1, InitLimitInv, NextLimitInv, PTL DEF ReportSpec

-----------------------------------------------------------------------------
(***************************************************************************)
(* A report during which nothing changes and nothing fails.                *)
(***************************************************************************)

\* No two volumes share an id
IdsAreOwn == \A v, w \in Vol : Volume[v].id = Volume[w].id => v = w

\* What the command prints and what the files make of it, as the world stands
TableNow ==
    {[label |-> LabelOf(i), named |-> Named(i), used |-> KernelUse(i), hard |-> limit[i]] :
        i \in {j \in ID : limit[j] # 0 \/ KernelUse(j) # 0}}

\* The volumes whose project has a path, and a limit or files, where that is found out
Counted ==
    {v \in Vol : fs = "xfs" /\ PathLine(v) \in projects
                 /\ (limit[Volume[v].id] # 0 \/ KernelUse(Volume[v].id) # 0)}
KnownNow ==
    {[path |-> PathOf(v), used |-> KernelUse(Volume[v].id), hard |-> limit[Volume[v].id]] :
        v \in Counted}

\* What LooksInto finds at and below a top-level directory
Found(t) == IF Subs(t) = {} THEN {t} ELSE Subs(t)

\* A line that says what its directory holds, its limit and what follows
LineIsRight(l) ==
    /\ l.path \in Expected
    /\ l.used = usage[l.path] /\ l.quota = LimitAt(l.path)
    /\ l.status = StatusOf(usage[l.path], LimitAt(l.path))

\* Every directory that belongs into the report is in it, to be measured, or to be found
NoneMissing ==
    \A p \in Expected :
        \/ \E l \in lines : l.path = p
        \/ p \in toMeasure
        \/ \E t \in toScan : p \in Found(t)

OwnerIsRight(p) == IF p \in DOMAIN owners THEN owners[p] \in PVsAt(p) ELSE PVsAt(p) = {}

ExactReport ==
    /\ report.pc \in {"projid", "projects"} => table = TableNow
    /\ report.pc = "projects" /\ fs = "xfs" => idNames = projid
    /\ report.pc \in {"idle", "command", "projid", "projects"} => known = {}
    /\ report.pc \in {"scan", "measure"} => known = KnownNow
    /\ report.pc \in {"idle", "command", "projid", "projects", "scan"} => lines = {}
    /\ report.pc = "measure" =>
          /\ toScan \subseteq Tops
          /\ \A p \in toMeasure \cap dirs : p \in Expected
    /\ report.pc \in {"measure", "owners", "answered"} =>
          NoneMissing /\ \A l \in lines : LineIsRight(l)
    /\ report.pc = "answered" /\ report.page = "quotas" => \A p \in Path : OwnerIsRight(p)

ExactWhenStill == upset = "none" => ExactReport

\* The percentages of the line are those of its two numbers
LEMMA PercentStatus ==
    ASSUME NEW u \in Nat, NEW q \in Nat
    PROVE  StatusOf(u, q) = IF q = 0 THEN "no_quota"
                            ELSE IF (100 * u) \div q >= 100 THEN "exceeded"
                            ELSE IF (100 * u) \div q >= 90 THEN "warning" ELSE "ok"
<1>1. CASE q = 0
  BY <1>1 DEF StatusOf
<1>2. CASE q > 0
  <2>1. /\ (100 * u) \div q >= 100 <=> u >= q
        /\ (100 * u) \div q >= 90 <=> 10 * u >= 9 * q
    BY <1>2
  <2> QED BY <1>2, <2>1 DEF StatusOf
<1> QED BY <1>1, <1>2

\* What is true of the world stays so while the world stands still
LEMMA WorldSame ==
    ASSUME UNCHANGED <<fs, projid, projects, limit, usage, dirs>>
    PROVE  /\ TableNow' = TableNow /\ KnownNow' = KnownNow /\ Tops' = Tops
           /\ \A p : Found(p)' = Found(p)
           /\ Expected' = Expected
           /\ \A l : LineIsRight(l)' <=> LineIsRight(l)
<1>1. \A p : Subs(p)' = Subs(p) /\ Found(p)' = Found(p)
  BY DEF Subs, Visible, Found
<1>2. Tops' = Tops
  BY DEF Tops, Visible
<1>3. \A p : LimitAt(p)' = LimitAt(p) /\ (Innermost(p)' <=> Innermost(p))
  BY <1>1, <1>2 DEF LimitAt, Innermost
<1>4. Expected' = Expected
  BY <1>3 DEF Expected
<1>5. \A i : KernelUse(i)' = KernelUse(i)
  BY DEF KernelUse
<1>6. \A i : (Named(i)' <=> Named(i)) /\ LabelOf(i)' = LabelOf(i)
  BY DEF LabelOf, Named
<1>7. TableNow' = TableNow
  BY <1>5 DEF TableNow, LabelOf, Named
<1>8. KnownNow' = KnownNow
  BY <1>5 DEF KnownNow, Counted
<1>9. \A l : LineIsRight(l)' <=> LineIsRight(l)
  BY <1>3, <1>4 DEF LineIsRight
<1> QED BY <1>1, <1>2, <1>4, <1>7, <1>8, <1>9

\* Whose limit a directory has, and how much the kernel counts there
LEMMA OwnProject ==
    ASSUME IdsAreOwn, PathsAreOwn, ReportTypeOK, NEW v \in Vol
    PROVE  /\ fs = "xfs" /\ PathLine(v) \in projects => LimitAt(PathOf(v)) = limit[Volume[v].id]
           /\ PathLine(v) \notin projects => LimitAt(PathOf(v)) = 0
           /\ PathOf(v) \in dirs => KernelUse(Volume[v].id) = usage[PathOf(v)]
<1>1. \A w \in Vol : PathOf(w) = PathOf(v) => w = v
  BY DEF PathsAreOwn
<1>2. (CHOOSE w \in Vol : PathOf(w) = PathOf(v)) = v
  BY <1>1
<1>3. /\ fs = "xfs" /\ PathLine(v) \in projects => LimitAt(PathOf(v)) = limit[Volume[v].id]
      /\ PathLine(v) \notin projects => LimitAt(PathOf(v)) = 0
  BY <1>1, <1>2 DEF LimitAt
<1>4. ASSUME PathOf(v) \in dirs
      PROVE  KernelUse(Volume[v].id) = usage[PathOf(v)]
  <2> DEFINE here == {w \in Vol : Volume[w].id = Volume[v].id /\ PathOf(w) \in dirs}
  <2>1. here = {v}
    BY <1>4 DEF IdsAreOwn
  <2>2. (CHOOSE w \in here : TRUE) = v
    BY <2>1
  <2> QED BY <2>1, <2>2 DEF KernelUse
<1> QED BY <1>3, <1>4

\* The paths found for the line of an id are those the projects file has for it
LEMMA PathsOfID ==
    ASSUME NamesAreOwn, LimitInv, fs = "xfs", idNames = projid, NEW i \in ID,
           NEW row, row.label = LabelOf(i)
    PROVE  PathsOfRow(row) = {PathOf(v) : v \in {w \in Vol : Volume[w].id = i /\ PathLine(w) \in projects}}
<1> DEFINE own == {PathOf(v) : v \in {w \in Vol : Volume[w].id = i /\ PathLine(w) \in projects}}
           byName == {l.val : l \in {m \in projects :
                         \E k \in idNames : k.key = row.label /\ k.val = m.key}}
           byID == {l.val : l \in {m \in projects : m.key = row.label}}
<1>1. /\ \A l \in projects : \E v \in Vol : l = PathLine(v) /\ l.key = Volume[v].id /\ l.val = PathOf(v)
      /\ \A k \in projid : \E v \in Vol : k.key = Volume[v].name /\ k.val = Volume[v].id
      /\ \A v \in Vol : PathLine(v).key = Volume[v].id /\ PathLine(v).val = PathOf(v)
  BY DEF LimitInv, FilesInv, IDLine, PathLine, Line
<1>2. PathsOfRow(row) = IF byName # {} THEN byName ELSE byID
  BY DEF PathsOfRow, PathsXFS
<1>3. own = {l.val : l \in {m \in projects : m.key = i}}
  <2>1. ASSUME NEW p \in own PROVE \E m \in projects : m.key = i /\ m.val = p
    <3>1. PICK v \in Vol : Volume[v].id = i /\ PathLine(v) \in projects /\ p = PathOf(v)
      OBVIOUS
    <3> QED BY <1>1, <3>1
  <2>2. ASSUME NEW m \in projects, m.key = i PROVE m.val \in own
    <3>1. PICK v \in Vol : m = PathLine(v) /\ m.key = Volume[v].id /\ m.val = PathOf(v)
      BY <1>1
    <3> QED BY <2>2, <3>1
  <2> HIDE DEF own
  <2> QED BY <2>1, <2>2
<1> HIDE DEF own
<1>4. CASE Named(i)
  <2>1. PICK l \in projid : l.val = i /\ row.label = l.key
    BY <1>4 DEF Named, LabelOf
  <2>2. PICK v \in Vol : l.key = Volume[v].name /\ l.val = Volume[v].id
    BY <1>1, <2>1
  <2>3. row.label \notin ID
    BY <2>1, <2>2, LinesTyped DEF NamesAreOwn
  <2>4. byID = {}
    BY <1>1, <2>3, LinesTyped
  <2>5. \A m \in projects : (\E k \in idNames : k.key = row.label /\ k.val = m.key) <=> m.key = i
    <3> TAKE m \in projects
    <3>1. ASSUME NEW k \in idNames, k.key = row.label, k.val = m.key PROVE m.key = i
      <4>1. PICK w \in Vol : k.key = Volume[w].name /\ k.val = Volume[w].id
        BY <1>1
      <4> QED BY <2>1, <2>2, <3>1, <4>1 DEF NamesAreOwn
    <3>2. ASSUME m.key = i PROVE \E k \in idNames : k.key = row.label /\ k.val = m.key
      BY <2>1, <3>2
    <3> QED BY <3>1, <3>2
  <2>6. byName = own
    BY <1>3, <2>5
  <2> QED BY <1>2, <2>4, <2>6 DEF own
<1>5. CASE ~Named(i)
  <2>1. row.label = i
    BY <1>5 DEF LabelOf
  <2>2. i \notin Name
    BY DEF NamesAreOwn
  <2>3. byName = {}
    BY <1>1, <2>1, <2>2, LinesTyped
  <2>4. byID = own
    BY <1>3, <2>1
  <2> QED BY <1>2, <2>3, <2>4 DEF own
<1> QED BY <1>4, <1>5

\* The two files tell the report whose lines the command printed
LEMMA KnownIsNow ==
    ASSUME NamesAreOwn, LimitInv, ExactReport, fs = "xfs", ReadsProjects
    PROVE  known' = KnownNow
<1>1. /\ table = TableNow /\ idNames = projid
      /\ known' = UNION {{[path |-> p, used |-> row.used, hard |-> row.hard] : p \in PathsOfRow(row)} :
                          row \in table}
  BY DEF ReadsProjects, ExactReport, At
<1> DEFINE RowOf(i) == [label |-> LabelOf(i), named |-> Named(i), used |-> KernelUse(i), hard |-> limit[i]]
<1>2. \A i \in ID : /\ RowOf(i).label = LabelOf(i) /\ RowOf(i).used = KernelUse(i)
                    /\ RowOf(i).hard = limit[i]
  OBVIOUS
<1>3. /\ \A row \in table : \E i \in ID : row = RowOf(i) /\ (limit[i] # 0 \/ KernelUse(i) # 0)
      /\ \A i \in ID : limit[i] # 0 \/ KernelUse(i) # 0 => RowOf(i) \in table
  BY <1>1 DEF TableNow
<1> HIDE DEF RowOf
<1>4. \A i \in ID : PathsOfRow(RowOf(i))
         = {PathOf(v) : v \in {w \in Vol : Volume[w].id = i /\ PathLine(w) \in projects}}
  BY <1>1, <1>2, PathsOfID
<1>5. ASSUME NEW k \in known' PROVE k \in KnownNow
  <2>1. PICK row \in table : \E p \in PathsOfRow(row) :
                 k = [path |-> p, used |-> row.used, hard |-> row.hard]
    BY <1>1
  <2>2. PICK p \in PathsOfRow(row) : k = [path |-> p, used |-> row.used, hard |-> row.hard]
    BY <2>1
  <2>3. PICK i \in ID : row = RowOf(i) /\ (limit[i] # 0 \/ KernelUse(i) # 0)
    BY <1>3
  <2>4. PICK v \in Vol : Volume[v].id = i /\ PathLine(v) \in projects /\ p = PathOf(v)
    BY <1>4, <2>2, <2>3
  <2>5. v \in Counted
    BY <2>3, <2>4 DEF Counted
  <2> QED BY <1>2, <2>2, <2>3, <2>4, <2>5 DEF KnownNow
<1>6. ASSUME NEW k \in KnownNow PROVE k \in known'
  <2>1. PICK v \in Counted : k = [path |-> PathOf(v), used |-> KernelUse(Volume[v].id),
                                  hard |-> limit[Volume[v].id]]
    BY DEF KnownNow
  <2> DEFINE i == Volume[v].id
  <2>2. /\ v \in Vol /\ PathLine(v) \in projects /\ i \in ID
        /\ limit[i] # 0 \/ KernelUse(i) # 0
    BY LinesTyped DEF Counted
  <2> HIDE DEF i
  <2>3. RowOf(i) \in table
    BY <1>3, <2>2
  <2>4. PathOf(v) \in PathsOfRow(RowOf(i))
    BY <1>4, <2>2 DEF i
  <2>5. k = [path |-> PathOf(v), used |-> RowOf(i).used, hard |-> RowOf(i).hard]
    BY <1>2, <2>1, <2>2 DEF i
  <2> QED BY <1>1, <2>3, <2>4, <2>5
<1> QED BY <1>5, <1>6

\* On other file systems they tell it of none: a name is not an id
LEMMA NothingIsKnown ==
    ASSUME NamesAreOwn, LimitInv, fs # "xfs", ReadsProjects
    PROVE  known' = {} /\ KnownNow = {}
<1>1. \A l \in projects : l.key \in ID
  BY DEF LimitInv, ReportTypeOK, ProjectsLine, Line
<1>2. ASSUME NEW row \in table PROVE PathsOfRow(row) = {}
  <2>1. row.named => row.label \in Name
    BY LinesTyped DEF LimitInv, OwnInv, RowIsOwn
  <2>2. ~ \E l \in projects : row.named /\ l.key = row.label
    BY <1>1, <2>1 DEF NamesAreOwn
  <2> QED BY <2>2 DEF PathsOfRow, PathsExt4
<1>3. known' = {}
  BY <1>2 DEF ReadsProjects
<1> QED BY <1>3 DEF KnownNow, Counted

\* A directory with a limit is known, and what is known with a limit has one
LEMMA KnownLimits ==
    ASSUME IdsAreOwn, PathsAreOwn, ReportTypeOK
    PROVE  /\ \A p : LimitAt(p) # 0 => \E k \in KnownNow : k.path = p /\ k.hard > 0
           /\ \A k \in KnownNow : k.hard > 0 => LimitAt(k.path) # 0
<1>0. limit \in [ID -> Nat]
  BY DEF ReportTypeOK
<1>1. ASSUME NEW p, LimitAt(p) # 0 PROVE \E k \in KnownNow : k.path = p /\ k.hard > 0
  <2>0. fs = "xfs"
    BY <1>1 DEF LimitAt
  <2>1. PICK v \in Vol : PathOf(v) = p /\ PathLine(v) \in projects
    BY <1>1 DEF LimitAt
  <2>2. limit[Volume[v].id] # 0 /\ limit[Volume[v].id] \in Nat
    BY <1>0, <1>1, <2>0, <2>1, OwnProject, LinesTyped
  <2>3. v \in Counted
    BY <2>0, <2>1, <2>2 DEF Counted
  <2>4. [path |-> PathOf(v), used |-> KernelUse(Volume[v].id), hard |-> limit[Volume[v].id]] \in KnownNow
    BY <2>3 DEF KnownNow
  <2> QED BY <2>1, <2>2, <2>4
<1>2. ASSUME NEW k \in KnownNow, k.hard > 0 PROVE LimitAt(k.path) # 0
  <2>1. PICK v \in Counted : k = [path |-> PathOf(v), used |-> KernelUse(Volume[v].id),
                                  hard |-> limit[Volume[v].id]]
    BY DEF KnownNow
  <2>2. /\ v \in Vol /\ fs = "xfs" /\ PathLine(v) \in projects
        /\ limit[Volume[v].id] \in Nat
    BY <1>0, LinesTyped DEF Counted
  <2>3. k.path = PathOf(v) /\ k.hard = limit[Volume[v].id]
    BY <2>1
  <2> QED BY <1>2, <2>2, <2>3, OwnProject
<1> QED BY <1>1, <1>2

\* A directory is measured as the world has it
LEMMA LineOfNow ==
    ASSUME IdsAreOwn, PathsAreOwn, ReportTypeOK, known = KnownNow, NEW p \in Expected
    PROVE  LineIsRight(LineOf(p)) /\ LineOf(p).path = p
<1>0. p \in dirs
  BY DEF Expected
<1> DEFINE used == IF \E k \in known : k.path = p THEN KnownOf(p).used ELSE usage[p]
           quota == IF \E k \in known : k.path = p THEN KnownOf(p).hard ELSE 0
<1>1. LineOf(p) = [path |-> p, used |-> used, quota |-> quota, status |-> StatusOf(used, quota)]
  BY DEF LineOf
<1>2. CASE \E k \in known : k.path = p
  <2>1. PICK k \in KnownNow : k = KnownOf(p) /\ k.path = p
    BY <1>2 DEF KnownOf
  <2>2. PICK v \in Counted : k = [path |-> PathOf(v), used |-> KernelUse(Volume[v].id),
                                  hard |-> limit[Volume[v].id]]
    BY DEF KnownNow
  <2>3. /\ v \in Vol /\ fs = "xfs" /\ PathLine(v) \in projects
        /\ p = PathOf(v) /\ k.used = KernelUse(Volume[v].id) /\ k.hard = limit[Volume[v].id]
    BY <2>1, <2>2 DEF Counted
  <2>4. k.used = usage[p] /\ k.hard = LimitAt(p)
    BY <1>0, <2>3, OwnProject
  <2> QED BY <1>2, <2>1, <2>4, <1>1 DEF LineIsRight
<1>3. CASE ~ \E k \in known : k.path = p
  <2>1. LimitAt(p) = 0
    BY <1>3, KnownLimits
  <2> QED BY <1>3, <2>1, <1>1 DEF LineIsRight
<1> QED BY <1>2, <1>3

\* What is found below a directory belongs into the report
LEMMA FoundFacts ==
    /\ \A t \in Tops : Found(t) \subseteq Expected
    /\ \A p \in Expected : LimitAt(p) # 0 \/ \E t \in Tops : p \in Found(t)
<1>1. ASSUME NEW t \in Tops, NEW p \in Found(t) PROVE p \in Expected
  <2>1. p \in dirs
    BY <1>1 DEF Tops, Found, Subs
  <2>2. Innermost(p)
    BY <1>1 DEF Found, Innermost
  <2> QED BY <2>1, <2>2 DEF Expected
<1>2. ASSUME NEW p \in Expected, LimitAt(p) = 0 PROVE \E t \in Tops : p \in Found(t)
  <2>1. Innermost(p)
    BY <1>2 DEF Expected
  <2>2. CASE p \in Tops /\ Subs(p) = {}
    BY <2>2 DEF Found
  <2>3. ASSUME NEW t \in Tops, p \in Subs(t) PROVE p \in Found(t)
    BY <2>3 DEF Found
  <2> QED BY <2>1, <2>2, <2>3 DEF Innermost
<1> QED BY <1>1, <1>2

\* Each step of a report that does not fail
LEMMA StepIsExact ==
    ASSUME NamesAreOwn, IdsAreOwn, PathsAreOwn, LimitInv, ExactReport,
           Reporting, upset' = "none", upset = "none"
    PROVE  ExactReport'
<1>0. ReportTypeOK /\ report \in [page : Page, pc : ReportPC]
  BY DEF LimitInv, ReportTypeOK, ReportPC
<1>a. UNCHANGED <<fs, projid, projects, limit, usage, dirs>>
  BY <1>0, ReportingWorld, TypeParts DEF reality, files
<1>b. /\ TableNow' = TableNow /\ KnownNow' = KnownNow /\ Tops' = Tops
      /\ \A p : Found(p)' = Found(p)
      /\ Expected' = Expected
      /\ \A l : LineIsRight(l)' <=> LineIsRight(l)
  BY <1>a, WorldSame
<1>c. UNCHANGED <<client, claimed>>
  BY <1>0, ReportingWorld, TypeParts DEF reality
<1> USE <1>0, <1>a, <1>b
<1>1. ASSUME NEW page \in Page, Report(page) PROVE ExactReport'
  <2>1. /\ report.pc = "idle" /\ UNCHANGED scan
        /\ report'.pc = "command" \/ (report'.pc = "scan" /\ fs = "other")
    BY <1>1 DEF Report, At
  <2>2. fs = "other" => KnownNow = {}
    BY DEF KnownNow, Counted
  <2> QED BY <2>1, <2>2 DEF ExactReport, scan
<1>2. CASE RunsCommand
  <2>1. /\ report.pc = "command" /\ table' = TableNow
        /\ report'.pc = IF fs = "xfs" THEN "projid" ELSE "projects"
        /\ UNCHANGED <<idNames, known, toScan, toMeasure, lines, owners>>
    BY <1>2 DEF RunsCommand, At, GoesTo, TableNow
  <2> QED BY <2>1 DEF ExactReport
<1>3. CASE CommandFails \/ ProjidFails \/ BaseFails \/ OwnersFail \/ ProjectsFail
  BY <1>3 DEF CommandFails, ProjidFails, BaseFails, OwnersFail, ProjectsFail, Fails
<1>4. CASE ReadsProjid
  <2>1. /\ report.pc = "projid" /\ report'.pc = "projects" /\ idNames' = projid
        /\ UNCHANGED <<table, known, toScan, toMeasure, lines, owners>>
    BY <1>4 DEF ReadsProjid, At, GoesTo
  <2> QED BY <2>1 DEF ExactReport
<1>5. CASE ReadsProjects
  <2>1. /\ report.pc = "projects" /\ report'.pc = "scan"
        /\ UNCHANGED <<toScan, toMeasure, lines, owners>>
    BY <1>5 DEF ReadsProjects, At, GoesTo
  <2>2. known' = KnownNow
    BY <1>5, KnownIsNow, NothingIsKnown
  <2> QED BY <2>1, <2>2 DEF ExactReport
<1>6. CASE ReadsBase
  <2>1. /\ report.pc = "scan" /\ report'.pc = "measure" /\ toScan' = Tops
        /\ toMeasure' = {k.path : k \in {l \in known : l.hard > 0}}
        /\ UNCHANGED <<table, idNames, known, lines, owners>>
    BY <1>6 DEF ReadsBase, At, GoesTo
  <2>2. known = KnownNow /\ lines = {}
    BY <2>1 DEF ExactReport
  <2>3. ASSUME NEW p \in toMeasure' \cap dirs PROVE p \in Expected
    <3>1. LimitAt(p) # 0
      BY <2>1, <2>2, <2>3, KnownLimits
    <3> QED BY <2>3, <3>1 DEF Expected
  <2>4. ASSUME NEW p \in Expected PROVE p \in toMeasure' \/ \E t \in toScan' : p \in Found(t)
    <3>1. CASE LimitAt(p) # 0
      BY <2>1, <2>2, <3>1, KnownLimits
    <3>2. CASE LimitAt(p) = 0
      BY <2>1, <3>2, FoundFacts
    <3> QED BY <3>1, <3>2
  <2>5. NoneMissing'
    BY <2>4 DEF NoneMissing
  <2> QED BY <2>1, <2>2, <2>3, <2>5 DEF ExactReport
<1>7. ASSUME NEW p \in Path, LooksInto(p) PROVE ExactReport'
  <2>1. /\ report.pc = "measure" /\ report' = report /\ p \in toScan /\ toScan' = toScan \ {p}
        /\ toMeasure' = toMeasure \cup Found(p)
        /\ UNCHANGED <<table, idNames, known, lines, owners>>
    BY <1>7 DEF LooksInto, At, Found
  <2>2. p \in Tops /\ Found(p) \subseteq Expected
    BY <2>1, FoundFacts DEF ExactReport
  <2>3. NoneMissing'
    BY <2>1 DEF NoneMissing, ExactReport
  <2> QED BY <2>1, <2>2, <2>3 DEF ExactReport
<1>8. ASSUME NEW p \in Path, LookFails(p) PROVE ExactReport'
  BY <1>8 DEF LookFails, Fails
<1>9. ASSUME NEW p \in Path, Measures(p) PROVE ExactReport'
  <2>1. /\ report.pc = "measure" /\ report' = report /\ p \in toMeasure
        /\ toMeasure' = toMeasure \ {p}
        /\ lines' = IF p \in dirs THEN lines \cup {LineOf(p)} ELSE lines
        /\ UNCHANGED <<table, idNames, known, toScan, owners>>
    BY <1>9 DEF Measures, At
  <2>2. p \in dirs => p \in Expected
    BY <2>1 DEF ExactReport
  <2>3. known = KnownNow
    BY <2>1 DEF ExactReport
  <2>4. p \in dirs => LineIsRight(LineOf(p)) /\ LineOf(p).path = p
    BY <2>2, <2>3, LineOfNow
  <2>5. NoneMissing'
    <3> SUFFICES ASSUME NEW q \in Expected
                 PROVE  \/ \E l \in lines' : l.path = q
                        \/ q \in toMeasure'
                        \/ \E t \in toScan' : q \in Found(t)
      BY DEF NoneMissing
    <3>1. \/ \E l \in lines : l.path = q
          \/ q \in toMeasure
          \/ \E t \in toScan : q \in Found(t)
      BY <2>1 DEF ExactReport, NoneMissing
    <3>2. q \in dirs
      BY DEF Expected
    <3> QED BY <2>1, <2>4, <3>1, <3>2
  <2>6. \A l \in lines' : LineIsRight(l)
    BY <2>1, <2>4 DEF ExactReport
  <2> QED BY <2>1, <2>5, <2>6 DEF ExactReport
<1>10. CASE Measured
  <2>1. /\ report.pc = "measure" /\ report'.page = report.page
        /\ report'.pc = IF report.page = "quotas" THEN "owners" ELSE "answered"
        /\ UNCHANGED <<table, idNames, toScan, toMeasure, lines, owners>>
    BY <1>10 DEF Measured, At, GoesTo
  <2> QED BY <2>1 DEF ExactReport, NoneMissing
<1>11. CASE ListsOwners
  <2>1. /\ report.pc = "owners" /\ report'.pc = "answered"
        /\ UNCHANGED <<table, idNames, known, toScan, toMeasure, lines>>
    BY <1>11 DEF ListsOwners, At, GoesTo
  <2>2. ASSUME NEW p \in Path PROVE OwnerIsRight(p)'
    <3>1. PVsAt(p)' = PVsAt(p) /\ p # NoDir
      BY ParentAssumption, <1>c DEF PVsAt
    <3> DEFINE at == IF client THEN {Volume[v].uiPath : v \in claimed} \ {NoDir} ELSE {}
    <3>2. owners' \in [at -> claimed] /\ \A q \in at : Volume[owners'[q]].uiPath = q
      BY <1>11 DEF ListsOwners
    <3>3. p \in at => client /\ owners'[p] \in claimed /\ Volume[owners'[p]].uiPath = p
      BY <3>2
    <3>4. p \notin at => PVsAt(p) = {}
      BY <3>1 DEF PVsAt
    <3>5. DOMAIN owners' = at
      BY <3>2
    <3> QED BY <3>1, <3>3, <3>4, <3>5 DEF OwnerIsRight, PVsAt
  <2> QED BY <2>1, <2>2 DEF ExactReport, NoneMissing
<1> QED BY <1>1, <1>2, <1>3, <1>4, <1>5, <1>6, <1>7, <1>8, <1>9, <1>10, <1>11 DEF Reporting

LEMMA NextExact ==
    ASSUME NamesAreOwn, IdsAreOwn, PathsAreOwn
    PROVE  LimitInv /\ ExactWhenStill /\ [ReportNext]_reportVars => ExactWhenStill'
<1> SUFFICES ASSUME LimitInv, ExactWhenStill, [ReportNext]_reportVars, upset' = "none"
             PROVE  ExactReport'
  BY DEF ExactWhenStill
<1>1. CASE World
  <2>1. upset' # "none"
    BY <1>1 DEF World, EditsProjid, EditsProjects, SetsLimit, Fills, MovesDir, Claims, Move
  <2> QED BY <2>1
<1>2. CASE Reporting
  <2>1. upset = "none"
    BY <1>2, ReportingWorld, TypeParts DEF LimitInv
  <2> QED BY <1>2, <2>1, StepIsExact DEF ExactWhenStill
<1>3. CASE UNCHANGED reportVars
  <2>1. /\ ExactReport
        /\ UNCHANGED <<fs, client, projid, projects, limit, usage, dirs, claimed, report, scan>>
    BY <1>3 DEF reportVars, scan, ExactWhenStill
  <2>2. /\ TableNow' = TableNow /\ KnownNow' = KnownNow /\ Tops' = Tops
        /\ \A p : Found(p)' = Found(p)
        /\ Expected' = Expected
        /\ \A l : LineIsRight(l)' <=> LineIsRight(l)
    BY <2>1, WorldSame
  <2>3. \A p : OwnerIsRight(p)' <=> OwnerIsRight(p)
    BY <2>1 DEF OwnerIsRight, PVsAt, scan
  <2> QED BY <2>1, <2>2, <2>3 DEF ExactReport, NoneMissing, scan
<1> QED BY <1>1, <1>2, <1>3 DEF ReportNext

\* A report whose measuring is over says it all
LEMMA ExactMeansReport == LimitInv /\ ExactWhenStill => ReportIsExact
<1> SUFFICES ASSUME LimitInv, ExactReport, report.pc = "answered"
             PROVE  /\ {l.path : l \in lines} = Expected
                    /\ \A l \in lines :
                          /\ l.used = usage[l.path] /\ l.quota = LimitAt(l.path)
                          /\ l.status = IF LimitAt(l.path) = 0 THEN "no_quota"
                                        ELSE IF Percent(l.path) >= 100 THEN "exceeded"
                                        ELSE IF Percent(l.path) >= 90 THEN "warning" ELSE "ok"
                          /\ report.page = "quotas" => OwnerIsRight(l.path)
  BY DEF ExactWhenStill, ReportIsExact, OwnerIsRight
<1>1. toScan = {} /\ toMeasure = {} /\ usage \in [Path -> Nat] /\ limit \in [ID -> Nat] /\ dirs \subseteq Path
  BY DEF LimitInv, ReportTypeOK
<1>2. \A l \in lines : LineIsRight(l)
  BY DEF ExactReport
<1>3. {l.path : l \in lines} = Expected
  BY <1>1, <1>2 DEF ExactReport, NoneMissing, LineIsRight
<1>4. ASSUME NEW l \in lines
      PROVE  l.status = IF LimitAt(l.path) = 0 THEN "no_quota"
                        ELSE IF Percent(l.path) >= 100 THEN "exceeded"
                        ELSE IF Percent(l.path) >= 90 THEN "warning" ELSE "ok"
  <2>1. l.path \in dirs /\ l.status = StatusOf(usage[l.path], LimitAt(l.path))
    BY <1>2 DEF LineIsRight, Expected
  <2>2. usage[l.path] \in Nat
    BY <1>1, <2>1
  <2>3. LimitAt(l.path) \in Nat
    <3>1. CASE fs = "xfs" /\ \E v \in Vol : PathOf(v) = l.path /\ PathLine(v) \in projects
      <4>1. (CHOOSE v \in Vol : PathOf(v) = l.path) \in Vol
        BY <3>1
      <4> QED BY <1>1, <3>1, <4>1, LinesTyped DEF LimitAt
    <3>2. CASE ~(fs = "xfs" /\ \E v \in Vol : PathOf(v) = l.path /\ PathLine(v) \in projects)
      BY <3>2 DEF LimitAt
    <3> QED BY <3>1, <3>2
  <2> QED BY <2>1, <2>2, <2>3, PercentStatus DEF Percent
<1>5. ASSUME NEW l \in lines, report.page = "quotas" PROVE OwnerIsRight(l.path)
  BY <1>2, <1>1, <1>5 DEF ExactReport, LineIsRight, Expected
<1> QED BY <1>2, <1>3, <1>4, <1>5 DEF LineIsRight

(***************************************************************************)
(* Where volumes are distinct and names stand for ids, a report that is    *)
(* not disturbed has every innermost visible directory and every one with  *)
(* a limit, each with what it holds, its limit and the status of the two,  *)
(* and on the quotas page with a PV that the page maps to it.              *)
(***************************************************************************)
THEOREM ReportsMatchTheWorld ==
    ASSUME NamesAreOwn, IdsAreOwn, PathsAreOwn PROVE ReportSpec => []ReportIsExact
<1>1. ReportInit => ExactWhenStill
  BY DEF ReportInit, ExactWhenStill, ExactReport
<1> QED BY <1>1, InitLimitInv, NextLimitInv, NextExact, ExactMeansReport, PTL DEF ReportSpec
=============================================================================
