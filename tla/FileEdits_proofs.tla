--------------------------- MODULE FileEdits_proofs ---------------------------
(***************************************************************************)
(* Proofs about FileEdits: the types, and that the lines of a volume are   *)
(* lost to nothing but a removal of its own, a race or a torn write.       *)
(***************************************************************************)
EXTENDS FileEdits, TLAPS

\* The agent's place and both files exist, and every volume has its lines
LEMMA LineTypes ==
    /\ AgentDir \in Place /\ \A e \in Editor : PlaceOf(e) \in Place
    /\ \A v \in Vol : /\ PathOf(v) \in Path
                      /\ LineOf(v, "projid") \in ProjidLine
                      /\ LineOf(v, "projects") \in ProjectsLine
                      /\ \A f \in Which : LineOf(v, f) \in ProjidLine \cup ProjectsLine
  BY VolumeAssumption DEF Place, PlaceOf, PathOf, LineOf, Line, ProjidLine, ProjectsLine,
                          VolumeSpec, Which

\* An idle job and an idle editor have their types
LEMMA RestTypes == NoJob \in JobState /\ Rest \in EditState
<1>1. PICK v \in Vol : Volume[v] \in VolumeSpec
  BY VolumeAssumption
<1>2. ID # {} /\ Path # {}
  BY <1>1 DEF VolumeSpec
<1> QED BY <1>1, <1>2 DEF NoJob, Rest, JobState, EditState, Which, Content

\* What a projid file names an id is a name or none, what it lists is a quota
LEMMA NameTypes ==
    ASSUME NEW file \in SUBSET ProjidLine, NEW id
    PROVE  NameOf(file, id) \in Name \cup {NoName}
  BY DEF NameOf, Names, ProjidLine

\* A rewrite leaves damage of its type
LEMMA DamageTypes ==
    ASSUME TypeOK, NEW e, NEW clash, Rewrote(e, clash)
    PROVE  damage' \in {"none", "rewritten", "spoilt"}
  BY DEF TypeOK, Rewrote

\* What a step leaves alone keeps its type
LEMMA Unmoved ==
    ASSUME TypeOK
    PROVE  /\ text' = text => FilesTyped'
           /\ edit' = edit => EditsTyped'
           /\ job' = job => JobTyped'
<1>1. text' = text => FilesTyped'
  BY DEF TypeOK, FilesTyped
<1>2. edit' = edit => EditsTyped'
  BY DEF TypeOK, EditsTyped
<1>3. job' = job => JobTyped'
  BY DEF TypeOK, JobTyped
<1> QED BY <1>1, <1>2, <1>3

\* A file that is given lines of its own keeps all files theirs
LEMMA FileTypes ==
    ASSUME TypeOK, NEW pl \in Place, NEW f \in Which, NEW c \in SUBSET Lines(f),
           text' = [text EXCEPT ![pl][f] = c]
    PROVE  /\ FilesTyped'
           /\ \A ql \in Place : \A g \in Which :
                text'[ql][g] = IF ql = pl /\ g = f THEN c ELSE text[ql][g]
<1>1. text \in [Place -> [Which -> Content]] /\ c \in Content
  BY DEF TypeOK, FilesTyped, Content, Lines
<1>2. \A ql \in Place : \A g \in Which :
        text'[ql][g] = IF ql = pl /\ g = f THEN c ELSE text[ql][g]
  BY <1>1
<1>3. text' \in [Place -> [Which -> Content]]
  BY <1>1
<1>4. ASSUME NEW ql \in Place, NEW g \in Which PROVE text'[ql][g] \subseteq Lines(g)
  <2>1. CASE ql = pl /\ g = f
    <3>1. text'[ql][g] = c /\ c \subseteq Lines(g)
      BY <1>2, <2>1
    <3> QED BY <3>1
  <2>2. CASE ~(ql = pl /\ g = f)
    <3>1. text'[ql][g] = text[ql][g] /\ text[ql][g] \subseteq Lines(g)
      BY <1>2, <2>2 DEF TypeOK, FilesTyped
    <3> QED BY <3>1
  <2> QED BY <2>1, <2>2
<1> QED BY <1>2, <1>3, <1>4 DEF FilesTyped

\* An editor that takes up a state of its type keeps all editors in theirs
LEMMA EditTypes ==
    ASSUME TypeOK, NEW e \in Editor, NEW s \in EditState,
           edit' = [edit EXCEPT ![e] = s], s.base \subseteq Lines(s.file)
    PROVE  EditsTyped'
<1>1. edit \in [Editor -> EditState] /\ \A g \in Editor : edit[g].base \subseteq Lines(edit[g].file)
  BY DEF TypeOK, EditsTyped
<1>2. \A g \in Editor : edit'[g] = IF g = e THEN s ELSE edit[g]
  BY <1>1
<1>3. edit' \in [Editor -> EditState]
  BY <1>1
<1> QED BY <1>1, <1>2, <1>3 DEF EditsTyped

\* After a file an editor is in a state of its type
LEMMA GoesOnTypes ==
    ASSUME TypeOK, NEW e \in Editor, GoesOn(e) PROVE EditsTyped'
<1>1. edit \in [Editor -> EditState] /\ edit[e] \in EditState
  BY DEF TypeOK, EditsTyped
<1>2. PICK s : /\ edit' = [edit EXCEPT ![e] = s]
               /\ \/ s = [edit[e] EXCEPT !.pc = "read", !.file = "projid", !.base = {}]
                  \/ s = [Rest EXCEPT !.pc = "next"]
                  \/ s = [Rest EXCEPT !.pc = "rmdir", !.path = edit[e].path]
  BY <1>1 DEF GoesOn
<1>3. Rest.base = {}
  BY DEF Rest
<1>4. s \in EditState /\ s.base = {}
  BY <1>1, <1>2, <1>3, RestTypes DEF EditState, Which, Content
<1> QED BY <1>2, <1>4, EditTypes

\* A step of an editor that goes to its next label keeps the types
LEMMA StepTypes ==
    ASSUME TypeOK, NEW e \in Editor,
           NEW p \in {"findID", "findName", "rmdir", "projects", "projid", "ask", "next",
                      "read", "cut", "write"},
           edit' = [edit EXCEPT ![e].pc = p]
    PROVE  EditsTyped'
<1>1. edit \in [Editor -> EditState] /\ edit[e] \in EditState
  BY DEF TypeOK, EditsTyped
<1>2. edit[e].base \subseteq Lines(edit[e].file)
  BY DEF TypeOK, EditsTyped
<1>3. DEFINE s == [edit[e] EXCEPT !.pc = p]
<1>4. s \in EditState /\ s.base = edit[e].base /\ s.file = edit[e].file
  BY <1>1 DEF EditState
<1> QED BY <1>2, <1>4, EditTypes

-----------------------------------------------------------------------------
\* The types hold initially
LEMMA InitTypeOK == Init => TypeOK
<1> SUFFICES ASSUME Init PROVE TypeOK
  OBVIOUS
<1>1. PICK left \in SUBSET Vol :
        text = [pl \in Place |-> [f \in Which |-> {LineOf(v, f) : v \in left}]]
  BY DEF Init
<1>2. \A f \in Which : {LineOf(v, f) : v \in left} \in Content
                        /\ {LineOf(v, f) : v \in left} \subseteq Lines(f)
  BY LineTypes DEF Content, Lines, Which
<1>3. dirs \subseteq Path
  BY LineTypes DEF Init
<1>4. FilesTyped
  BY <1>1, <1>2 DEF FilesTyped
<1>5. EditsTyped
  BY RestTypes DEF Init, Rest, EditsTyped
<1>6. JobTyped
  BY RestTypes DEF Init, NoJob, JobTyped
<1> QED BY <1>3, <1>4, <1>5, <1>6, LimitAssumption DEF Init, TypeOK

\* The steps of the cluster and of the agent keep the types
LEMMA AgentTypes ==
    ASSUME TypeOK, Cluster \/ Agent \/ Restart PROVE TypeOK'
<1> USE Unmoved, LimitAssumption DEF cluster, agent, command, history, Event
<1>1. ASSUME NEW v \in Vol, Claim(v) \/ Unclaim(v) \/ MakeDir(v) PROVE TypeOK'
  BY <1>1, LineTypes DEF Claim, Unclaim, MakeDir, TypeOK
<1>2. ASSUME NEW v \in Vol, EnsureQuota(v) PROVE TypeOK'
  <2>1. JobTyped'
    BY <1>2 DEF EnsureQuota, JobTyped, JobState, Which
  <2> QED BY <1>2, <2>1 DEF EnsureQuota, TypeOK
<1>3. ASSUME NEW v \in Vol, WatchDeleted(v) \/ WatchLoses(v) PROVE TypeOK'
  BY <1>3 DEF WatchDeleted, WatchLoses, TypeOK
<1>4. CASE AppendLooks
  <2>1. JobTyped'
    BY <1>4 DEF AppendLooks, Goes, TypeOK, JobTyped, JobState, Which
  <2> QED BY <1>4, <2>1 DEF AppendLooks, TypeOK
<1>5. CASE AppendWrites
  <2>1. job \in JobState /\ Entry \in Lines(job.file) /\ Lines(job.file) \in Content
    BY LineTypes DEF Entry, TypeOK, JobTyped, JobState, Which, Lines, Content
  <2>2. text[AgentDir][job.file] \cup {Entry} \in SUBSET Lines(job.file) /\ job.file \in Which
    BY <2>1, LineTypes DEF TypeOK, FilesTyped, JobState
  <2>3. FilesTyped'
    BY <1>5, <2>1, <2>2, FileTypes, LineTypes DEF AppendWrites
  <2>4. JobTyped'
    BY <1>5, <2>1 DEF AppendWrites, Goes, JobState, JobTyped, Which
  <2> QED BY <1>5, <2>3, <2>4 DEF AppendWrites, TypeOK
<1>6. CASE Remember \/ JobFails
  <2>1. job \in JobState /\ applied \subseteq Path
    BY DEF TypeOK, JobTyped
  <2>2. job' = NoJob /\ NoJob.pc = "idle" /\ applied' \subseteq Path
    BY <1>6, <2>1, LineTypes DEF Remember, JobFails, NoJob, JobState
  <2>3. JobTyped'
    BY <2>2, RestTypes DEF JobTyped
  <2> QED BY <1>6, <2>2, <2>3 DEF Remember, JobFails, TypeOK
<1>7. CASE Restart
  <2>1. NoJob.pc = "idle" /\ Rest.base = {}
    BY DEF NoJob, Rest
  <2>2. JobTyped'
    BY <1>7, <2>1, RestTypes DEF Restart, JobTyped
  <2>3. EditsTyped'
    BY <1>7, <2>1, RestTypes DEF Restart, TypeOK, EditsTyped
  <2> QED BY <1>7, <2>2, <2>3 DEF Restart, TypeOK
<1> QED BY <1>1, <1>2, <1>3, <1>4, <1>5, <1>6, <1>7 DEF Cluster, Agent, JobStep

\* The steps of a rewrite keep the types
LEMMA RemoveLineTypes ==
    ASSUME TypeOK, NEW e \in Editor, RemoveLine(e) PROVE TypeOK'
<1> USE Unmoved, LimitAssumption DEF cluster, agent, command, history, Event
<1>1. /\ edit[e] \in EditState /\ edit[e].file \in Which /\ PlaceOf(e) \in Place
      /\ edit \in [Editor -> EditState] /\ edit[e].base \subseteq Lines(edit[e].file)
  BY LineTypes DEF TypeOK, EditsTyped, EditState
<1>2. CASE RemoveReads(e)
  <2>1. FileOf(e) \in Content /\ FileOf(e) \subseteq Lines(edit[e].file)
    BY <1>1 DEF TypeOK, FilesTyped, FileOf
  <2> DEFINE s == [edit[e] EXCEPT !.pc = "cut", !.base = FileOf(e)]
  <2>2. s \in EditState /\ s.base = FileOf(e) /\ s.file = edit[e].file
    BY <1>1, <2>1 DEF EditState
  <2>3. edit' = [edit EXCEPT ![e] = s]
    BY <1>1, <1>2 DEF RemoveReads
  <2>4. EditsTyped'
    BY <2>1, <2>2, <2>3, EditTypes
  <2> QED BY <1>2, <2>4 DEF RemoveReads, TypeOK
<1>3. CASE RemoveCuts(e)
  <2> DEFINE c == {}
  <2>0. c \in SUBSET Lines(edit[e].file) /\ text' = [text EXCEPT ![PlaceOf(e)][edit[e].file] = c]
    BY <1>3 DEF RemoveCuts
  <2> HIDE DEF c
  <2>1. FilesTyped'
    BY <1>1, <2>0, FileTypes
  <2>2. EditsTyped'
    BY <1>3, StepTypes DEF RemoveCuts
  <2>3. damage' \in {"none", "rewritten", "spoilt"}
    BY <1>3, DamageTypes DEF RemoveCuts
  <2> QED BY <1>3, <2>1, <2>2, <2>3 DEF RemoveCuts, TypeOK, Meant
<1>4. CASE RemoveWrites(e)
  <2> DEFINE c == IF Kept(e) = {} THEN text[PlaceOf(e)][edit[e].file] ELSE Kept(e)
  <2>1. c \in SUBSET Lines(edit[e].file)
    BY <1>1 DEF Kept, RemoveLineFromFile, TypeOK, FilesTyped
  <2>2. text' = [text EXCEPT ![PlaceOf(e)][edit[e].file] = c]
    BY <1>4 DEF RemoveWrites
  <2>3. FilesTyped'
    BY <1>1, <2>1, <2>2, FileTypes
  <2>4. EditsTyped'
    BY <1>4, GoesOnTypes DEF RemoveWrites
  <2>5. damage' \in {"none", "rewritten", "spoilt"}
    BY <1>4, DamageTypes DEF RemoveWrites
  <2> QED BY <1>4, <2>3, <2>4, <2>5 DEF RemoveWrites, TypeOK
<1>5. CASE RemoveFails(e)
  <2>1. EditsTyped'
    BY <1>5, GoesOnTypes DEF RemoveFails
  <2>2. damage' \in {"none", "rewritten", "spoilt"}
    BY <1>5, DamageTypes DEF RemoveFails, TypeOK
  <2> QED BY <1>5, <2>1, <2>2 DEF RemoveFails, TypeOK
<1> QED BY <1>2, <1>3, <1>4, <1>5 DEF RemoveLine

\* The other steps of a removal keep the types
LEMMA RemovalTypes ==
    ASSUME TypeOK, NEW r \in Remover, Removal(r) PROVE TypeOK'
<1> USE Unmoved DEF cluster, agent, command, history
<1>1. /\ r \in Editor /\ edit[r] \in EditState /\ edit \in [Editor -> EditState]
      /\ edit[r].base \subseteq Lines(edit[r].file)
  BY DEF TypeOK, EditsTyped, Editor
<1>2. ASSUME NEW v \in Vol, FindOrphan(r, v) PROVE TypeOK'
  <2> DEFINE s == [edit[r] EXCEPT !.pc = "findID", !.path = PathOf(v)]
  <2>1. s \in EditState /\ s.base = edit[r].base /\ s.file = edit[r].file
    BY <1>1, LineTypes DEF EditState
  <2>2. edit' = [edit EXCEPT ![r] = s]
    BY <1>1, <1>2 DEF FindOrphan
  <2>3. EditsTyped'
    BY <1>1, <2>1, <2>2, EditTypes
  <2> QED BY <1>2, <2>3 DEF FindOrphan, TypeOK
<1>3. CASE FindID(r)
  <2>1. CASE edit' = [edit EXCEPT ![r].pc = "rmdir"]
    <3>1. EditsTyped'
      BY <1>1, <2>1, StepTypes
    <3> QED BY <1>3, <3>1 DEF FindID, TypeOK
  <2>2. ASSUME NEW l \in text[AgentDir]["projects"],
               edit' = [edit EXCEPT ![r].pc = "findName", ![r].id = l.key]
        PROVE  TypeOK'
    <3> DEFINE s == [edit[r] EXCEPT !.pc = "findName", !.id = l.key]
    <3>1. l \in Lines("projects")
      BY LineTypes DEF TypeOK, FilesTyped, Which
    <3>2. s \in EditState /\ s.base = edit[r].base /\ s.file = edit[r].file
      BY <1>1, <3>1 DEF EditState, Lines, ProjectsLine
    <3>3. edit' = [edit EXCEPT ![r] = s]
      BY <1>1, <2>2
    <3>4. EditsTyped'
      BY <1>1, <3>2, <3>3, EditTypes
    <3> QED BY <1>3, <3>4 DEF FindID, TypeOK
  <2> QED BY <1>3, <2>1, <2>2 DEF FindID
<1>4. CASE FindName(r)
  <2> DEFINE n == NameOf(text[AgentDir]["projid"], edit[r].id)
             s == [edit[r] EXCEPT !.pc = "read", !.name = n]
  <2>1. text[AgentDir]["projid"] \subseteq Lines("projid")
    BY LineTypes DEF TypeOK, FilesTyped, Which
  <2>2. n \in Name \cup {NoName}
    BY <2>1, NameTypes DEF Lines
  <2>3. s \in EditState /\ s.base = edit[r].base /\ s.file = edit[r].file
    BY <1>1, <2>2 DEF EditState
  <2>4. edit' = [edit EXCEPT ![r] = s]
    BY <1>1, <1>4 DEF FindName
  <2>5. EditsTyped'
    BY <1>1, <2>3, <2>4, EditTypes
  <2> QED BY <1>4, <2>5 DEF FindName, TypeOK
<1>5. CASE RemoveAll(r)
  <2>1. Rest.base \subseteq Lines(Rest.file)
    BY DEF Rest
  <2>2. EditsTyped'
    BY <1>1, <1>5, <2>1, RestTypes, EditTypes DEF RemoveAll
  <2> QED BY <1>5, <2>2 DEF RemoveAll, TypeOK
<1> QED BY <1>2, <1>3, <1>4, <1>5 DEF Removal

\* The steps of the cleanup command keep the types
LEMMA CommandTypes == ASSUME TypeOK, RunCleanup PROVE TypeOK'
<1> USE Unmoved, LimitAssumption DEF cluster, agent, command, history, Event
<1>1. /\ Command \in Editor /\ edit[Command] \in EditState /\ edit \in [Editor -> EditState]
      /\ edit[Command].base \subseteq Lines(edit[Command].file)
  BY DEF TypeOK, EditsTyped, Editor
<1>2. ASSUME NEW p \in {"projects", "projid", "ask", "next"}, CommandAt(p) PROVE EditsTyped'
  BY <1>1, <1>2, StepTypes DEF CommandAt
<1>3. CASE CommandLists
  <2>1. EditsTyped'
    BY <1>2, <1>3 DEF CommandLists
  <2> QED BY <1>3, <2>1, LineTypes DEF CommandLists, TypeOK
<1>4. CASE CommandReadsProjects
  <2>1. EditsTyped'
    BY <1>2, <1>4 DEF CommandReadsProjects
  <2>2. text[BaseDir]["projects"] \subseteq Lines("projects")
    BY DEF TypeOK, FilesTyped, Which, Place
  <2>3. todo' \subseteq Quota
    BY <1>4, <2>2 DEF CommandReadsProjects, Quota, Lines, ProjectsLine
  <2> QED BY <1>4, <2>1, <2>3 DEF CommandReadsProjects, TypeOK
<1>5. CASE CommandReadsProjid
  <2>1. EditsTyped'
    BY <1>2, <1>5 DEF CommandReadsProjid
  <2>2. text[BaseDir]["projid"] \subseteq Lines("projid")
    BY DEF TypeOK, FilesTyped, Which, Place
  <2>3. \A id : NameOf(text[BaseDir]["projid"], id) \in Name \cup {NoName}
    BY <2>2, NameTypes DEF Lines
  <2>4. todo' \subseteq Quota
    BY <1>5, <2>3 DEF CommandReadsProjid, Quota, TypeOK
  <2> QED BY <1>5, <2>1, <2>4 DEF CommandReadsProjid, TypeOK
<1>6. CASE CommandConfirms
  <2>1. EditsTyped'
    BY <1>2, <1>6 DEF CommandConfirms
  <2> QED BY <1>6, <2>1 DEF CommandConfirms, TypeOK
<1>7. ASSUME NEW o \in Quota, CommandTakes(o) PROVE TypeOK'
  <2> DEFINE s == [edit[Command] EXCEPT !.pc = "read", !.id = o.id, !.name = o.name]
  <2>1. s \in EditState /\ s.base = edit[Command].base /\ s.file = edit[Command].file
    BY <1>1 DEF EditState, Quota
  <2>2. edit' = [edit EXCEPT ![Command] = s]
    BY <1>1, <1>7 DEF CommandTakes
  <2>3. EditsTyped'
    BY <1>1, <2>1, <2>2, EditTypes
  <2> QED BY <1>7, <2>3 DEF CommandTakes, TypeOK
<1>8. CASE CommandEnds \/ CommandDies
  <2>1. Rest.base \subseteq Lines(Rest.file)
    BY DEF Rest
  <2>2. EditsTyped'
    BY <1>1, <1>8, <2>1, RestTypes, EditTypes DEF CommandEnds, CommandDies
  <2>3. damage' \in {"none", "rewritten", "spoilt"}
    BY <1>8, DamageTypes DEF CommandEnds, CommandDies, TypeOK
  <2>4. CASE CommandEnds
    BY <2>2, <2>3, <2>4 DEF CommandEnds, TypeOK
  <2>5. CASE CommandDies
    BY <2>2, <2>3, <2>5 DEF CommandDies, TypeOK
  <2> QED BY <1>8, <2>4, <2>5
<1> QED BY <1>3, <1>4, <1>5, <1>6, <1>7, <1>8 DEF RunCleanup

\* Every step keeps the types
LEMMA NextTypeOK == TypeOK /\ [Next]_vars => TypeOK'
<1> SUFFICES ASSUME TypeOK, [Next]_vars PROVE TypeOK'
  OBVIOUS
<1>1. CASE Next
  BY <1>1, AgentTypes, RemoveLineTypes, RemovalTypes, CommandTypes DEF Next
<1>2. CASE UNCHANGED vars
  BY <1>2, Unmoved DEF vars, cluster, agent, command, history, TypeOK
<1> QED BY <1>1, <1>2

(***************************************************************************)
(* Every variable keeps its type, for any volumes, any number of removals, *)
(* and whether or not the command works on the agent's own files.          *)
(***************************************************************************)
THEOREM TypeCorrect == Spec => []TypeOK
  BY InitTypeOK, NextTypeOK, PTL DEF Spec

-----------------------------------------------------------------------------
(***************************************************************************)
(* The lines of bystanders.  BystandersKeepLines needs what the running    *)
(* job has seen or written so far, and that every line in a file, or read  *)
(* from it, is one of a volume.                                            *)
(***************************************************************************)
Genuine(f, lines) == \A l \in lines : \E v \in Vol : l = LineOf(v, f)

FilesAreGenuine == \A pl \in Place : \A f \in Which : Genuine(f, text[pl][f])
BasesAreGenuine == \A e \in Editor : Genuine(edit[e].file, edit[e].base)

Bystander(v) == v \notin ordered /\ damage # "spoilt"

JobKeepsLines ==
    \A v \in Vol : (job.pc # "idle" /\ v = job.vol /\ Bystander(v)) =>
        /\ job.file = "projects" => Survives(v, "projid")
        /\ job.pc = "limit" => Survives(v, "projects")

LinesInv ==
    /\ TypeOK /\ FilesAreGenuine /\ BasesAreGenuine
    /\ JobKeepsLines /\ BystandersKeepLines

\* The lines are genuine initially, and no path is remembered
LEMMA InitLinesInv == Init => LinesInv
<1> SUFFICES ASSUME Init PROVE LinesInv
  OBVIOUS
<1>1. FilesAreGenuine
  BY DEF Init, FilesAreGenuine, Genuine
<1>2. BasesAreGenuine
  BY DEF Init, BasesAreGenuine, Genuine, Rest
<1>3. JobKeepsLines /\ BystandersKeepLines
  BY DEF Init, JobKeepsLines, BystandersKeepLines, NoJob
<1> QED BY <1>1, <1>2, <1>3, InitTypeOK DEF LinesInv

\* A line survives a step that takes nothing out of the agent's files and
\* leaves the editors that are about to write as they are
LEMMA SurvivesStays ==
    ASSUME NEW v \in Vol, NEW f \in Which, Survives(v, f),
           text[AgentDir][f] \subseteq text'[AgentDir][f],
           \A e \in Editor : (PlaceOf(e) = AgentDir /\ edit[e].pc = "write") => edit'[e] = edit[e]
    PROVE  Survives(v, f)'
  BY DEF Survives, Kept, KeyOf

\* A key that AppendToFile finds is that of the volume's own line
LEMMA FoundIsOwn ==
    ASSUME TypeOK, FilesAreGenuine, DistinctLines, NEW v \in Vol, NEW f \in Which,
           Contains(text[AgentDir][f], LineOf(v, f).key)
    PROVE  LineOf(v, f) \in text[AgentDir][f]
<1>1. PICK l \in text[AgentDir][f] : LineOf(v, f).key \in {l.key, l.val}
  BY DEF Contains, DistinctLines
<1>2. PICK w \in Vol : l = LineOf(w, f)
  BY LineTypes DEF FilesAreGenuine, Genuine
<1>3. Volume[v] \in VolumeSpec /\ Volume[w] \in VolumeSpec
  BY VolumeAssumption
<1>4. LineOf(v, f).key = LineOf(w, f).key
  BY <1>1, <1>2, <1>3 DEF LineOf, Line, PathOf, VolumeSpec, DistinctLines
<1>5. v = w
  BY <1>4 DEF LineOf, Line, DistinctLines
<1> QED BY <1>1, <1>2, <1>5

\* A rewrite of the agent's files leaves the line of a bystander in the file,
\* or in the hands of an editor
LEMMA RewriteKeeps ==
    ASSUME TypeOK, NEW e \in Editor, RemoveLine(e), NEW v \in Vol, NEW f \in Which,
           Survives(v, f), Bystander(v)'
    PROVE  Survives(v, f)'
<1> DEFINE mine == PlaceOf(e) = AgentDir /\ edit[e].file = f
<1>1. /\ edit \in [Editor -> EditState] /\ edit[e].file \in Which /\ PlaceOf(e) \in Place
      /\ AgentDir \in Place /\ text \in [Place -> [Which -> Content]]
  BY LineTypes DEF TypeOK, EditsTyped, EditState, FilesTyped
<1>2. CASE RemoveReads(e)
  BY <1>1, <1>2, SurvivesStays DEF RemoveReads
<1>3. CASE RemoveCuts(e)
  <2>1. \A g \in Editor \ {e} : edit'[g] = edit[g]
    BY <1>1, <1>3 DEF RemoveCuts
  <2>2. edit'[e] = [edit[e] EXCEPT !.pc = "write"]
    BY <1>1, <1>3 DEF RemoveCuts
  <2>3. CASE ~mine
    <3>1. text'[AgentDir][f] = text[AgentDir][f]
      BY <1>1, <1>3, <2>3 DEF RemoveCuts
    <3> QED BY <1>3, <2>1, <3>1, SurvivesStays DEF RemoveCuts
  <2>4. CASE mine
    <3>1. CASE LineOf(v, f) \in text[AgentDir][f]
      <4>1. text[AgentDir][f] = edit[e].base
        BY <1>3, <2>4 DEF RemoveCuts, Rewrote, Bystander, FileOf
      <4>2. LineOf(v, f).key # KeyOf(e)
        BY <1>3, <2>4 DEF RemoveCuts, Bystander, Meant
      <4>3. LineOf(v, f) \in Kept(e)
        BY <3>1, <4>1, <4>2 DEF Kept, RemoveLineFromFile
      <4>4. Kept(e)' = Kept(e) /\ edit'[e].pc = "write" /\ edit'[e].file = f
        BY <1>1, <2>2, <2>4 DEF Kept, KeyOf, EditState
      <4> QED BY <2>4, <4>3, <4>4 DEF Survives
    <3>2. ASSUME NEW g \in Editor, PlaceOf(g) = AgentDir, edit[g].pc = "write",
                 edit[g].file = f, LineOf(v, f) \in Kept(g)
          PROVE  Survives(v, f)'
      <4>1. g # e
        BY <1>3, <3>2 DEF RemoveCuts
      <4>2. edit'[g] = edit[g] /\ Kept(g)' = Kept(g)
        BY <2>1, <4>1 DEF Kept, KeyOf
      <4> QED BY <3>2, <4>2 DEF Survives
    <3> QED BY <3>1, <3>2 DEF Survives
  <2> QED BY <2>3, <2>4
<1>4. CASE RemoveWrites(e)
  <2>1. \A g \in Editor \ {e} : edit'[g] = edit[g]
    BY <1>1, <1>4 DEF RemoveWrites, GoesOn
  <2>2. CASE ~mine
    <3>1. text'[AgentDir][f] = text[AgentDir][f]
      BY <1>1, <1>4, <2>2 DEF RemoveWrites
    <3>2. CASE LineOf(v, f) \in text[AgentDir][f]
      BY <3>1, <3>2 DEF Survives
    <3>3. ASSUME NEW g \in Editor, PlaceOf(g) = AgentDir, edit[g].pc = "write",
                 edit[g].file = f, LineOf(v, f) \in Kept(g)
          PROVE  Survives(v, f)'
      <4>1. edit'[g] = edit[g] /\ Kept(g)' = Kept(g)
        BY <2>1, <2>2, <3>3 DEF Kept, KeyOf
      <4> QED BY <3>3, <4>1 DEF Survives
    <3> QED BY <3>2, <3>3 DEF Survives
  <2>3. CASE mine
    <3>1. text[AgentDir][f] = {}
      BY <1>4, <2>3 DEF RemoveWrites, Rewrote, Bystander, FileOf
    <3>2. PICK g \in Editor : /\ PlaceOf(g) = AgentDir /\ edit[g].pc = "write"
                              /\ edit[g].file = f /\ LineOf(v, f) \in Kept(g)
      BY <3>1 DEF Survives
    <3>3. CASE g = e
      <4>1. text'[AgentDir][f] = Kept(e)
        BY <1>1, <1>4, <2>3, <3>2, <3>3 DEF RemoveWrites
      <4> QED BY <3>2, <3>3, <4>1 DEF Survives
    <3>4. CASE g # e
      <4>1. edit'[g] = edit[g] /\ Kept(g)' = Kept(g)
        BY <2>1, <3>4 DEF Kept, KeyOf
      <4> QED BY <3>2, <4>1 DEF Survives
    <3> QED BY <3>3, <3>4
  <2> QED BY <2>2, <2>3
<1>5. CASE RemoveFails(e)
  <2>1. \A g \in Editor \ {e} : edit'[g] = edit[g]
    BY <1>1, <1>5 DEF RemoveFails, GoesOn
  <2>2. ~(PlaceOf(e) = AgentDir /\ edit[e].pc = "write")
    BY <1>5 DEF RemoveFails, Rewrote, Bystander
  <2> QED BY <1>5, <2>1, <2>2, SurvivesStays DEF RemoveFails
<1> QED BY <1>2, <1>3, <1>4, <1>5 DEF RemoveLine

\* A volume that is a bystander after a step of the running agent was one before
LEMMA BystanderBefore ==
    ASSUME TypeOK, Next, ~Restart, NEW v \in Vol, Bystander(v)' PROVE Bystander(v)
<1> USE DEF cluster, agent, command, history, Bystander
<1>1. CASE Cluster
  BY <1>1 DEF Cluster, Claim, Unclaim, MakeDir
<1>2. CASE Agent
  BY <1>2 DEF Agent, JobStep, EnsureQuota, WatchDeleted, WatchLoses, AppendLooks, AppendWrites,
              Remember, JobFails
<1>3. CASE RunCleanup
  BY <1>3 DEF RunCleanup, CommandLists, CommandReadsProjects, CommandReadsProjid,
              CommandConfirms, CommandTakes, CommandEnds, CommandDies, Rewrote
<1>4. ASSUME NEW e \in Editor, RemoveLine(e) PROVE Bystander(v)
  BY <1>4 DEF RemoveLine, RemoveReads, RemoveCuts, RemoveWrites, RemoveFails, Rewrote
<1>5. ASSUME NEW r \in Remover, Removal(r) PROVE Bystander(v)
  BY <1>5 DEF Removal, FindOrphan, FindID, FindName, RemoveAll
<1> QED BY <1>1, <1>2, <1>3, <1>4, <1>5 DEF Next

\* The lines of a bystander survive every step of the running agent and the others
LEMMA BystanderSurvives ==
    ASSUME TypeOK, Next, ~Restart, NEW v \in Vol, NEW f \in Which, Survives(v, f), Bystander(v)'
    PROVE  Survives(v, f)'
<1> USE DEF cluster, agent, command, history
<1>1. edit \in [Editor -> EditState] /\ text \in [Place -> [Which -> Content]] /\ AgentDir \in Place
  BY LineTypes DEF TypeOK, EditsTyped, FilesTyped
<1>2. CASE Cluster
  BY <1>2, SurvivesStays DEF Cluster, Claim, Unclaim, MakeDir
<1>3. CASE Agent
  <2>1. text' = text \/ AppendWrites
    BY <1>3 DEF Agent, JobStep, EnsureQuota, WatchDeleted, WatchLoses, AppendLooks,
                Remember, JobFails
  <2>2. edit' = edit
    BY <1>3 DEF Agent, JobStep, EnsureQuota, WatchDeleted, WatchLoses, AppendLooks, AppendWrites,
                Remember, JobFails
  <2>3. CASE AppendWrites
    <3>1. job.file \in Which
      BY DEF TypeOK, JobTyped, JobState
    <3>2. text[AgentDir][f] \subseteq text'[AgentDir][f]
      BY <1>1, <2>3, <3>1 DEF AppendWrites
    <3> QED BY <2>2, <3>2, SurvivesStays
  <2> QED BY <2>1, <2>2, <2>3, SurvivesStays
<1>4. CASE RunCleanup
  <2>1. text' = text /\ \A g \in Editor \ {Command} : edit'[g] = edit[g]
    BY <1>1, <1>4 DEF RunCleanup, CommandLists, CommandReadsProjects, CommandReadsProjid,
                 CommandConfirms, CommandTakes, CommandEnds, CommandDies, CommandAt
  <2>2. ~(PlaceOf(Command) = AgentDir /\ edit[Command].pc = "write")
    BY <1>4 DEF RunCleanup, CommandLists, CommandReadsProjects, CommandReadsProjid,
                 CommandConfirms, CommandTakes, CommandEnds, CommandDies, Rewrote, Bystander
  <2> QED BY <2>1, <2>2, SurvivesStays
<1>5. ASSUME NEW e \in Editor, RemoveLine(e) PROVE Survives(v, f)'
  BY <1>5, RewriteKeeps
<1>6. ASSUME NEW r \in Remover, Removal(r) PROVE Survives(v, f)'
  <2>1. r \in Editor /\ text' = text /\ \A g \in Editor \ {r} : edit'[g] = edit[g]
    BY <1>1, <1>6 DEF Removal, FindOrphan, FindID, FindName, RemoveAll, Editor
  <2>2. edit[r].pc # "write"
    BY <1>6 DEF Removal, FindOrphan, FindID, FindName, RemoveAll
  <2> QED BY <2>1, <2>2, SurvivesStays
<1> QED BY <1>2, <1>3, <1>4, <1>5, <1>6 DEF Next

\* No step makes up a line
LEMMA GenuineStays ==
    ASSUME LinesInv, Next PROVE FilesAreGenuine' /\ BasesAreGenuine'
<1> USE DEF cluster, agent, command, history, LinesInv
<1>1. /\ edit \in [Editor -> EditState] /\ text \in [Place -> [Which -> Content]]
      /\ AgentDir \in Place
  BY LineTypes DEF TypeOK, EditsTyped, FilesTyped
<1>2. text' = text => FilesAreGenuine'
  BY DEF FilesAreGenuine, Genuine
<1>3. ASSUME NEW e \in Editor, \A g \in Editor \ {e} : edit'[g] = edit[g],
             edit'[e].base = {} \/ (edit'[e].base = edit[e].base /\ edit'[e].file = edit[e].file)
      PROVE  BasesAreGenuine'
  BY <1>3 DEF BasesAreGenuine, Genuine
<1>4. edit' = edit => BasesAreGenuine'
  BY DEF BasesAreGenuine, Genuine
<1>5. Rest.base = {}
  BY DEF Rest
<1>6. CASE Cluster
  BY <1>2, <1>4, <1>6 DEF Cluster, Claim, Unclaim, MakeDir
<1>7. CASE Agent
  <2>1. edit' = edit
    BY <1>7 DEF Agent, JobStep, EnsureQuota, WatchDeleted, WatchLoses, AppendLooks, AppendWrites,
                Remember, JobFails
  <2>2. text' = text \/ AppendWrites
    BY <1>7 DEF Agent, JobStep, EnsureQuota, WatchDeleted, WatchLoses, AppendLooks,
                Remember, JobFails
  <2>3. CASE AppendWrites
    <3>1. job.file \in Which /\ job.vol \in Vol
      BY DEF TypeOK, JobTyped, JobState
    <3>2. \A pl \in Place : \A f \in Which :
            text'[pl][f] = text[pl][f] \/ (f = job.file /\ text'[pl][f] = text[pl][f] \cup {Entry})
      BY <1>1, <2>3, <3>1 DEF AppendWrites
    <3>3. FilesAreGenuine'
      BY <3>1, <3>2 DEF FilesAreGenuine, Genuine, Entry
    <3> QED BY <1>4, <2>1, <3>3
  <2> QED BY <1>2, <1>4, <2>1, <2>2, <2>3
<1>8. CASE Restart
  BY <1>1, <1>2, <1>5, <1>8 DEF Restart, BasesAreGenuine, Genuine
<1>9. CASE RunCleanup
  <2>1. Command \in Editor /\ text' = text
    BY <1>9 DEF Editor, RunCleanup, CommandLists, CommandReadsProjects, CommandReadsProjid,
                 CommandConfirms, CommandTakes, CommandEnds, CommandDies
  <2>2. /\ \A g \in Editor \ {Command} : edit'[g] = edit[g]
        /\ \/ edit'[Command].base = {}
           \/ edit'[Command].base = edit[Command].base /\ edit'[Command].file = edit[Command].file
    <3>1. ASSUME NEW p, CommandAt(p) PROVE <2>2!:
      BY <1>1, <2>1, <3>1 DEF EditState, CommandAt
    <3>2. ASSUME NEW o \in Quota, CommandTakes(o) PROVE <2>2!:
      BY <1>1, <2>1, <3>2 DEF EditState, CommandTakes
    <3>3. CASE CommandEnds \/ CommandDies
      BY <1>1, <1>5, <2>1, <3>3 DEF CommandEnds, CommandDies
    <3> QED BY <1>9, <3>1, <3>2, <3>3 DEF RunCleanup, CommandLists, CommandReadsProjects,
                                        CommandReadsProjid, CommandConfirms
  <2> QED BY <1>2, <1>3, <2>1, <2>2
<1>10. ASSUME NEW r \in Remover, Removal(r) PROVE FilesAreGenuine' /\ BasesAreGenuine'
  <2>1. r \in Editor /\ text' = text
    BY <1>10 DEF Editor, Removal, FindOrphan, FindID, FindName, RemoveAll
  <2>2. /\ \A g \in Editor \ {r} : edit'[g] = edit[g]
        /\ \/ edit'[r].base = {}
           \/ edit'[r].base = edit[r].base /\ edit'[r].file = edit[r].file
    BY <1>1, <1>5, <1>10, <2>1 DEF EditState, Removal, FindOrphan, FindID, FindName, RemoveAll
  <2> QED BY <1>2, <1>3, <2>1, <2>2
<1>11. ASSUME NEW e \in Editor, RemoveLine(e) PROVE FilesAreGenuine' /\ BasesAreGenuine'
  <2>1. edit[e].file \in Which /\ PlaceOf(e) \in Place /\ edit[e] \in EditState
    BY <1>1, LineTypes DEF EditState
  <2>2. CASE RemoveReads(e)
    <3>1. Genuine(edit[e].file, FileOf(e))
      BY <2>1 DEF FileOf, FilesAreGenuine
    <3>2. /\ \A g \in Editor \ {e} : edit'[g] = edit[g]
          /\ edit'[e].base = FileOf(e) /\ edit'[e].file = edit[e].file
      BY <1>1, <2>1, <2>2 DEF RemoveReads, EditState
    <3>3. BasesAreGenuine'
      BY <3>1, <3>2 DEF BasesAreGenuine, Genuine
    <3> QED BY <1>2, <2>2, <3>3 DEF RemoveReads
  <2>3. CASE RemoveCuts(e)
    <3>1. \A pl \in Place : \A f \in Which : text'[pl][f] = text[pl][f] \/ text'[pl][f] = {}
      BY <1>1, <2>1, <2>3 DEF RemoveCuts
    <3>2. FilesAreGenuine'
      BY <3>1 DEF FilesAreGenuine, Genuine
    <3>3. BasesAreGenuine'
      BY <1>1, <1>3, <2>1, <2>3 DEF RemoveCuts, EditState
    <3> QED BY <3>2, <3>3
  <2>4. CASE RemoveWrites(e) \/ RemoveFails(e)
    <3>1. GoesOn(e)
      BY <2>4 DEF RemoveWrites, RemoveFails
    <3>2. (\A g \in Editor \ {e} : edit'[g] = edit[g]) /\ edit'[e].base = {}
      BY <1>1, <1>5, <2>1, <3>1, RestTypes DEF GoesOn, EditState
    <3>3. Genuine(edit[e].file, Kept(e))
      BY DEF BasesAreGenuine, Genuine, Kept, RemoveLineFromFile
    <3>4. \A pl \in Place : \A f \in Which :
            text'[pl][f] = text[pl][f] \/ (f = edit[e].file /\ text'[pl][f] = Kept(e))
      <4>1. CASE RemoveFails(e)
        BY <4>1 DEF RemoveFails
      <4>2. CASE RemoveWrites(e)
        <5> DEFINE c == IF Kept(e) = {} THEN text[PlaceOf(e)][edit[e].file] ELSE Kept(e)
        <5>1. text' = [text EXCEPT ![PlaceOf(e)][edit[e].file] = c]
          BY <4>2 DEF RemoveWrites
        <5>2. \A pl \in Place : \A f \in Which :
                text'[pl][f] = IF pl = PlaceOf(e) /\ f = edit[e].file THEN c ELSE text[pl][f]
          BY <1>1, <2>1, <5>1
        <5> QED BY <5>2
      <4> QED BY <2>4, <4>1, <4>2
    <3>5. FilesAreGenuine'
      BY <3>3, <3>4 DEF FilesAreGenuine, Genuine
    <3> QED BY <1>3, <3>2, <3>5
  <2> QED BY <1>11, <2>2, <2>3, <2>4 DEF RemoveLine
<1> QED BY <1>6, <1>7, <1>8, <1>9, <1>10, <1>11 DEF Next

\* A job has found or written its line in the file that it leaves
LEMMA GoesKeeps ==
    ASSUME LinesInv, DistinctLines, AppendLooks \/ AppendWrites, Goes,
           NEW v \in Vol, NEW f \in Which, v = job.vol, f = job.file
    PROVE  Survives(v, f)'
<1>1. AgentDir \in Place /\ text \in [Place -> [Which -> Content]] /\ Entry = LineOf(v, f)
  BY LineTypes DEF LinesInv, TypeOK, FilesTyped, Entry
<1>2. CASE AppendWrites
  <2>1. LineOf(v, f) \in text'[AgentDir][f]
    BY <1>1, <1>2 DEF AppendWrites
  <2> QED BY <2>1 DEF Survives
<1>3. CASE AppendLooks
  <2>1. job \in JobState /\ job.pc = "look"
    BY <1>3 DEF AppendLooks, LinesInv, TypeOK, JobTyped
  <2>2. job' # [job EXCEPT !.pc = "append"]
    BY <2>1 DEF Goes, JobState
  <2>3. Contains(text[AgentDir][f], LineOf(v, f).key)
    BY <1>1, <1>3, <2>2 DEF AppendLooks
  <2>4. LineOf(v, f) \in text[AgentDir][f]
    BY <2>3, FoundIsOwn DEF LinesInv
  <2> QED BY <1>3, <2>4 DEF Survives, AppendLooks
<1> QED BY <1>2, <1>3

\* The job keeps what it has seen or written, through the steps of everybody
LEMMA NextJobKeepsLines ==
    ASSUME LinesInv, DistinctLines, Next, ~Restart PROVE JobKeepsLines'
<1> SUFFICES ASSUME NEW v \in Vol, job'.pc # "idle", v = job'.vol, Bystander(v)'
             PROVE  /\ job'.file = "projects" => Survives(v, "projid")'
                    /\ job'.pc = "limit" => Survives(v, "projects")'
  BY DEF JobKeepsLines
<1> USE DEF LinesInv
<1>1. job \in JobState /\ job.file \in Which /\ {"projid", "projects"} \subseteq Which
  BY DEF TypeOK, JobTyped, JobState, Which
<1>2. \A f \in Which : Survives(v, f) => Survives(v, f)'
  BY BystanderSurvives
<1>3. Bystander(v)
  BY BystanderBefore
<1>4. CASE job' = job
  BY <1>1, <1>2, <1>3, <1>4 DEF JobKeepsLines
<1>5. CASE \E w \in Vol : EnsureQuota(w)
  BY <1>5 DEF EnsureQuota
<1>6. CASE AppendLooks \/ AppendWrites
  <2>1. job.pc # "idle" /\ job.pc # "limit"
    BY <1>6 DEF AppendLooks, AppendWrites
  <2>2. v = job.vol /\ (Goes \/ job' = [job EXCEPT !.pc = "append"])
    BY <1>1, <1>6 DEF AppendLooks, AppendWrites, Goes, JobState
  <2>3. job.file = "projects" => Survives(v, "projid")'
    BY <1>1, <1>2, <1>3, <2>1, <2>2 DEF JobKeepsLines
  <2>4. CASE Goes
    <3>1. \A f \in Which : f = job.file => Survives(v, f)'
      BY <1>6, <2>2, <2>4, GoesKeeps
    <3>2. CASE job.file = "projid"
      <4>1. job'.pc = "look"
        BY <1>1, <2>4, <3>2 DEF Goes, JobState
      <4> QED BY <1>1, <3>1, <3>2, <4>1
    <3>3. CASE job.file = "projects"
      BY <1>1, <2>3, <3>1, <3>3
    <3> QED BY <1>1, <3>2, <3>3 DEF Which
  <2>5. CASE job' = [job EXCEPT !.pc = "append"]
    BY <1>1, <2>3, <2>5 DEF JobState
  <2> QED BY <2>2, <2>4, <2>5
<1>7. CASE Agent
  BY <1>4, <1>5, <1>6, <1>7 DEF Agent, JobStep, Remember, JobFails, NoJob,
                                WatchDeleted, WatchLoses, agent
<1>8. CASE ~Agent
  <2>1. job' = job
    BY <1>8 DEF Next, Cluster, Claim, Unclaim, MakeDir, RunCleanup, CommandLists,
        CommandReadsProjects, CommandReadsProjid, CommandConfirms, CommandTakes, CommandEnds,
        CommandDies, RemoveLine, RemoveReads, RemoveCuts, RemoveWrites, RemoveFails, Removal,
        FindOrphan, FindID, FindName, RemoveAll, agent
  <2> QED BY <1>4, <2>1
<1> QED BY <1>7, <1>8

\* Every step keeps the invariant
LEMMA NextLinesInv == ASSUME DistinctLines PROVE LinesInv /\ [Next]_vars => LinesInv'
<1> SUFFICES ASSUME LinesInv, [Next]_vars PROVE LinesInv'
  OBVIOUS
<1>1. TypeOK'
  BY NextTypeOK DEF LinesInv
<1>2. CASE UNCHANGED vars
  <2>1. FilesAreGenuine' /\ BasesAreGenuine' /\ JobKeepsLines' /\ BystandersKeepLines'
    BY <1>2 DEF LinesInv, vars, agent, history, FilesAreGenuine, BasesAreGenuine, Genuine,
                JobKeepsLines, BystandersKeepLines, Survives, Kept, KeyOf, Bystander
  <2> QED BY <1>1, <2>1 DEF LinesInv
<1>3. CASE Next /\ Restart
  <2>1. JobKeepsLines' /\ BystandersKeepLines'
    BY <1>3 DEF Restart, NoJob, JobKeepsLines, BystandersKeepLines
  <2> QED BY <1>1, <1>3, <2>1, GenuineStays DEF LinesInv
<1>4. CASE Next /\ ~Restart
  <2>1. ASSUME NEW v \in Vol, NEW f \in Which, PathOf(v) \in applied', Bystander(v)'
        PROVE  Survives(v, f)'
    <3>1. Bystander(v)
      BY <1>4, <2>1, BystanderBefore DEF LinesInv
    <3>2. Survives(v, f) => Survives(v, f)'
      BY <1>4, <2>1, BystanderSurvives DEF LinesInv
    <3>3. CASE PathOf(v) \in applied
      BY <3>1, <3>2, <3>3 DEF LinesInv, BystandersKeepLines, Bystander
    <3>4. CASE PathOf(v) \notin applied
      <4>1. Remember
        BY <1>4, <2>1, <3>4 DEF Next, Cluster, Claim, Unclaim, MakeDir, Agent, JobStep,
            EnsureQuota, WatchDeleted, WatchLoses, AppendLooks, AppendWrites, JobFails,
            RunCleanup, CommandLists, CommandReadsProjects, CommandReadsProjid,
            CommandConfirms, CommandTakes, CommandEnds, CommandDies, RemoveLine, RemoveReads,
            RemoveCuts, RemoveWrites, RemoveFails, Removal, FindOrphan, FindID, FindName,
            RemoveAll, agent
      <4>2. job \in JobState /\ job.file = "projects"
        BY <4>1 DEF Remember, LinesInv, TypeOK, JobTyped
      <4>3. v = job.vol
        BY <2>1, <3>4, <4>1, <4>2 DEF Remember, DistinctLines, JobState
      <4>4. Survives(v, f)
        BY <3>1, <4>1, <4>2, <4>3 DEF Remember, LinesInv, JobKeepsLines, Which
      <4> QED BY <3>2, <4>4
    <3> QED BY <3>3, <3>4
  <2>2. BystandersKeepLines'
    BY <2>1 DEF BystandersKeepLines, Bystander
  <2> QED BY <1>1, <1>4, <2>2, GenuineStays, NextJobKeepsLines DEF LinesInv
<1> QED BY <1>2, <1>3, <1>4

(***************************************************************************)
(* For volumes that share nothing and texts that do not overlap, the lines *)
(* of a volume with an entry in appliedQuotas are lost only to a removal   *)
(* meant for it, to a rewrite that met another edit, or to one that failed *)
(* or was killed between the cut and the write.                            *)
(***************************************************************************)
THEOREM BystandersAreSpared ==
  ASSUME DistinctLines PROVE Spec => []BystandersKeepLines
<1>1. LinesInv => BystandersKeepLines
  BY DEF LinesInv
<1>2. Init => LinesInv
  BY InitLinesInv
<1>3. LinesInv /\ [Next]_vars => LinesInv'
  BY NextLinesInv
<1> QED BY <1>1, <1>2, <1>3, PTL DEF Spec

-----------------------------------------------------------------------------
(***************************************************************************)
(* The cause of a removal.  RemovalsHaveCause needs that what an editor    *)
(* has in hand, an orphan's path, then its id, then its name, belongs to   *)
(* no volume without a cause: so does what it looks up next, however the   *)
(* files have changed since, because all lines are genuine.                *)
(***************************************************************************)
Cause(e, v) == v \in lacking \/ (e = Command /\ Volume[v].csi)

EditorHasCause(e) == \A v \in Vol :
    /\ edit[e].pc = "findID" /\ PathOf(v) = edit[e].path => Cause(e, v)
    /\ edit[e].pc \in {"findName", "read", "cut", "write"} /\ Volume[v].id = edit[e].id
          => Cause(e, v)
    /\ edit[e].pc \in {"read", "cut", "write"} /\ Volume[v].name = edit[e].name => Cause(e, v)

TodoHasCause == \A o \in todo, v \in Vol :
    Volume[v].id = o.id \/ Volume[v].name = o.name => Cause(Command, v)

ListHasCause ==
    edit[Command].pc = "projects" => \A v \in Vol : PathOf(v) \notin valid => Cause(Command, v)

CauseInv ==
    /\ LinesInv /\ Vol \ claimed \subseteq lacking
    /\ \A e \in Editor : EditorHasCause(e)
    /\ TodoHasCause /\ ListHasCause /\ RemovalsHaveCause

\* Nobody is in the middle of anything initially
LEMMA InitCauseInv == Init => CauseInv
<1> SUFFICES ASSUME Init PROVE CauseInv
  OBVIOUS
<1>1. \A e \in Editor : edit[e].pc = "idle"
  BY DEF Init, Rest
<1>2. Command \in Editor
  BY DEF Editor
<1>3. /\ \A e \in Editor : EditorHasCause(e)
      /\ TodoHasCause /\ ListHasCause /\ RemovalsHaveCause /\ Vol \ claimed \subseteq lacking
  BY <1>1, <1>2 DEF Init, EditorHasCause, TodoHasCause, ListHasCause, RemovalsHaveCause
<1> QED BY <1>3, InitLinesInv DEF CauseInv

\* A volume that lacked a PV once has done so ever after; claims come and go
LEMMA LackingGrows ==
    ASSUME CauseInv, [Next]_vars
    PROVE  lacking \subseteq lacking' /\ Vol \ claimed' \subseteq lacking'
<1>1. (lacking' = lacking /\ claimed' = claimed) \/ Cluster
  BY DEF Next, vars, cluster, Agent, JobStep, EnsureQuota, WatchDeleted, WatchLoses, AppendLooks,
     AppendWrites, Remember, JobFails, RunCleanup, CommandLists, CommandReadsProjects,
     CommandReadsProjid, CommandConfirms, CommandTakes, CommandEnds, CommandDies, RemoveLine,
     RemoveReads, RemoveCuts, RemoveWrites, RemoveFails, Removal, FindOrphan, FindID, FindName,
     RemoveAll, Restart
<1>2. CASE Cluster
  BY <1>2 DEF Cluster, Claim, Unclaim, MakeDir, CauseInv
<1> QED BY <1>1, <1>2 DEF CauseInv

\* What the files list under the path of volumes with a cause is their id, and what
\* they name this id is their name
LEMMA FoundHaveCause ==
    ASSUME LinesInv, DistinctLines, NEW e, NEW pl \in Place
    PROVE  /\ \A l \in text[pl]["projects"] :
                 (\A v \in Vol : PathOf(v) = l.val => Cause(e, v)) =>
                    \A v \in Vol : Volume[v].id = l.key => Cause(e, v)
           /\ \A id : (\A v \in Vol : Volume[v].id = id => Cause(e, v)) =>
                 \A v \in Vol : Volume[v].name = NameOf(text[pl]["projid"], id) => Cause(e, v)
<1>1. \A l \in text[pl]["projects"] : \E w \in Vol : l = Line(Volume[w].id, PathOf(w))
  BY DEF LinesInv, FilesAreGenuine, Genuine, Which, LineOf
<1>2. \A l \in text[pl]["projid"] : \E w \in Vol : l = Line(Volume[w].name, Volume[w].id)
  BY DEF LinesInv, FilesAreGenuine, Genuine, Which, LineOf
<1>3. \A v \in Vol : Volume[v].name # NoName
  BY VolumeAssumption, NameAssumption DEF VolumeSpec
<1>4. ASSUME NEW l \in text[pl]["projects"], \A v \in Vol : PathOf(v) = l.val => Cause(e, v),
             NEW v \in Vol, Volume[v].id = l.key
      PROVE  Cause(e, v)
  <2>1. PICK w \in Vol : l = Line(Volume[w].id, PathOf(w))
    BY <1>1
  <2>2. v = w /\ PathOf(w) = l.val
    BY <1>4, <2>1 DEF Line, DistinctLines
  <2> QED BY <1>4, <2>2
<1>5. ASSUME NEW id, \A v \in Vol : Volume[v].id = id => Cause(e, v),
             NEW v \in Vol, Volume[v].name = NameOf(text[pl]["projid"], id)
      PROVE  Cause(e, v)
  <2>1. Volume[v].name \in Names(text[pl]["projid"], id)
    BY <1>3, <1>5 DEF NameOf
  <2>2. PICK l \in text[pl]["projid"] : l.val = id /\ l.key = Volume[v].name
    BY <2>1 DEF Names
  <2>3. PICK w \in Vol : l = Line(Volume[w].name, Volume[w].id)
    BY <1>2
  <2>4. v = w /\ Volume[w].id = id
    BY <2>2, <2>3 DEF Line, DistinctLines
  <2> QED BY <1>5, <2>4
<1> QED BY <1>4, <1>5

\* An editor that has not moved keeps its cause
LEMMA CauseStays ==
    ASSUME CauseInv, [Next]_vars, NEW e \in Editor, edit'[e] = edit[e]
    PROVE  EditorHasCause(e)'
  BY LackingGrows DEF CauseInv, EditorHasCause, Cause

\* The editors that remove lines
LEMMA RemoveLineCause ==
    ASSUME CauseInv, NEW e \in Editor, Next, RemoveLine(e)
    PROVE  EditorHasCause(e)' /\ RemovalsHaveCause'
<1>1. /\ edit \in [Editor -> EditState] /\ edit[e] \in EditState
      /\ lacking' = lacking /\ EditorHasCause(e) /\ RemovalsHaveCause
  BY DEF CauseInv, LinesInv, TypeOK, EditsTyped, RemoveLine, RemoveReads, RemoveCuts,
         RemoveWrites, RemoveFails, cluster
<1>2. CASE RemoveReads(e)
  <2>1. /\ edit[e].pc = "read" /\ edit'[e].id = edit[e].id /\ edit'[e].name = edit[e].name
        /\ edit'[e].pc = "cut" /\ ordered' = ordered
    BY <1>1, <1>2 DEF RemoveReads, EditState, history
  <2> QED BY <1>1, <2>1 DEF EditorHasCause, Cause, RemovalsHaveCause
<1>3. CASE RemoveCuts(e)
  <2>1. /\ edit[e].pc = "cut" /\ edit'[e].id = edit[e].id /\ edit'[e].name = edit[e].name
        /\ edit'[e].pc = "write" /\ ordered' = ordered \cup Meant(e)
    BY <1>1, <1>3 DEF RemoveCuts, EditState
  <2>2. \A v \in Meant(e) : v \in Vol /\ Cause(e, v) /\ PlaceOf(e) = AgentDir
    BY <1>1, <2>1 DEF Meant, LineOf, Line, KeyOf, EditorHasCause, EditState, Which
  <2>3. \A v \in Meant(e) : v \in lacking \/ (Volume[v].csi /\ BaseDir = AgentDir)
    BY <2>2 DEF Cause, PlaceOf
  <2> QED BY <1>1, <2>1, <2>3 DEF EditorHasCause, Cause, RemovalsHaveCause
<1>4. CASE RemoveWrites(e) \/ RemoveFails(e)
  <2>1. GoesOn(e) /\ ordered' = ordered /\ edit[e].pc \in {"read", "cut", "write"}
    BY <1>4 DEF RemoveWrites, RemoveFails
  <2>2. \/ edit'[e].pc \in {"next", "rmdir"}
        \/ /\ edit'[e].pc = "read"
           /\ edit'[e].id = edit[e].id /\ edit'[e].name = edit[e].name
    BY <1>1, <2>1, RestTypes DEF GoesOn, EditState
  <2> QED BY <1>1, <2>1, <2>2 DEF EditorHasCause, Cause, RemovalsHaveCause
<1> QED BY <1>2, <1>3, <1>4 DEF RemoveLine

\* The lookups of RemoveOrphan
LEMMA RemovalCause ==
    ASSUME CauseInv, DistinctLines, NEW r \in Remover, Next, Removal(r)
    PROVE  EditorHasCause(r)'
<1>1. /\ edit \in [Editor -> EditState] /\ edit[r] \in EditState /\ r \in Editor
      /\ lacking' = lacking /\ EditorHasCause(r) /\ AgentDir \in Place
  BY LineTypes DEF CauseInv, LinesInv, TypeOK, EditsTyped, Editor, Removal, FindOrphan, FindID,
         FindName, RemoveAll, cluster
<1>2. ASSUME NEW v \in Vol, FindOrphan(r, v) PROVE EditorHasCause(r)'
  <2>1. /\ PathOf(v) \notin {PathOf(w) : w \in claimed}
        /\ edit'[r].pc = "findID" /\ edit'[r].path = PathOf(v)
    BY <1>1, <1>2 DEF FindOrphan, EditState
  <2>2. \A w \in Vol : PathOf(w) = PathOf(v) => w \in lacking
    BY <2>1 DEF CauseInv
  <2> QED BY <1>1, <2>1, <2>2 DEF EditorHasCause, Cause
<1>3. CASE FindID(r)
  <2>1. CASE edit' = [edit EXCEPT ![r].pc = "rmdir"]
    BY <1>1, <2>1 DEF EditorHasCause, EditState
  <2>2. CASE \E l \in text[AgentDir]["projects"] :
                 /\ l.val = edit[r].path
                 /\ edit' = [edit EXCEPT ![r].pc = "findName", ![r].id = l.key]
    <3>1. PICK l \in text[AgentDir]["projects"] :
                 /\ l.val = edit[r].path
                 /\ edit' = [edit EXCEPT ![r].pc = "findName", ![r].id = l.key]
      BY <2>2
    <3>2. edit[r].pc = "findID" /\ edit'[r].pc = "findName" /\ edit'[r].id = l.key
      BY <1>1, <1>3, <3>1 DEF FindID, EditState
    <3>3. \A v \in Vol : PathOf(v) = l.val => Cause(r, v)
      BY <1>1, <3>1, <3>2 DEF EditorHasCause
    <3>4. \A v \in Vol : Volume[v].id = l.key => Cause(r, v)
      BY <1>1, <3>3, FoundHaveCause DEF CauseInv
    <3> QED BY <1>1, <3>2, <3>4 DEF EditorHasCause, Cause
  <2> QED BY <1>3, <2>1, <2>2 DEF FindID
<1>4. CASE FindName(r)
  <2> DEFINE name == NameOf(text[AgentDir]["projid"], edit[r].id)
  <2>1. /\ edit[r].pc = "findName" /\ edit'[r].pc = "read"
        /\ edit'[r].id = edit[r].id /\ edit'[r].name = name
    BY <1>1, <1>4 DEF FindName, EditState
  <2>2. \A v \in Vol : Volume[v].id = edit[r].id => Cause(r, v)
    BY <1>1, <2>1 DEF EditorHasCause
  <2>3. \A v \in Vol : Volume[v].name = name => Cause(r, v)
    BY <1>1, <2>2, FoundHaveCause DEF CauseInv
  <2> QED BY <1>1, <2>1, <2>2, <2>3 DEF EditorHasCause, Cause
<1>5. CASE RemoveAll(r)
  BY <1>1, <1>5 DEF RemoveAll, EditorHasCause, Rest
<1> QED BY <1>2, <1>3, <1>4, <1>5 DEF Removal

\* The command
LEMMA CommandCause ==
    ASSUME CauseInv, DistinctLines, Next, RunCleanup
    PROVE  EditorHasCause(Command)' /\ TodoHasCause' /\ ListHasCause'
<1>1. /\ edit \in [Editor -> EditState] /\ edit[Command] \in EditState /\ Command \in Editor
      /\ lacking' = lacking /\ EditorHasCause(Command) /\ TodoHasCause /\ ListHasCause
      /\ BaseDir \in Place
  BY DEF CauseInv, LinesInv, TypeOK, EditsTyped, Editor, RunCleanup, CommandLists,
         CommandReadsProjects, CommandReadsProjid, CommandConfirms, CommandTakes, CommandEnds,
         CommandDies, cluster, Place
<1>2. CASE CommandLists
  <2>1. /\ edit'[Command].pc = "projects" /\ todo' = todo
        /\ valid' = {PathOf(v) : v \in {w \in claimed : ~Volume[w].csi}}
    BY <1>1, <1>2 DEF CommandLists, CommandAt, EditState
  <2>2. \A v \in Vol : PathOf(v) \notin valid' => Cause(Command, v)
    BY <2>1 DEF CauseInv, Cause
  <2> QED BY <1>1, <2>1, <2>2 DEF EditorHasCause, TodoHasCause, ListHasCause, Cause
<1>3. CASE CommandReadsProjects
  <2>1. /\ edit[Command].pc = "projects" /\ edit'[Command].pc = "projid"
        /\ todo' = {[id |-> l.key, name |-> NoName] :
                       l \in {m \in text[BaseDir]["projects"] : m.val \notin valid}}
    BY <1>1, <1>3 DEF CommandReadsProjects, CommandAt, EditState
  <2>2. ASSUME NEW o \in todo', NEW v \in Vol, Volume[v].id = o.id \/ Volume[v].name = o.name
        PROVE  Cause(Command, v)
    <3>1. PICK l \in text[BaseDir]["projects"] :
                l.val \notin valid /\ o = [id |-> l.key, name |-> NoName]
      BY <2>1
    <3>2. Volume[v].id = l.key
      BY <2>2, <3>1, VolumeAssumption, NameAssumption DEF VolumeSpec
    <3>3. \A w \in Vol : PathOf(w) = l.val => Cause(Command, w)
      BY <1>1, <2>1, <3>1 DEF ListHasCause
    <3> QED BY <1>1, <3>2, <3>3, FoundHaveCause DEF CauseInv
  <2> QED BY <1>1, <2>1, <2>2 DEF EditorHasCause, TodoHasCause, ListHasCause, Cause
<1>4. CASE CommandReadsProjid
  <2>1. /\ edit'[Command].pc = "ask"
        /\ todo' = {[o EXCEPT !.name = NameOf(text[BaseDir]["projid"], o.id)] : o \in todo}
    BY <1>1, <1>4 DEF CommandReadsProjid, CommandAt, EditState
  <2>2. ASSUME NEW o \in todo', NEW v \in Vol, Volume[v].id = o.id \/ Volume[v].name = o.name
        PROVE  Cause(Command, v)
    <3>1. PICK q \in todo : o = [q EXCEPT !.name = NameOf(text[BaseDir]["projid"], q.id)]
      BY <2>1
    <3>2. q \in Quota
      BY DEF CauseInv, LinesInv, TypeOK
    <3>3. o.id = q.id /\ o.name = NameOf(text[BaseDir]["projid"], q.id)
      BY <3>1, <3>2 DEF Quota
    <3>4. \A w \in Vol : Volume[w].id = q.id => Cause(Command, w)
      BY <1>1 DEF TodoHasCause
    <3>5. \A w \in Vol : Volume[w].name = NameOf(text[BaseDir]["projid"], q.id) => Cause(Command, w)
      BY <1>1, <3>4, FoundHaveCause DEF CauseInv
    <3> QED BY <2>2, <3>3, <3>4, <3>5
  <2> QED BY <1>1, <2>1, <2>2 DEF EditorHasCause, TodoHasCause, ListHasCause, Cause
<1>5. ASSUME NEW o \in Quota, CommandTakes(o)
      PROVE  EditorHasCause(Command)' /\ TodoHasCause' /\ ListHasCause'
  <2>1. /\ o \in todo /\ todo' \subseteq todo
        /\ edit'[Command].pc = "read" /\ edit'[Command].id = o.id /\ edit'[Command].name = o.name
    BY <1>1, <1>5 DEF CommandTakes, EditState
  <2> QED BY <1>1, <2>1 DEF EditorHasCause, TodoHasCause, ListHasCause, Cause
<1>6. CASE CommandConfirms \/ CommandEnds \/ CommandDies
  <2>1. edit'[Command].pc \in {"idle", "next"} /\ todo' \subseteq todo
    <3>1. CASE CommandConfirms
      BY <1>1, <3>1 DEF CommandConfirms, CommandAt, EditState, command
    <3>2. CASE CommandEnds \/ CommandDies
      <4>1. edit' = [edit EXCEPT ![Command] = Rest] /\ todo' = {}
        BY <3>2 DEF CommandEnds, CommandDies, CommandAt, command
      <4>2. Rest.pc = "idle"
        BY DEF Rest
      <4> QED BY <1>1, <4>1, <4>2
    <3> QED BY <1>6, <3>1, <3>2
  <2> QED BY <1>1, <2>1 DEF EditorHasCause, TodoHasCause, ListHasCause, Cause
<1> QED BY <1>2, <1>3, <1>4, <1>5, <1>6 DEF RunCleanup

\* Every step keeps the invariant behind RemovalsHaveCause
LEMMA NextCauseInv == ASSUME DistinctLines PROVE CauseInv /\ [Next]_vars => CauseInv'
<1> SUFFICES ASSUME CauseInv, [Next]_vars PROVE CauseInv'
  OBVIOUS
<1>0. LinesInv' /\ Vol \ claimed' \subseteq lacking' /\ lacking \subseteq lacking'
  BY NextLinesInv, LackingGrows DEF CauseInv
<1>1. edit \in [Editor -> EditState] /\ Command \in Editor
  BY DEF CauseInv, LinesInv, TypeOK, EditsTyped, Editor
<1>2. UNCHANGED <<valid, todo>> /\ edit'[Command] = edit[Command] => TodoHasCause' /\ ListHasCause'
  BY <1>0 DEF CauseInv, TodoHasCause, ListHasCause, Cause
<1>3. ordered' \subseteq ordered => RemovalsHaveCause'
  BY <1>0 DEF CauseInv, RemovalsHaveCause
<1>4. CASE Cluster \/ Agent \/ UNCHANGED vars
  <2>1. UNCHANGED <<edit, valid, todo, ordered>>
    BY <1>4 DEF Cluster, Claim, Unclaim, MakeDir, Agent, JobStep, EnsureQuota, WatchDeleted,
       WatchLoses, AppendLooks, AppendWrites, Remember, JobFails, vars, command, history
  <2> QED BY <1>0, <1>2, <1>3, <2>1, CauseStays DEF CauseInv
<1>5. CASE Next /\ RunCleanup
  <2>1. ordered' = ordered /\ \A e \in Editor \ {Command} : edit'[e] = edit[e]
    BY <1>1, <1>5 DEF RunCleanup, CommandLists, CommandReadsProjects, CommandReadsProjid,
       CommandConfirms, CommandTakes, CommandEnds, CommandDies, CommandAt, history
  <2> QED BY <1>0, <1>3, <1>5, <2>1, CauseStays, CommandCause DEF CauseInv
<1>6. CASE Restart
  <2>1. /\ ordered' = {} /\ UNCHANGED <<valid, todo>> /\ edit'[Command] = edit[Command]
        /\ \A e \in Editor \ {Command} : edit'[e] = Rest
    BY <1>1, <1>6 DEF Restart, command
  <2>2. \A e \in Editor \ {Command} : edit'[e].pc = "idle"
    <3>1. Rest.pc = "idle"
      BY DEF Rest
    <3> QED BY <2>1, <3>1
  <2>3. \A e \in Editor \ {Command} : EditorHasCause(e)'
    BY <2>2 DEF EditorHasCause
  <2> QED BY <1>0, <1>1, <1>2, <1>3, <2>1, <2>3, CauseStays DEF CauseInv
<1>7. ASSUME NEW e \in Editor, Next, RemoveLine(e) PROVE CauseInv'
  <2>1. UNCHANGED <<valid, todo>> /\ \A g \in Editor \ {e} : edit'[g] = edit[g]
    BY <1>1, <1>7 DEF RemoveLine, RemoveReads, RemoveCuts, RemoveWrites, RemoveFails, GoesOn, command
  <2>2. TodoHasCause' /\ ListHasCause'
    <3>1. edit'[Command] = edit[Command] \/ edit'[Command].pc # "projects"
      BY <1>1, <1>7, <2>1, RestTypes, ZenonT(30) DEF RemoveLine, RemoveReads, RemoveCuts, RemoveWrites,
         RemoveFails, GoesOn, EditState
    <3> QED BY <1>0, <2>1, <3>1 DEF CauseInv, TodoHasCause, ListHasCause, Cause
  <2> QED BY <1>0, <1>7, <2>1, <2>2, CauseStays, RemoveLineCause DEF CauseInv
<1>8. ASSUME NEW r \in Remover, Next, Removal(r) PROVE CauseInv'
  <2>1. /\ UNCHANGED <<valid, todo, ordered>> /\ \A g \in Editor \ {r} : edit'[g] = edit[g]
        /\ r # Command
    BY <1>1, <1>8, RemoverAssumption DEF Removal, FindOrphan, FindID, FindName, RemoveAll,
       command, history
  <2> QED BY <1>0, <1>1, <1>2, <1>3, <1>8, <2>1, CauseStays, RemovalCause DEF CauseInv
<1> QED BY <1>4, <1>5, <1>6, <1>7, <1>8 DEF Next

(***************************************************************************)
(* For volumes that share nothing, the loop and the requests take out the  *)
(* lines of volumes that were without a PV at some time, and the command   *)
(* those and the ones of CSI volumes: whatever list it works from, and     *)
(* however the files change between its lookups.                           *)
(***************************************************************************)
THEOREM RemovalsAreCaused ==
  ASSUME DistinctLines PROVE Spec => []RemovalsHaveCause
<1>1. CauseInv => RemovalsHaveCause
  BY DEF CauseInv
<1>2. Init => CauseInv
  BY InitCauseInv
<1>3. CauseInv /\ [Next]_vars => CauseInv'
  BY NextCauseInv
<1> QED BY <1>1, <1>2, <1>3, PTL DEF Spec
=============================================================================
