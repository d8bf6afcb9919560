------------------------------ MODULE FileEdits ------------------------------
(***************************************************************************)
(* Who edits the project files, and how: the agent adds lines              *)
(* (internal/quota/project.go, under QuotaAgent.mu), removeQuotaForPath of *)
(* internal/agent/orphan.go takes lines out (in the cleanup loop and in    *)
(* HTTP requests, without that mutex), and the cleanup command of          *)
(* internal/cleanup/cleanup.go does so from another process.  A line is    *)
(* taken out by reading the whole file and writing it anew: WriteFile      *)
(* first cuts the file to nothing.  Every read, cut and write is a step.   *)
(*                                                                         *)
(* One project file that is cut and filled again while others append to it *)
(* or do the same loses what they wrote, or brings back what they removed. *)
(***************************************************************************)
EXTENDS ProjectFiles, Naturals, FiniteSets

CONSTANTS
    Vol,        \* volumes
    Volume,     \* each with its name, id and path, and whether it is a CSI one
    NoName,     \* the empty project name
    Remover,    \* goroutines that remove orphans
    AgentDir,   \* /etc
    BaseDir,    \* --path of the cleanup command, maybe AgentDir itself
    DryRun,     \* --dry-run of the cleanup command
    MaxEvents   \* bound on changes of the cluster, commands run, failures and crashes

Command == "command"
Editor  == Remover \cup {Command}
Which   == {"projects", "projid"}
Place   == {AgentDir, BaseDir}
VolumeSpec == [name : Name, id : ID, path : Path, csi : BOOLEAN]
Lines(f) == IF f = "projid" THEN ProjidLine ELSE ProjectsLine
Content  == SUBSET (ProjidLine \cup ProjectsLine)
Quota   == [id : ID, name : Name \cup {NoName}]

ASSUME VolumeAssumption  == Vol # {} /\ Volume \in [Vol -> VolumeSpec]
ASSUME RemoverAssumption == Command \notin Remover
ASSUME NameAssumption    == NoName \notin Name \cup ID
ASSUME FlagAssumption    == DryRun \in BOOLEAN
ASSUME LimitAssumption   == MaxEvents \in Nat

VARIABLES
    text,       \* the content of both files at every place
    claimed,    \* volumes with a PV in the cluster
    lacking,    \* history: volumes that had none at some time
    dirs,       \* directories that exist
    applied,    \* the paths with an entry in appliedQuotas
    deleted,    \* volumes whose Deleted event is on its way
    job,        \* the ensureQuota that holds mu: where it is, and for which volume
    edit,       \* per editor: where it is and what it has read
    valid,      \* validPaths of the command
    todo,       \* orphans of the command
    ordered,    \* history: volumes whose lines a removal was for, since the agent started
    damage,     \* history: what rewriting did to the files, since the agent started
    events

cluster == <<claimed, lacking, dirs, deleted>>
agent   == <<applied, job>>
command == <<valid, todo>>
history == <<ordered, damage>>
vars == <<text, cluster, agent, edit, command, history, events>>

PathOf(v) == Volume[v].path
LineOf(v, f) ==
    IF f = "projid" THEN Line(Volume[v].name, Volume[v].id)
                    ELSE Line(Volume[v].id, PathOf(v))

NoJob == [pc |-> "idle", file |-> "projid", vol |-> CHOOSE v \in Vol : TRUE]
Rest == [pc |-> "idle", file |-> "projects", base |-> {},
         id |-> CHOOSE i \in ID : TRUE, name |-> NoName, path |-> CHOOSE p \in Path : TRUE]

\* An agent starts over the files that an earlier one has left
Init ==
    /\ \E left \in SUBSET Vol :
          text = [pl \in Place |-> [f \in Which |-> {LineOf(v, f) : v \in left}]]
    /\ claimed \in SUBSET Vol /\ lacking = Vol \ claimed
    /\ deleted = {} /\ applied = {}
    /\ dirs = {PathOf(v) : v \in Vol}
    /\ job = NoJob
    /\ edit = [e \in Editor |-> Rest]
    /\ valid = {} /\ todo = {}
    /\ ordered = {} /\ damage = "none"
    /\ events = 0

-----------------------------------------------------------------------------
(***************************************************************************)
(* The cluster and its users.                                              *)
(***************************************************************************)
Event == events < MaxEvents /\ events' = events + 1

Claim(v) ==
    /\ Event /\ v \notin claimed
    /\ claimed' = claimed \cup {v}
    /\ UNCHANGED <<text, lacking, dirs, deleted, agent, edit, command, history>>

Unclaim(v) ==
    /\ Event /\ v \in claimed
    /\ claimed' = claimed \ {v} /\ lacking' = lacking \cup {v}
    /\ deleted' = deleted \cup {v}
    /\ UNCHANGED <<text, dirs, agent, edit, command, history>>

MakeDir(v) ==
    /\ Event /\ PathOf(v) \notin dirs
    /\ dirs' = dirs \cup {PathOf(v)}
    /\ UNCHANGED <<text, claimed, lacking, deleted, agent, edit, command, history>>

-----------------------------------------------------------------------------
(***************************************************************************)
(* The agent.  What lies between the files and appliedQuotas is in         *)
(* QuotaAgent; here it succeeds or fails as one.                           *)
(***************************************************************************)
EnsureQuota(v) ==
    /\ job.pc = "idle"
    /\ v \in claimed /\ PathOf(v) \in dirs \ applied
    /\ job' = [pc |-> "look", file |-> "projid", vol |-> v]
    /\ UNCHANGED <<text, cluster, applied, edit, command, history, events>>

Entry == LineOf(job.vol, job.file)
Goes == job' = IF job.file = "projid" THEN [job EXCEPT !.pc = "look", !.file = "projects"]
                                      ELSE [job EXCEPT !.pc = "limit"]

\* AppendToFile reads the file, and returns when the key is in it
AppendLooks ==
    /\ job.pc = "look"
    /\ IF Contains(text[AgentDir][job.file], Entry.key)
       THEN Goes ELSE job' = [job EXCEPT !.pc = "append"]
    /\ UNCHANGED <<text, cluster, applied, edit, command, history, events>>

\* O_APPEND: to whatever is in the file by now
AppendWrites ==
    /\ job.pc = "append"
    /\ text' = [text EXCEPT ![AgentDir][job.file] = @ \cup {Entry}]
    /\ Goes
    /\ UNCHANGED <<cluster, applied, edit, command, history, events>>

Remember ==
    /\ job.pc = "limit"
    /\ applied' = applied \cup {PathOf(job.vol)}
    /\ job' = NoJob
    /\ UNCHANGED <<text, cluster, edit, command, history, events>>

\* Mutant: the limit is remembered when the project could not be added
JobFailsRemembering ==
    /\ Event /\ job.pc # "idle"
    /\ applied' = applied \cup {PathOf(job.vol)}
    /\ job' = NoJob
    /\ UNCHANGED <<text, cluster, edit, command, history>>

JobFails ==
    /\ Event /\ job.pc # "idle"
    /\ job' = NoJob
    /\ UNCHANGED <<text, cluster, applied, edit, command, history>>

WatchDeleted(v) ==
    /\ v \in deleted /\ job.pc = "idle"
    /\ deleted' = deleted \ {v}
    /\ applied' = applied \ {PathOf(v)}
    /\ UNCHANGED <<text, claimed, lacking, dirs, job, edit, command, history, events>>

WatchLoses(v) ==
    /\ Event /\ v \in deleted
    /\ deleted' = deleted \ {v}
    /\ UNCHANGED <<text, claimed, lacking, dirs, agent, edit, command, history>>

-----------------------------------------------------------------------------
(***************************************************************************)
(* RemoveLineFromFile, by any editor.                                      *)
(***************************************************************************)
PlaceOf(e) == IF e = Command THEN BaseDir ELSE AgentDir
FileOf(e)  == text[PlaceOf(e)][edit[e].file]
KeyOf(e)   == IF edit[e].file = "projects" THEN edit[e].id ELSE edit[e].name

\* Mutant: the prefix of a line goes without its colon, and may be empty
KeptWithoutColon(e) == {l \in edit[e].base : KeyOf(e) # NoName /\ l.key # KeyOf(e)}

Kept(e) == RemoveLineFromFile(edit[e].base, KeyOf(e))

\* The volumes whose line an editor takes out of the agent's files
Meant(e) == {v \in Vol : PlaceOf(e) = AgentDir /\ LineOf(v, edit[e].file).key = KeyOf(e)}

\* What a write does to the history: it met another edit, or it did not
Rewrote(e, clash) ==
    damage' = IF PlaceOf(e) # AgentDir THEN damage
              ELSE IF clash \/ damage = "spoilt" THEN "spoilt" ELSE "rewritten"

RemoveReads(e) ==
    /\ edit[e].pc = "read"
    /\ edit' = [edit EXCEPT ![e].pc = "cut", ![e].base = FileOf(e)]
    /\ UNCHANGED <<text, cluster, agent, command, history, events>>

RemoveCuts(e) ==
    /\ edit[e].pc = "cut"
    /\ text' = [text EXCEPT ![PlaceOf(e)][edit[e].file] = {}]
    /\ edit' = [edit EXCEPT ![e].pc = "write"]
    /\ ordered' = ordered \cup Meant(e)
    /\ Rewrote(e, FileOf(e) # edit[e].base)
    /\ UNCHANGED <<cluster, agent, command, events>>

\* removeQuotaForPath goes on with the projid file if it knows the name, the
\* command in any case; then come RemoveAll and the next orphan
GoesOn(e) ==
    edit' = [edit EXCEPT ![e] =
        IF @.file = "projects" /\ (e = Command \/ @.name # NoName)
        THEN [@ EXCEPT !.pc = "read", !.file = "projid", !.base = {}]
        ELSE IF e = Command THEN [Rest EXCEPT !.pc = "next"]
        ELSE [Rest EXCEPT !.pc = "rmdir", !.path = edit[e].path]]

\* The lines go to the start of the file, over what was appended since the
\* cut; when no line is left, nothing is written
RemoveWrites(e) ==
    /\ edit[e].pc = "write"
    /\ text' = [text EXCEPT ![PlaceOf(e)][edit[e].file] =
                    IF Kept(e) = {} THEN @ ELSE Kept(e)]
    /\ GoesOn(e)
    /\ Rewrote(e, FileOf(e) # {})
    /\ UNCHANGED <<cluster, agent, command, ordered, events>>

\* Without an effect, or after the cut; both callers carry on
RemoveFails(e) ==
    /\ Event /\ edit[e].pc \in {"read", "cut", "write"}
    /\ GoesOn(e)
    /\ IF edit[e].pc = "write" THEN Rewrote(e, TRUE) ELSE UNCHANGED damage
    /\ UNCHANGED <<text, cluster, agent, command, ordered>>

-----------------------------------------------------------------------------
(***************************************************************************)
(* RemoveOrphan.  The path was an orphan when findOrphans looked.          *)
(***************************************************************************)
FindOrphan(r, v) ==
    /\ edit[r].pc = "idle"
    /\ PathOf(v) \in dirs \ {PathOf(w) : w \in claimed}
    /\ edit' = [edit EXCEPT ![r].pc = "findID", ![r].path = PathOf(v)]
    /\ UNCHANGED <<text, cluster, agent, command, history, events>>

FindID(r) ==
    /\ edit[r].pc = "findID"
    /\ LET own == {l \in text[AgentDir]["projects"] : l.val = edit[r].path} IN
       \/ own = {} /\ edit' = [edit EXCEPT ![r].pc = "rmdir"]
       \/ \E l \in own :
             edit' = [edit EXCEPT ![r].pc = "findName", ![r].id = l.key]
    /\ UNCHANGED <<text, cluster, agent, command, history, events>>

\* Mutant: a missing name is replaced by the id
NameOfOrID(file, id) ==
    LET names == {l.key : l \in {m \in file : m.val = id}}
    IN  IF names = {} THEN id ELSE CHOOSE n \in names : TRUE

\* The names a projid file knows for an id
Names(file, id) == {l.key : l \in {m \in file : m.val = id}}
NameOf(file, id) ==
    IF Names(file, id) = {} THEN NoName ELSE CHOOSE n \in Names(file, id) : TRUE

FindName(r) ==
    /\ edit[r].pc = "findName"
    /\ edit' = [edit EXCEPT ![r].pc = "read",
                   ![r].name = NameOf(text[AgentDir]["projid"], edit[r].id)]
    /\ UNCHANGED <<text, cluster, agent, command, history, events>>

RemoveAll(r) ==
    /\ edit[r].pc = "rmdir"
    /\ dirs' = dirs \ {edit[r].path}
    /\ edit' = [edit EXCEPT ![r] = Rest]
    /\ UNCHANGED <<text, claimed, lacking, deleted, agent, command, history, events>>

-----------------------------------------------------------------------------
(***************************************************************************)
(* RunCleanup.  Only the paths of NFS volumes count as valid.              *)
(***************************************************************************)
CommandAt(p) == edit' = [edit EXCEPT ![Command].pc = p]

\* Mutant: a list that fails is taken for an empty one
CommandListsOrNone ==
    /\ Event /\ edit[Command].pc = "idle"
    /\ valid' \in {{}, {PathOf(v) : v \in {w \in claimed : ~Volume[w].csi}}}
    /\ CommandAt("projects")
    /\ UNCHANGED <<text, cluster, agent, todo, history>>

CommandLists ==
    /\ Event /\ edit[Command].pc = "idle"
    /\ valid' = {PathOf(v) : v \in {w \in claimed : ~Volume[w].csi}}
    /\ CommandAt("projects")
    /\ UNCHANGED <<text, cluster, agent, todo, history>>

CommandReadsProjects ==
    /\ edit[Command].pc = "projects"
    /\ todo' = {[id |-> l.key, name |-> NoName] :
                    l \in {m \in text[BaseDir]["projects"] : m.val \notin valid}}
    /\ CommandAt("projid") /\ valid' = {}
    /\ UNCHANGED <<text, cluster, agent, history, events>>

CommandReadsProjid ==
    /\ edit[Command].pc = "projid"
    /\ todo' = {[o EXCEPT !.name = NameOf(text[BaseDir]["projid"], o.id)] : o \in todo}
    /\ CommandAt("ask")
    /\ UNCHANGED <<text, cluster, agent, valid, history, events>>

\* --force, or a yes to the question, whenever it comes
CommandConfirms ==
    /\ edit[Command].pc = "ask" /\ todo # {} /\ ~DryRun
    /\ CommandAt("next")
    /\ UNCHANGED <<text, cluster, agent, command, history, events>>

CommandTakes(o) ==
    /\ edit[Command].pc = "next" /\ o \in todo
    /\ todo' = todo \ {o}
    /\ edit' = [edit EXCEPT ![Command].pc = "read", ![Command].id = o.id, ![Command].name = o.name]
    /\ UNCHANGED <<text, cluster, agent, valid, history, events>>

CommandEnds ==
    /\ \/ edit[Command].pc = "ask"
       \/ edit[Command].pc = "next" /\ todo = {}
    /\ edit' = [edit EXCEPT ![Command] = Rest]
    /\ todo' = {}
    /\ UNCHANGED <<text, cluster, agent, valid, history, events>>

\* Interrupted, or an error in a read
CommandDies ==
    /\ Event /\ edit[Command].pc # "idle"
    /\ edit' = [edit EXCEPT ![Command] = Rest]
    /\ valid' = {} /\ todo' = {}
    /\ IF edit[Command].pc = "write" THEN Rewrote(Command, TRUE) ELSE UNCHANGED damage
    /\ UNCHANGED <<text, cluster, agent, ordered>>

-----------------------------------------------------------------------------
\* The agent's process takes its removals with it; a file may stay cut
Restart ==
    /\ Event
    /\ applied' = {} /\ deleted' = {} /\ job' = NoJob
    /\ edit' = [e \in Editor |-> IF e = Command THEN edit[e] ELSE Rest]
    /\ ordered' = {} /\ damage' = "none"
    /\ UNCHANGED <<text, claimed, lacking, dirs, command>>

Cluster == \E v \in Vol : Claim(v) \/ Unclaim(v) \/ MakeDir(v)
JobStep == AppendLooks \/ AppendWrites \/ Remember \/ JobFails
Agent ==
    \/ \E v \in Vol : EnsureQuota(v) \/ WatchDeleted(v) \/ WatchLoses(v)
    \/ JobStep
RemoveLine(e) == RemoveReads(e) \/ RemoveCuts(e) \/ RemoveWrites(e) \/ RemoveFails(e)
Removal(r) ==
    \/ \E v \in Vol : FindOrphan(r, v)
    \/ FindID(r) \/ FindName(r) \/ RemoveAll(r)
RunCleanup ==
    \/ CommandLists \/ CommandReadsProjects \/ CommandReadsProjid \/ CommandConfirms
    \/ (\E o \in Quota : CommandTakes(o)) \/ CommandEnds \/ CommandDies

Next ==
    \/ Cluster \/ Agent \/ RunCleanup \/ Restart
    \/ \E e \in Editor : RemoveLine(e)
    \/ \E r \in Remover : Removal(r)

\* The periodic sync comes back to every volume, and a job runs to its end
Fairness ==
    /\ WF_vars(\E v \in Vol : EnsureQuota(v))
    /\ WF_vars(AppendLooks \/ AppendWrites \/ Remember)

Spec == Init /\ [][Next]_vars /\ Fairness

-----------------------------------------------------------------------------
JobState  == [pc : {"idle", "look", "append", "limit"}, file : Which, vol : Vol]
EditState == [pc : {"idle", "findID", "findName", "rmdir", "projects", "projid",
                    "ask", "next", "read", "cut", "write"},
              file : Which, base : Content, id : ID, name : Name \cup {NoName}, path : Path]

FilesTyped ==
    /\ text \in [Place -> [Which -> Content]]
    /\ \A pl \in Place : \A f \in Which : text[pl][f] \subseteq Lines(f)

EditsTyped ==
    /\ edit \in [Editor -> EditState]
    /\ \A e \in Editor : edit[e].base \subseteq Lines(edit[e].file)

JobTyped == job \in JobState /\ (job.pc = "limit" => job.file = "projects")

\* Every variable has its type; a file and what is read of it have its lines only
TypeOK ==
    /\ FilesTyped /\ EditsTyped /\ JobTyped
    /\ claimed \subseteq Vol /\ lacking \subseteq Vol /\ deleted \subseteq Vol /\ ordered \subseteq Vol
    /\ dirs \subseteq Path /\ applied \subseteq Path /\ valid \subseteq Path
    /\ todo \subseteq Quota
    /\ damage \in {"none", "rewritten", "spoilt"}
    /\ events \in 0..MaxEvents

\* Different volumes share nothing, and no text is part of another: what
\* QuotaAgent calls DistinctVolumes and SeparateTexts.
DistinctLines ==
    /\ \A v, w \in Vol : v # w =>
          /\ PathOf(v) # PathOf(w)
          /\ Volume[v].name # Volume[w].name
          /\ Volume[v].id # Volume[w].id
    /\ Within = {} /\ Name \cap ID = {} /\ ID \cap Path = {}

\* The line is in the agent's file, or in the hands of an editor that has cut
\* the file and is about to write it again.
Survives(v, f) ==
    \/ LineOf(v, f) \in text[AgentDir][f]
    \/ \E e \in Editor :
          /\ PlaceOf(e) = AgentDir
          /\ edit[e].pc = "write" /\ edit[e].file = f
          /\ LineOf(v, f) \in Kept(e)

\* A volume that appliedQuotas has keeps its lines in both files through all
\* that others add, look up and remove, unless a removal was for that volume
\* or a rewrite met another edit or failed half-way: nothing but a race or a
\* torn write takes away the lines of a bystander.
BystandersKeepLines ==
    \A v \in Vol :
        (PathOf(v) \in applied /\ v \notin ordered /\ damage # "spoilt")
            => \A f \in Which : Survives(v, f)

\* The lines of a volume are taken out, race or not, only if it was without a PV
\* at some time; the command, whose list has the native volumes only, takes those
\* of any CSI volume.  Stale lists and files that change between the lookups of
\* an id and of its name never turn a removal against anyone else.
RemovalsHaveCause ==
    \A v \in ordered : v \in lacking \/ (Volume[v].csi /\ BaseDir = AgentDir)

Listed(v) == \A f \in Which : LineOf(v, f) \in text[AgentDir][f]

\* A restarted agent repairs what earlier edits and crashes left of the files:
\* if nobody rewrites them from then on, every volume with a PV and a directory
\* ends up in both.
RestartHeals ==
    <>[](damage = "none") =>
        <>[](\A v \in claimed : PathOf(v) \in dirs => Listed(v))
=============================================================================
