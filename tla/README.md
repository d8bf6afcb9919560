# A specification of nfs-quota-agent

TLA+ modules that model the agent's own logic, TLC configurations that check
them on small instances, and TLAPS proofs of what they keep for every instance.
`PROJECT.json` maps each definition to the lines it stands for.

## 1. The system

nfs-quota-agent runs on an NFS server next to Kubernetes. It reads the
PersistentVolumes (PVs) of the cluster, gives the directory of each bound volume
a project quota of the volume's capacity, and writes back whether that worked.
Around this core it finds and removes directories no PV points at, keeps an
audit log and a usage history, and serves a web UI and metrics.

| Component | State it keeps | Operations | Module |
|---|---|---|---|
| Quota synchronisation (`agent/agent.go`, `watch.go`) | `appliedQuotas` under `mu`; the status annotation of each PV | initial and periodic sync, PV watch, `ensureQuota` | `QuotaAgent` |
| Back ends (`quota/xfs.go`, `ext4.go`) | the kernel's limits, the directories' project ids | `ApplyXFSQuota`, `ApplyExt4Quota` | `QuotaAgent` |
| Project files (`quota/project.go`) | `/etc/projects`, `/etc/projid` | `AddProject`, `AppendToFile`, `RemoveLineFromFile` | `ProjectFiles`, `FileEdits` |
| Orphan cleanup (`agent/orphan.go`) | `orphanLastSeen` under `orphanMu` | `findOrphans`, `cleanupOrphans`, `RemoveOrphan` | `OrphanCleanup`, `FileEdits` |
| Orphan handlers of the UI (`ui/server.go`) | none | list and delete orphans | `OrphanCleanup` |
| Usage history (`history/store.go`) | entries under an RWMutex, the history file | `Record`, `save`, `load`, `Query`, `GetTrend`, `GetAllTrends`, `GetHistoryStats` | `HistoryStore` |
| Audit log (`audit/logger.go`, `filter.go`) | the open log under a mutex, rotated files | `Log`, rotation, `QueryLog` | `AuditLog` |
| Namespace policy (`policy/`) | none; one request's policies | effective policy, all policies, violations | `NamespacePolicy`, `Dashboard` |
| Usage and quota reports (`status/`, `quota/report.go`), read-only UI handlers | none; one request's tables | `GetDirUsages`, `Get*QuotaReport`, `getPVInfoMap` | `UsageReport`, `Dashboard` |
| Metrics (`metrics/metrics.go`) | the text and its age under a mutex | `handleMetrics`, `updateMetrics` | `MetricsCollector`, `Dashboard` |
| Cleanup command (`cleanup/cleanup.go`) | none; edits the project files | one pass | `FileEdits` |
| Detection, CLI, completion, printing | none | parsing, formatting, wiring | not modelled |

**How they interact.** The sync goroutine and the watch goroutine both call
`ensureQuota`, which runs as a whole under `mu`; it calls the back end, which
edits the project files and runs external commands, then the audit log, then
writes the annotation through the API server, which in turn sends the watch an
event. The cleanup loop and each delete request call `findOrphans` and
`RemoveOrphan` without `mu`: they share the project files and the directories
with the quota side, and `orphanLastSeen` with one another. The cleanup command
is a process of its own that edits project files too. The history goroutine
calls `Record`; UI requests read the store. UI requests and the audit command
read the audit log's file with no lock. The policy pages ask the API server in
many calls; the usage pages run the quota command, read the project files, scan
the directories and list the PVs, one after the other, while all of these change.
The metrics endpoint does the same under its own mutex and then waits for `mu`.

**What is hard about it.** Objects are used after they were read: a listing is
worked through while events bring newer versions, the status is written to
whatever PV has the name by then, a directory is removed some time after it was
compared with a PV list. Everything in memory is lost by a restart while the
files, the kernel's limits and the directories stay. Commands fail half-way and
nothing is rolled back. Two files are read, cut and written again by several
goroutines and processes without a lock. Watches end and lose events. Two locks are given back in
the middle of an operation or taken twice. `PROJECT.json` lists these hazards at
their lines, with the property that would notice, or why none does yet.

**What makes each part correct.** *Quota*: what the agent remembers is enforced,
listed and truthfully reported at every moment, and in the end every bound volume
is held to its present capacity. *Orphans*: only what no known PV claims is
removed, by the loop only after a full grace period, and in the end all of it is.
*Project files*: whoever edits them leaves the lines of others alone, and what a
race or a crash destroys is repaired once the agent restarts, not before.
*History*: the file follows the memory, a crash costs one snapshot, a request
sees one history and returns. *Audit*: no accepted entry is lost, the entries are
true, a query ends with a complete answer. *Policy and reports*: an answer put
together of many reads shows nothing that never stood, and is exact when nothing
changes meanwhile. *Metrics*: the text served is not older than promised, and
every scrape returns.

## 2. The modules

### ProjectFiles
A file is a set of lines `[key, val]`. `AppendToFile` skips an entry whose search
key occurs anywhere in the text; which texts occur in which is the constant
`Within`, so that the substring search is modelled without characters.

### QuotaAgent
State: the cluster (`api`, `status`, `dir`), the disk (`tag`, `limit`, `projid`,
`projects`, the last `audit` entry), the agent's memory (`applied`), the mutex
`mu` with the `job` its holder is at, what each goroutine has still to do
(`todo`), the watch (`conn`, `events`).

`SyncList`/`SyncNext` are one `syncAllQuotas`; the items of a listing are taken
in any order, which includes the code's. `GoWatch` is the `go a.watchPVs` of
`Run`; `WatchStart`, `WatchInitial`, `WatchSet`, `WatchDeleted`, `WatchBreaks` are
the loop of `watchPVs`. `EnsureQuota` is the head of `ensureQuota` with its early
returns. The rest of it is cut where an effect outlives a crash: `AddProjid`,
`AddProjects`, `InitProject` (or `InitProjectTolerated`, ext4's logged failure),
`SetLimit` with the audit entry and the map entry, or `ApplyFails`, and at last
`UpdateQuotaStatus` or its failure. A crash inside `SetLimit` would lose memory,
which the crash clears anyway, and at most the audit entry. Between two of these the cluster moves on and
`Restart` may strike; other goroutines stay out, as `mu` is held. The PV objects,
the watch stream and the provisioner are external: they are modelled from how the
code uses them. A project's name, id and path are constants of a volume.

The module stands for the agent with auto-cleanup off, its default: nobody
removes project lines.

### QuotaTable
What the agent promises, without projects, files, locks, events and crashes. The
cluster asks for a capacity (`Ask`) and withdraws a volume (`Withdraw`); `want` is
what it wants now, `asked` what it has asked for and what has not lapsed. A capacity
lapses at any time once it is no longer wanted, and comes back only if the cluster
asks for it anew. The limit of a volume is set and remembered in one step, to a
capacity in `asked` (`Set`), memory may be forgotten (`Forget`), and a report is
made of a wanted volume, "applied" only over a limit (`Say`). `QuotaAgent`
instantiates it as `Table`: `want` is the capacity of the PV, the table is the
kernel's `limit`, `memo` is `applied`, `report` is `status`, and `Asked` collects the
capacities of the current PVs, of the watch's events, of the listings being worked
through and of the job that holds `mu`. Every step of `QuotaAgent` is one of its
steps or a stutter: this is the property `ImplementsTable`. Since no step of the
agent's is an `Ask`, nothing but a PV can bring a capacity into a job, an event or a
listing: it rules out a limit the cluster never gave, one that had been replaced and
was then in nobody's hands, an annotation or an entry that changes or outlives what
it is about, and half of an update. (Its mutants take a default capacity for an
object without one, and write the annotation with the old object, which puts the
old capacity back.) It does not rule out that an older object still in hand
is applied after a newer one: the code does that, and `Converges` says that it is
made good.

### OrphanCleanup
State: which directories PVs claim, which exist and are listed, `orphanLastSeen`
as the age of each entry, where each goroutine is, with the PV list it works from
(`valid`), what the loop has found, and what is being removed. Ages replace the
clock: they stop at `Grace`, beyond which the code does not distinguish. A history
variable, `noticed` (time since this process first reported a directory), exists
for the properties only.

`Begin` is `findOrphans` up to its lock, `Find` the part under it; `LoopFinds`,
`GetFinds` and `PostFinds` are its three callers. `RemoveQuota`, `RemoveAll` (or
`RemoveAllFails`, which leaves any part of the children behind) and
`ForgetOrphan` are `RemoveOrphan`.

### Cleaner
What orphan cleanup promises, without PV lists, tables of ages and requests: a
cleaner leaves everything alone until it has looked at what is claimed (`Look`),
reports places it did not find claimed (`Report`), and orders one of them to be
removed, at once or, if it is patient, when the report is `Wait` old (`Order`); a
line or a place disappears by its doing only on such an order (`Unlist`, `Remove`).
`OrphanCleanup` instantiates it as `Promise`, with the goroutines as cleaners, of
which the loop is patient: `kept` is `valid` during a round and everything outside
of one, `order` is `target` until `RemoveAll` has returned, `notice` is `noticed`.
Every step of `OrphanCleanup` is one of its steps or a stutter: this is the property
`ImplementsCleaner`. It rules out a removal with the PV list of an earlier round, a
removal of more than was ordered, and an order before its time or in dry-run.

### FileEdits
`QuotaAgent` edits the files in whole operations and nobody takes lines out
there; `OrphanCleanup` takes them out in one step. Here every read, cut and write
of a file is a step, and the rest of the agent is short. State: the `text` of both
files at both places (`AgentDir` is /etc, `BaseDir` the command's `--path`), the
cluster (`claimed`, `dirs`, `deleted`), the keys of `appliedQuotas` (`applied`),
the `job` that holds `mu`, and where each editor is and what it has read (`edit`).
`ordered`, `damage` and `lacking` (volumes that had no PV at some moment) are
history for the properties.

`EnsureQuota` to `Remember` or `JobFails` are `ensureQuota`, with the two looks and
the two appends of `AddProject` apart. `RemoveReads`, `RemoveCuts`, `RemoveWrites`
and `RemoveFails` are `RemoveLineFromFile`: `os.WriteFile` cuts the file and then
writes at its start, over whatever was appended in between. `FindOrphan`,
`FindID`, `FindName` and `RemoveAll` are `RemoveOrphan` with `removeQuotaForPath`,
`CommandLists` to `CommandEnds` are `RunCleanup`, up to the question and after it,
and `CommandDies` is its interruption. `Restart` takes the agent's goroutines away
wherever they are, also between a cut and a write.

### HistoryStore
The recorder's steps are `Record` cut at its three locks and at the rename of the
saved file; `LockAsk`/`LockGet`, `RLock` and `RUnlock` are a `sync.RWMutex` as Go
implements it: a waiting writer keeps every new reader out. A call is its depth of
nested read locks and the number of innermost calls left. `History` and
`ChangeBase` are the entries of a path and the one that `calculateChange` compares
the newest with; their ages count snapshots. `Filtered` is the loop that collects the
entries to keep.

### AuditLog
`LogBegins` takes the mutex and decides on rotation; `RotateRenames`,
`RotateOpens`, `RotateFails`, `LogWrites`, `LogFails` follow the code. A file is
a sequence of entry numbers and `Torn` pieces. `QueryOpens`, `QueryReads`,
`QueryEnds` are `QueryLog`, which keeps a file it has open when that is renamed;
`Answer` is what the API makes of the result. A `Torn` piece disables
`QueryReads`: the code repeats the same failing call there. The program builds its
logger without a `MaxFileSize` (`main.go:263`) and never uses `DefaultConfig`, so the
agent as wired does not rotate: its value is `MaxFileSize = 0`. The run has another
one and checks the package, with rotation; the theorems hold for both. What is lost
after a failed rotation, until a restart, was never accepted: `Log` returns an
error, which its callers ignore.

### NamespacePolicy
A request is a row of calls to the API server. `ListVolumes` begins
`GetViolations`, `ListAllRanges`, `ListAllQuotas` and `ListAllNotes`
`GetAllNamespacePolicies`; both then look up namespaces one by one: `LookUp`,
`GetRanges`, `GetQuotas`, `GetNotes` are `GetNamespacePolicy`, `Judge` the checks
of one volume. Between any two calls the cluster may change, and `CallFails` lets
any of them fail, which the code takes for an empty answer except for the list of
PVs. `FirstClaimLimit` and `FromRanges` are the loop over the LimitRanges,
`FromNotes` and `ParseQuotaSize` what becomes of the annotations. `stood` and
`trouble` are history for the properties.

### UsageReport
`RunsCommand`, `ReadsProjid`, `ReadsProjects` are `GetXFSQuotaReport` and
`GetExt4QuotaReport` (which needs no `projid`), `ReadsBase`, `LooksInto`,
`Measures` the rest of `GetDirUsages`, `ListsOwners` is `getPVInfoMap`; each has
its failure next to it. `World` is everything that changes meanwhile: the project
files edited line by line, limits, usage, directories and PVs. A row of the
command's table carries the label it is printed with, a name or an id, from which
`PathsXFS` and `PathsExt4` look up a path as the code does. The agent and the page
derive a PV's directory by code of their own (`getNFSPath` and `getPVInfoMap`), so a
volume has two: `path`, where its project is, and `uiPath`, where the page looks,
which is another one or none for some CSI volumes. `client` says whether the page has
a client of the API server at all; without one `ListsOwners` finds no PV. `wasLimit`
and `upset` are histories of what held since the report began.

### MetricsCollector
`Lock`, `Collect`, `Count`, `Serve` are `handleMetrics` with `updateMetrics`:
what has been read, the wait for the agent's mutex (`AgentLocks`, `AgentUnlocks`
stand for `ensureQuota`), the new text with its time, the answer. `age` is the time
since `lastUpdate`, `lag` the time since the update behind the text began to read.

### Dashboard
The three modules above, side by side as in `StartServer` and the metrics server.
The pages share nothing that any of them writes, so that a behaviour of `Dashboard`
is one of a single `page`. Nothing of a request outlives it either, except in the
collector: one request, begun in any state, stands for all of its kind.

The `MC*` modules only define values for the constants.

## 3. The runs

| Run | Question | Instance |
|---|---|---|
| `quota_safety` | Is what the agent remembers, reports and logs what the kernel enforces? | ext4, a native and a CSI volume, two capacities (512 bytes, which is rounded up, and 2 KB), 4 cluster changes, 1 fault |
| `quota_converges` | Is the agent a table of limits, and is the present capacity enforced in the end? | XFS, one volume, 4 changes, 2 faults |
| `quota_rebuilt` | The same, if a directory may be made again | as before, no fault |
| `quota_digits` | Is every tracked path in the project files, if texts overlap? | two volumes, one id inside the other |
| `orphan_reclaim` | Is the agent a cleaner, is only what is unclaimed removed, with notice, and all of it in the end? | a directory with a subdirectory, a hidden one, the loop, one request at a time, 3 changes, 1 fault |
| `orphan_data_in_use` | Does the data of a claimed directory survive? | the loop alone |
| `edits_safety` | Do edits of the project files spare the lines of others, does each removal have a cause, and does a restart repair the files? | a native and a CSI volume, the loop and the cleanup command on the agent's own files, 2 events |
| `history_safety` | Does the file follow the memory, do the oldest go first, does a change cover its period, does a call see one history? | 3 snapshots of up to 2 paths, 2 requests, limit of 3 entries, trends over 2 snapshots, 2 faults |
| `history_trends` | Does every call return? | 1 request |
| `audit_safety` | Is every accepted entry kept, every finished query complete? | 10 entries, files of 3, 2 faults |
| `audit_malformed` | Does every query end? | 4 entries, 1 torn write |
| `dashboard` | Do policies, violations and usage pages show what stood, and exactly that if nothing changes; are metrics fresh, does every scrape return? | 2 namespaces and 2 volumes, 2 changes; 2 volumes with a project in a tree of 4 directories, 2 changes; 2 scrapers, an update of up to 2 ticks |

**Bounds.** They bound the environment and the number of faults, never the
agent's own steps. Four cluster changes are enough to create a volume and its
directory, change it and take one of them away, in any order and between any two
steps of the agent; one fault is enough for each single point of failure, and the
one-volume run has two, so that a retry can fail too. The capacities are chosen
on both sides of the rounding to 1 KB. `Grace = 1` distinguishes "just seen" from
"due"; more would only repeat `Tick`. Three changes let a directory with a
subdirectory be made and claimed, or made, claimed and released. Three snapshots
of up to two paths against a limit of three entries and a retention of two make
both bite, and leave trends with gaps and with too short a history. In
`edits_safety` one bound, `MaxEvents`, covers cluster changes, runs of the command,
failures and crashes together: two of them are a run of the command with a failure
in any step, or a volume that comes or goes in the middle of it. The instance has
`BaseDir = AgentDir` (links, or `--path=/etc`), without which the command does not
meet the agent at all, and starts with files of any set of volumes and a PV for
the native one. Ten
entries against files of three rotate thrice, in one second and in different
ones. In `dashboard` two changes during one request let a limit come and go
between two of its calls, or a line be edited in either file; the LimitRanges have
a limit that is not for claims in front of two that are; usage lies on both sides
of 90 and 100 percent; a volume sits at the top, the other in a namespace's
directory next to a hidden one, and is a CSI volume whose share the page takes for
its path; the instance's start fixes what symmetric volumes
would only repeat. Reports that nothing disturbs start in many more states, of limits,
usage, PVs and file systems, with and without a client, than those in which changes
are to come. `Fresh = 2` and updates of two ticks let the reading outlast
the freshness. What holds for every bound is proved (section 5), except liveness.

**Violations.** Several statements in comments and documents do not hold of
the code; each `violation` run shows one shortest history, and `findings` in
`PROJECT.json` quotes the statement.
1. `quota_rebuilt`: a directory that was deleted and made again under the same
   path is never given its project id again: `appliedQuotas` has the capacity.
2. `quota_digits`: `AppendToFile` takes an id inside another text for its line.
3. `orphan_data_in_use`: subdirectories inside a claimed top-level directory are
   orphans.
4. `history_trends`: nested read locks deadlock with a waiting `Record`.
5. `audit_malformed`: after a torn line the decoder's error never goes away.

More disagreements are plain from one line and have no run.
- The delete handler of the UI ignores the grace period that
  `docs/feature-guide.md:69` speaks of (`ui/server.go:462`).
- The cleanup command, for "no matching PV" (`main.go:58`), takes the lines of every
  CSI volume (`cleanup/cleanup.go:89`): `RemovalsHaveCause` names this exception.
- The quotas page shows directories the agent has limited as orphaned: all of them in
  the `ui` command, which has no client (`ui/server.go:204`, `main.go:424`); those of
  CSI volumes if the agent's provisioner is not `nfs.csi.k8s.io` (`server.go:220`,
  `agent.go:280`); and those of CSI volumes with a share and no `subDir`, which the
  agent puts under the PV's name and the page does not (`server.go:221`,
  `agent.go:317`). `UsageReport` has all three.
- The audit log never rotates (`main.go:263`), though the package can.

**What the properties leave out.** Some hold because they exempt what the code
cannot or does not prevent: `BystandersKeepLines` a race of two rewrites and a torn
write (`damage`; `RestartHeals` is about these), `TrackedIsEnforced` a directory whose
chattr failed, `SavedHistoryIsCurrent` a history that could not be loaded,
`LimitRangesComeFirst` a request with a failed call, `LoopGivesNotice` a directory
claimed between its first report and its removal. The hazards concerned are in
`PROJECT.json` without a property and with this reason.

## 4. Fairness

Only what Go's scheduler, its timers and the kernel provide is assumed.
`QuotaAgent`: weak fairness of each goroutine's steps; the ticker of the sync
fires for ever, a broken watch is started again, and whoever holds `mu` goes on.
No order in which `mu` is handed over is assumed. Cluster changes, faults,
restarts and requests are never forced. `OrphanCleanup`: time passes and the
loop's goroutine goes on. `FileEdits`: the periodic sync comes back to every
volume, and a job that holds `mu` runs to its end. `HistoryStore`: goroutines go on, and a reader that
finds the lock free again and again gets it (Go lets the readers that wait in
before the next writer, which is stronger). `AuditLog`: a query reads on.
`MetricsCollector`: commands end, clients read or go away, `ensureQuota` returns
(weak fairness), and who waits for a mutex gets it however often others come and
go (strong fairness of `Lock` and `Count`): a `sync.Mutex` is handed to the one who
has waited for a millisecond. `NamespacePolicy` and `UsageReport` have no liveness
property: a request is a loop over finite lists, and needs none.

## 5. The proofs

All are checked by TLAPS for every value of the constants that satisfies the
named assumptions. Each temporal theorem follows from an inductive invariant.

* `QuotaAgent_proofs`. `TypeCorrect` is inductive by itself. `TrackedIsEnforced`
  is inductive together with `TagsAreOwn` (a tracked path carries its own id or
  none): `SetLimit` replaces limit and entry in one step, so a job between the id
  and the limit leaves the old entry true; `AuditTellsTheTruth` follows.
  `StatusMeansLimited` needs that a job which has applied its limit has one
  (`StatusInv`). `TrackingIsListed` needs `ListedInv`: a job past an append finds
  its line in the file, and the lines there are genuine (`SeparateTexts`).
  `DistinctVolumes`, a hypothesis of the theorems and not an `ASSUME`, says that
  different volumes have different paths, names and ids; the code does not ensure
  it (names are cut off and hashed, foreign paths are mapped by their last
  component), so the theorems state it.
  `AgentIsATable` is the refinement of `QuotaTable` under `DistinctVolumes`: the
  initial states map to initial ones, the step of each action of the agent is a `Set`,
  a `Say`, a `Forget` or a stutter, and only the cluster's are an `Ask` or a
  `Withdraw`. `AskedLapses` shows, action by action, that no capacity enters what the
  agent has in hand except from the PVs. The invariant it needs is `StatusInv`: a job
  that is about to report "applied" has its limit in the table.
* `OrphanCleanup_proofs`. `NoticeIsGiven`: a first-seen age never exceeds the time
  since the report that made it, so a due orphan was noticed a grace period ago;
  the invariant carries this through `found` and `target`.
  `ClaimedTargetsAreSpared`: what was found was not in the list read before.
  `AgentIsACleaner` is the refinement of `Cleaner`, one lemma per kind of step: a
  step concerns the round of one goroutine (`OneRound`), the same invariant says that
  an order is for something noticed and unclaimed, and `LiveInv` that only live mode
  gets that far, which is also the theorem `OnlyLiveModeRemoves`.
* `FileEdits_proofs`. `BystandersAreSpared` says that a tracked volume's lines stay
  in the files, or in the hands of the one editor that has just cut them and will
  write them again, unless a removal was meant for that volume or `damage` is
  spoilt. Its invariant adds that all lines, also those an editor has read, are
  lines of volumes (`FilesAreGenuine`, `BasesAreGenuine`), so that under
  `DistinctLines` a key belongs to one volume only, and that a job past an append
  finds its line (`JobKeepsLines`). It holds for any number of removals at once.
  `RemovalsAreCaused` follows an order back through the removal: the path an editor
  is at was an orphan, hence of a volume in `lacking`, or not in the command's list.
* `HistoryStore_proofs`. `SavedIsCurrent`: what was marshalled equals the memory
  until the rename, because the recorder alone appends. `CallsSeeOneHistory` rests
  on the exclusion of readers by the held write lock. The other three rest on
  `Ordered`: the history, and the file, are sorted by age, oldest first. `Filtered`
  is a recursive function, and what it returns is proved by induction in the form of
  a set of numbers that holds 0 and successors (`SetInduction`): its elements are
  those to keep, in their order. So pruning cuts off a front part, whose entries are
  the oldest (`DroppedAreOldest`), what the file lacks is the end that
  the newest snapshot added (`CrashCostsOneSnapshot`), and the search for the first
  young entry finds the end of a period (`ChangesCoverTheirPeriods`).
* `AuditLog_proofs`. `AcceptedEntriesAreKept`: a file of this second exists only
  if the log has fewer lines than entries were begun since (`NoCollision`), so
  under `BurstAssumption` it cannot be due for rotation again. `QueriesAreComplete`
  needs that entries stand in the file by their numbers (`LogIsNumbered`) and that a
  query has collected, in that order, the matching ones of the part it has read, of
  the log or of the file that was the log (`QueryIsSound`); `AnswerIsTail` is about
  the last `Limit` of them, reversed.
* `MetricsCollector_proofs`. `StalenessBound` rests on `LagInv`: as long as the text
  counts as fresh, its age and the time its reading took add up to `lag`.
* `NamespacePolicy_proofs`. `LimitRangesPrevail` and `LimitsAreUniform` share one
  invariant: what stands now is in `stood`, the policy in hand is empty or came from
  LimitRanges that stood, the cache never forgets a namespace, and a violation
  carries the limit of the policy in the cache. `AnswersMatchTheCluster` needs more:
  as long as nothing has changed or failed (`ExactWhenCalm`), each thing in hand is
  what the cluster has: the policy, as far as it is put together, every policy in the
  cache, and the violations among the volumes looked at so far.
* `UsageReport_proofs`. `LimitsAreTheirOwn` follows a limit from the row of the
  command through the two files to the line; it needs that names are no ids and
  belong to one id (`NamesAreOwn`), since rows are looked up by name and then by id.
  `ReportsMatchTheWorld` needs also `IdsAreOwn` and `PathsAreOwn` (of two volumes in
  one directory either limit might be shown), for any paths the page may take; its
  invariant `ExactWhenStill` says what each table of the report holds at each stage when nothing
  has changed or failed: the rows with their labels, the paths found for them, the
  directories measured, the volumes found; and on a file system other than XFS, that
  no path is ever found (`NothingIsKnown`).

The assumptions `NamesAreOwn`, `IdsAreOwn` and `PathsAreOwn` are hypotheses of their
theorems, for the same reason as `DistinctVolumes`.

**Model-checked only.** The liveness properties (`Converges`,
`OrphansAreReclaimed`, `RestartHeals`, `ScrapesReturn`): fairness is beyond the
prover. Every safety property that a passing run checks is proved.

## 6. Not modelled

Text: flags, completion, tables, exports, the HTML page. The totals of the disk and
the configuration and file listings of the UI are single looks at one thing. The
mount table is read once, or once per report; its answer is the constant `FsType`,
or `fs` in `UsageReport`. `ValidateQuota` has no caller in the program, and the
policy source "Global" is declared and never set. On ext4 the report's lines are
never matched, because repquota prints names and the code looks up ids:
`PathsExt4` has this, and `ReportIsExact` says that no limit is shown there. When no entry is
newer than the moment asked for, `calculateChange` spans the whole history;
`ChangesCoverPeriods` leaves this case out. The sort orders of the pages and the
rounding of percentages are left out. A PV without a storage capacity is
skipped by the code and left out. The clock is monotonic: a daylight-saving hour
that repeats the names of rotated files is outside `AuditLog`. In `FileEdits`, a longer line appended between the cut and
the write of another leaves its tail behind the new text, and comment lines pass
through: both are left out. The command compares the last components of paths,
which the model takes to be the paths, and its file system is a supported one.
That a directory made again under the path of an old orphan inherits its age is
behaviour of `OrphanCleanup`, with no property about it. A query does not
meet a half-written line of a write in progress, as a write is one system call.

## 7. Plan

1. **Composition** of `QuotaAgent` with `FileEdits`: an entry of
   `appliedQuotas` that outlives the removal of its directory and lines.
2. **Names and paths**: cut-off, hash and base-name mapping, checked for which
   sets of volumes `DistinctVolumes` holds.
3. **Proofs** still open: when the violated statements do hold (queries without
   torn lines, trees without subdirectories), as theorems with these as hypotheses,
   and an abstract log that `AuditLog` implements.
