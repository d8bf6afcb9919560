---------------------------- MODULE HistoryStore ----------------------------
(***************************************************************************)
(* The usage history: internal/history/store.go, the goroutine that feeds  *)
(* it (collectHistory in internal/agent/agent.go) and the HTTP handlers    *)
(* that read it.                                                           *)
(*                                                                         *)
(* One recorder appends a snapshot, prunes and saves; any number of        *)
(* requests read.  They share a sync.RWMutex, modelled as Go implements    *)
(* it: a writer that waits keeps every new reader out, also one that has   *)
(* the read lock already.  GetTrend calls Query, and GetAllTrends calls    *)
(* GetTrend, without giving the lock back.                                 *)
(*                                                                         *)
(* An entry is [age, path], the age counting up to Retention, from where   *)
(* on the next prune drops it.                                             *)
(***************************************************************************)
EXTENDS Integers, Sequences, SequencesExt

CONSTANTS
    Path,        \* directories with a usage
    Snapshots,   \* what GetDirUsages may return: sequences of paths
    Reader,      \* HTTP requests served at the same time
    Kinds,       \* what they call
    Retention,   \* --history-retention
    MaxEntries,  \* the store's limit of 100000
    Window,      \* how far back a trend looks: 30 days
    Periods,     \* over which it reports a change: 24 hours, 7 and 30 days
    MaxRecords,  \* bound on the snapshots taken
    MaxFaults    \* bound on failed writes and restarts

\* How many read locks a call holds at its innermost point
Depth == [query |-> 1, stats |-> 1, trend |-> 2, all |-> 3]

ASSUME SnapshotAssumption  == Snapshots \subseteq Seq(Path)
ASSUME KindAssumption      == Kinds \subseteq DOMAIN Depth
ASSUME RetentionAssumption == Retention \in Nat \ {0} /\ MaxEntries \in Nat
ASSUME TrendAssumption     == Window \in Nat /\ Periods \subseteq Nat \ {0}
ASSUME BoundAssumption     == MaxRecords \in Nat /\ MaxFaults \in Nat

VARIABLES
    entries,   \* h.data.Entries
    tmp,       \* what the recorder has marshalled
    file,      \* the history file
    lagging,   \* history: did the last save, or the load, fail?
    rec,       \* where the recorder is
    writer,    \* the write lock: free, waited for, held
    call,      \* what each request calls, or "none"
    held,      \* how many read locks each request holds
    rest,      \* how many innermost calls it has still to make
    leaving,   \* is it on its way out of a nested call?
    records, faults

store == <<entries, tmp, file, lagging>>
lock  == <<writer, held>>
reads == <<call, rest, leaving>>
vars  == <<entries, tmp, file, lagging, rec, writer, call, held, rest, leaving,
           records, faults>>

Entry == [age : 0..Retention, path : Path]

Init ==
    /\ entries = <<>> /\ tmp = <<>> /\ file = <<>> /\ lagging = FALSE
    /\ rec = "idle" /\ writer = "free"
    /\ call = [r \in Reader |-> "none"]
    /\ held = [r \in Reader |-> 0]
    /\ rest = [r \in Reader |-> 0]
    /\ leaving = [r \in Reader |-> FALSE]
    /\ records = 0 /\ faults = 0

-----------------------------------------------------------------------------
\* Time passes: every entry grows older, in memory and on disk
Aged(seq) ==
    [i \in DOMAIN seq |->
        [seq[i] EXCEPT !.age = IF @ < Retention THEN @ + 1 ELSE @]]

Tick ==
    /\ entries' = Aged(entries) /\ tmp' = Aged(tmp) /\ file' = Aged(file)
    /\ UNCHANGED <<lagging, rec, lock, reads, records, faults>>

Goto(pc) == rec' = pc
Fault == faults < MaxFaults /\ faults' = faults + 1

\* Lock: announced first, held when the readers inside have left
LockAsk(from, to) ==
    /\ rec = from /\ writer = "free" /\ writer' = "waiting" /\ Goto(to)
    /\ UNCHANGED <<store, held, reads, faults>>

LockGet ==
    /\ writer = "waiting" /\ \A r \in Reader : held[r] = 0
    /\ writer' = "held"
    /\ UNCHANGED <<store, rec, held, reads, records, faults>>

RecordBegins ==
    /\ records < MaxRecords /\ records' = records + 1
    /\ LockAsk("idle", "record")

\* The loop over the entries, in prune and in Query: those to keep, in their order
Filtered(seq, keep) ==
    LET upTo[i \in 0..Len(seq)] ==
            IF i = 0 THEN <<>>
            ELSE IF seq[i] \in keep THEN Append(upTo[i - 1], seq[i]) ELSE upTo[i - 1]
    IN  upTo[Len(seq)]

Young == {e \in Entry : e.age < Retention}

\* Mutant: keeps the first entries, not the last
PruneKeepsFirst(seq) ==
    LET kept == Filtered(seq, Young)
    IN  IF Len(kept) > MaxEntries THEN SubSeq(kept, 1, MaxEntries) ELSE kept

\* Those younger than the retention, and of them the last MaxEntries
Prune(seq) ==
    LET kept == Filtered(seq, Young)
    IN  IF Len(kept) > MaxEntries
        THEN SubSeq(kept, Len(kept) - MaxEntries + 1, Len(kept))
        ELSE kept

NewEntries(snapshot) == [i \in DOMAIN snapshot |-> [age |-> 0, path |-> snapshot[i]]]

\* Mutant: the snapshot is not saved
RecordAppendsOnly(snapshot) ==
    /\ rec = "record" /\ writer = "held"
    /\ entries' = Prune(entries \o NewEntries(snapshot))
    /\ writer' = "free" /\ Goto("relock")
    /\ UNCHANGED <<tmp, file, lagging, held, reads, records, faults>>

\* Mutant: the snapshot is appended under a read lock, next to other readers
RecordAppendsShared(snapshot) ==
    /\ rec = "record"
    /\ entries' = Prune(entries \o NewEntries(snapshot))
    /\ writer' = "free" /\ Goto("marshal")
    /\ UNCHANGED <<tmp, file, lagging, held, reads, records, faults>>

\* The first critical section of Record
RecordAppends(snapshot) ==
    /\ rec = "record" /\ writer = "held"
    /\ entries' = Prune(entries \o NewEntries(snapshot))
    /\ writer' = "free" /\ Goto("marshal")
    /\ UNCHANGED <<tmp, file, lagging, held, reads, records, faults>>

\* save: marshalled under a read lock, which the recorder holds for this only
SaveMarshals ==
    /\ rec = "marshal" /\ writer = "free" /\ Goto("rename")
    /\ tmp' = entries
    /\ UNCHANGED <<entries, file, lagging, lock, reads, records, faults>>

\* Mutant: the temporary file is written and stays where it is
SaveWithoutRename ==
    /\ rec = "rename" /\ Goto("relock")
    /\ lagging' = FALSE
    /\ UNCHANGED <<entries, tmp, file, lock, reads, records, faults>>

\* The temporary file takes the place of the history file in one step
SaveRenames ==
    /\ rec = "rename" /\ Goto("relock")
    /\ file' = tmp /\ lagging' = FALSE
    /\ UNCHANGED <<entries, tmp, lock, reads, records, faults>>

\* An entry that cannot be marshalled, no room for the temporary file, no rename
SaveFails ==
    /\ rec = "rename" /\ Goto("relock") /\ Fault
    /\ lagging' = TRUE
    /\ UNCHANGED <<entries, tmp, file, lock, reads, records>>

\* Record takes the lock once more, for its deferred Unlock to have one
RecordRelocks == LockAsk("relock", "return") /\ UNCHANGED records

RecordReturns ==
    /\ rec = "return" /\ writer = "held"
    /\ writer' = "free" /\ Goto("idle") /\ tmp' = <<>>
    /\ UNCHANGED <<entries, file, lagging, held, reads, records, faults>>

RecorderStep ==
    \/ RecordBegins
    \/ \E snapshot \in Snapshots : RecordAppends(snapshot)
    \/ SaveMarshals \/ SaveRenames \/ SaveFails
    \/ RecordRelocks \/ RecordReturns

-----------------------------------------------------------------------------
\* A request calls Query, GetHistoryStats, GetTrend or GetAllTrends
Call(r, kind) ==
    /\ call[r] = "none"
    /\ call' = [call EXCEPT ![r] = kind]
    /\ UNCHANGED <<store, rec, lock, rest, leaving, records, faults>>

\* What GetTrend gets from Query; Query's sort finds the entries in their order
History(path) == Filtered(entries, {e \in Entry : e.path = path /\ e.age <= Window})

\* Mutant: the first entry after the moment asked for, not the one before
ChangeBaseAfter(history, since) ==
    LET after == {i \in DOMAIN history : history[i].age < since}
    IN  IF after = {} THEN 1 ELSE Min(after)

\* calculateChange: the index of the entry the newest one is compared with
ChangeBase(history, since) ==
    LET after == {i \in DOMAIN history : history[i].age < since}
    IN  IF after = {} \/ 1 \in after THEN 1 ELSE Min(after) - 1

Paths == {entries[i].path : i \in DOMAIN entries}

\* RLock waits for a writer, even one that waits for this very request.  With
\* the first lock GetAllTrends learns how many paths it will ask about.
RLock(r) ==
    /\ call[r] # "none" /\ ~leaving[r] /\ held[r] < Depth[call[r]]
    /\ held[r] = 0 \/ rest[r] > 0
    /\ writer = "free"
    /\ held' = [held EXCEPT ![r] = @ + 1]
    /\ rest' = IF held[r] > 0 THEN rest
               ELSE [rest EXCEPT ![r] = IF call[r] = "all" THEN Cardinality(Paths) ELSE 1]
    /\ UNCHANGED <<store, rec, writer, call, leaving, records, faults>>

\* Mutant: an early return that does not unlock
RUnlockForgotten(r) ==
    /\ held[r] = 1 /\ rest[r] = 0
    /\ call' = [call EXCEPT ![r] = "none"]
    /\ UNCHANGED <<store, rec, lock, rest, leaving, records, faults>>

\* One level of the call ends: at the innermost level, on the way out, or at
\* the outermost level when there is nothing to ask about
RUnlock(r) ==
    /\ held[r] > 0
    /\ held[r] = Depth[call[r]] \/ leaving[r] \/ rest[r] = 0
    /\ held' = [held EXCEPT ![r] = @ - 1]
    /\ LET innermost == held[r] = Depth[call[r]]
           left == IF innermost THEN rest[r] - 1 ELSE rest[r]
       IN  /\ rest' = [rest EXCEPT ![r] = left]
           /\ leaving' = [leaving EXCEPT ![r] = held[r] > 1 /\ ~(held[r] = 2 /\ left > 0)]
    /\ call' = IF held[r] = 1 THEN [call EXCEPT ![r] = "none"] ELSE call
    /\ UNCHANGED <<store, rec, writer, records, faults>>

\* The process dies, and NewStore loads what the file holds.  When it cannot,
\* it warns, begins an empty history, and the next save overwrites the file.
Restart ==
    /\ Fault
    /\ entries' \in {file, <<>>} /\ lagging' = (entries' # file)
    /\ tmp' = <<>>
    /\ rec' = "idle" /\ writer' = "free"
    /\ call' = [r \in Reader |-> "none"]
    /\ held' = [r \in Reader |-> 0]
    /\ rest' = [r \in Reader |-> 0]
    /\ leaving' = [r \in Reader |-> FALSE]
    /\ UNCHANGED <<file, records>>

ReaderStep(r) == RLock(r) \/ RUnlock(r)

Next ==
    \/ Tick \/ RecorderStep \/ LockGet
    \/ \E r \in Reader : ReaderStep(r) \/ \E kind \in Kinds : Call(r, kind)
    \/ Restart

Spec == Init /\ [][Next]_vars

\* Every goroutine that can go on does; a request need not come
Fairness ==
    /\ WF_vars(RecorderStep) /\ WF_vars(LockGet)
    /\ \A r \in Reader : SF_vars(RLock(r)) /\ WF_vars(RUnlock(r))

FairSpec == Spec /\ Fairness

-----------------------------------------------------------------------------
(***************************************************************************)
(* Properties.                                                             *)
(***************************************************************************)

\* Every variable has its type; a request holds locks only inside a call.
TypeOK ==
    /\ entries \in Seq(Entry) /\ tmp \in Seq(Entry) /\ file \in Seq(Entry)
    /\ lagging \in BOOLEAN
    /\ rec \in {"idle", "record", "marshal", "rename", "relock", "return"}
    /\ writer \in {"free", "waiting", "held"}
    /\ call \in [Reader -> Kinds \cup {"none"}]
    /\ held \in [Reader -> 0..3] /\ rest \in [Reader -> Nat]
    /\ leaving \in [Reader -> BOOLEAN]
    /\ \A r \in Reader : held[r] > 0 => call[r] # "none" /\ held[r] <= Depth[call[r]]
    /\ records \in Nat /\ faults \in Nat

\* A request works on one history from its first lock to its last unlock:
\* GetAllTrends never meets, between two of its GetTrend, a snapshot that came
\* in or entries that were pruned.
OneHistoryPerCall ==
    [][(\E r \in Reader : held[r] > 0 /\ held'[r] > 0)
          => entries' \in {entries, Aged(entries)}]_vars

\* What is on disk is what is in memory, except while a snapshot is on its way
\* and after a save or a load that failed.
SavedHistoryIsCurrent ==
    rec \in {"idle", "relock", "return"} /\ ~lagging => file = entries

\* A crash costs no more than the snapshot in progress: what is in memory and
\* not in the file is as young as the newest entry, unless a save failed.
CrashLosesOneSnapshot ==
    ~lagging =>
        \A i \in DOMAIN entries :
            \/ entries[i].age = Last(entries).age
            \/ \E j \in DOMAIN file : file[j] = entries[i]

\* The limits on the history cost its oldest entries: what Record drops, of the
\* history or of the new snapshot, is at least as old as everything it keeps.
OldestAreDropped ==
    [][\A snapshot \in Snapshots : RecordAppends(snapshot) =>
          LET all == ToSet(entries \o NewEntries(snapshot)) IN
          \A e \in all \ ToSet(entries'), f \in ToSet(entries') : e.age >= f.age]_vars

\* The change over a period is the change since the newest entry that is as old
\* as the period, or since the oldest one when the history does not go back so
\* far: after gaps, prunes and restarts too, unless there is no newer entry at all.
ChangesCoverPeriods ==
    \A p \in Path, since \in Periods :
        LET history == History(p)
            base == history[ChangeBase(history, since)].age
            old == {i \in DOMAIN history : history[i].age >= since}
        IN  history # <<>> /\ Last(history).age < since =>
                IF old = {} THEN \A i \in DOMAIN history : history[i].age <= base
                ELSE base >= since /\ \A i \in old : base <= history[i].age

\* Every call of a request returns, whatever the recorder does.
CallsReturn == \A r \in Reader : call[r] # "none" ~> call[r] = "none"
=============================================================================
