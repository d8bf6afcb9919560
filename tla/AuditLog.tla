------------------------------ MODULE AuditLog ------------------------------
(***************************************************************************)
(* The audit log: internal/audit/logger.go, whose mutex lets one Log run   *)
(* at a time, and QueryLog in internal/audit/filter.go, which the web UI   *)
(* and the audit command call and which takes no lock at all.              *)
(*                                                                         *)
(* Entries are numbered in the order in which Log takes the mutex; a file  *)
(* is the sequence of what was written to it, one unit per write, a write  *)
(* that was cut short leaving Torn.  Rotation renames the log after the    *)
(* second it happens in.  The program leaves MaxFileSize at 0: it builds    *)
(* its Config without one (main.go:263) and nobody uses DefaultConfig, so  *)
(* that the agent as wired never rotates.  Other values check the package. *)
(***************************************************************************)
EXTENDS Integers, Sequences, SequencesExt

CONSTANTS
    MaxFileSize,  \* writes after which the log is rotated, 0 for never
    Burst,        \* bound on the calls of Log in one second
    Matching,     \* the entries the filter of a query accepts
    Limit,        \* how many of them the API returns
    MaxSeconds,   \* bound on the time
    MaxFaults     \* bound on failing system calls, torn writes and restarts

ASSUME SizeAssumption  == MaxFileSize \in Nat /\ Burst \in Nat /\ Limit \in Nat
ASSUME BoundAssumption == MaxSeconds \in Nat /\ MaxFaults \in Nat

\* A rotated log can fill up again only in a later second
ASSUME BurstAssumption == MaxFileSize = 0 \/ Burst < MaxFileSize

ASSUME MatchingAssumption == Matching \subseteq Nat \ {0}

Torn   == 0
NoFile == <<Torn, Torn>>   \* no rotated file of that second

VARIABLES
    clock,     \* in seconds
    count,     \* calls of Log in this second
    pc,        \* where the call that has the mutex is
    last,      \* its entry
    log,       \* the file at filePath
    exists,    \* is there one?
    rotated,   \* the rotated files, by the second of their names
    handle,    \* is l.file open?
    accepted,  \* history: the entries whose Log returned nil
    query,     \* a QueryLog in progress
    faults

logger == <<pc, last, handle, accepted>>
files  == <<log, exists, rotated>>
vars   == <<clock, count, pc, last, log, exists, rotated, handle, accepted, query, faults>>

Second == 0..MaxSeconds
Line   == Nat   \* an entry, or Torn

\* lines is the file a query reads once that file has been renamed; owed is
\* what a reader of the log may expect the answer to contain
NoQuery == [on |-> FALSE, renamed |-> FALSE, lines |-> <<>>, pos |-> 0,
            result |-> <<>>, owed |-> {}]

Init ==
    /\ clock = 0 /\ count = 0 /\ pc = "idle" /\ last = 0
    /\ log = <<>> /\ exists = TRUE /\ handle = "open"
    /\ rotated = [s \in Second |-> NoFile]
    /\ accepted = {} /\ query = NoQuery /\ faults = 0

-----------------------------------------------------------------------------
Tick ==
    /\ clock < MaxSeconds /\ clock' = clock + 1 /\ count' = 0
    /\ UNCHANGED <<logger, files, query, faults>>

At(from) == pc = from
Goto(to) == pc' = to
Fault == faults < MaxFaults /\ faults' = faults + 1

\* A closed file cannot be examined: rotation is given up, and Log goes on
RotationIsDue == MaxFileSize > 0 /\ handle = "open" /\ Len(log) >= MaxFileSize

\* Mutant: the file is not closed before it is renamed
LogBeginsKeepsOpen ==
    /\ At("idle") /\ count < Burst /\ count' = count + 1
    /\ last' = last + 1
    /\ Goto(IF RotationIsDue THEN "rename" ELSE "write")
    /\ UNCHANGED <<clock, files, handle, accepted, query, faults>>

\* Log takes the mutex, and rotateIfNeeded closes a file that has grown
LogBegins ==
    /\ At("idle") /\ count < Burst /\ count' = count + 1
    /\ last' = last + 1
    /\ handle' = IF RotationIsDue THEN "closed" ELSE handle
    /\ Goto(IF RotationIsDue THEN "rename" ELSE "write")
    /\ UNCHANGED <<clock, files, accepted, query, faults>>

\* Mutant: the rotated file has one name only
RotateRenamesToOneName ==
    /\ At("rename") /\ Goto("open")
    /\ rotated' = [rotated EXCEPT ![0] = log]
    /\ log' = <<>> /\ exists' = FALSE
    /\ query' = IF query.on /\ ~query.renamed
                THEN [query EXCEPT !.renamed = TRUE, !.lines = log] ELSE query
    /\ UNCHANGED <<clock, count, last, handle, accepted, faults>>

\* A query that has the file open keeps it under its new name
RotateRenames ==
    /\ At("rename") /\ Goto("open")
    /\ rotated' = [rotated EXCEPT ![clock] = log]
    /\ log' = <<>> /\ exists' = FALSE
    /\ query' = IF query.on /\ ~query.renamed
                THEN [query EXCEPT !.renamed = TRUE, !.lines = log] ELSE query
    /\ UNCHANGED <<clock, count, last, handle, accepted, faults>>

RotateOpens ==
    /\ At("open") /\ exists' = TRUE /\ handle' = "open" /\ Goto("write")
    /\ UNCHANGED <<clock, count, last, log, rotated, accepted, query, faults>>

\* Either call may fail, and l.file stays closed
RotateFails ==
    /\ At("rename") \/ At("open")
    /\ Fault /\ Goto("write")
    /\ UNCHANGED <<clock, count, last, files, handle, accepted, query>>

LogWrites ==
    /\ At("write") /\ handle = "open" /\ Goto("idle")
    /\ log' = Append(log, last) /\ accepted' = accepted \cup {last}
    /\ UNCHANGED <<clock, count, last, exists, rotated, handle, query, faults>>

\* Nothing, or a part of the line, gets to the file, and the caller ignores the error
LogFails ==
    /\ At("write") /\ Goto("idle")
    /\ \/ handle # "open" /\ UNCHANGED <<log, faults>>
       \/ handle = "open" /\ Fault /\ log' \in {log, Append(log, Torn)}
    /\ UNCHANGED <<clock, count, last, exists, rotated, handle, accepted, query>>

\* The agent dies, maybe in the middle of a write, and NewLogger opens the file
Restart ==
    /\ Fault
    /\ log' \in {log} \cup (IF At("write") /\ handle = "open"
                           THEN {Append(log, Torn)} ELSE {})
    /\ exists' = TRUE /\ handle' = "open" /\ Goto("idle")
    /\ query' = NoQuery
    /\ UNCHANGED <<clock, count, last, rotated, accepted>>

-----------------------------------------------------------------------------
\* Without a file the query fails at once
QueryOpens ==
    /\ ~query.on /\ exists
    /\ query' = [NoQuery EXCEPT !.on = TRUE,
                                !.owed = accepted \cap ToSet(log) \cap Matching]
    /\ UNCHANGED <<clock, count, logger, files, faults>>

QueriedFile == IF query.renamed THEN query.lines ELSE log

\* Mutant: an entry the filter rejects ends the query
QueryReadsWhileMatching ==
    LET i == query.pos + 1
    IN  /\ query.on /\ i <= Len(QueriedFile)
        /\ IF QueriedFile[i] \in Matching
           THEN query' = [query EXCEPT !.pos = i, !.result = Append(@, QueriedFile[i])]
           ELSE query' = [query EXCEPT !.pos = i, !.renamed = TRUE,
                                       !.lines = SubSeq(QueriedFile, 1, i)]
        /\ UNCHANGED <<clock, count, logger, files, faults>>

\* What does not decode is to be skipped; the decoder stays where it is
QueryReads ==
    LET i == query.pos + 1
    IN  /\ query.on /\ i <= Len(QueriedFile) /\ QueriedFile[i] # Torn
        /\ query' = [query EXCEPT !.pos = i,
                          !.result = IF QueriedFile[i] \in Matching
                                     THEN Append(@, QueriedFile[i]) ELSE @]
        /\ UNCHANGED <<clock, count, logger, files, faults>>

\* The last of the entries, newest first
Answer == Reverse(SubSeq(query.result, IF Len(query.result) > Limit
                                       THEN Len(query.result) - Limit + 1 ELSE 1,
                         Len(query.result)))

QueryEnds ==
    /\ query.on /\ query.pos = Len(QueriedFile)
    /\ query' = NoQuery
    /\ UNCHANGED <<clock, count, logger, files, faults>>

LogStep ==
    LogBegins \/ RotateRenames \/ RotateOpens \/ RotateFails \/ LogWrites \/ LogFails

Next == Tick \/ LogStep \/ Restart \/ QueryOpens \/ QueryReads \/ QueryEnds

Spec == Init /\ [][Next]_vars

\* A query reads on for as long as it can
FairSpec == Spec /\ WF_vars(QueryReads) /\ WF_vars(QueryEnds)

-----------------------------------------------------------------------------
(***************************************************************************)
(* Properties.                                                             *)
(***************************************************************************)

\* Every variable has its type, and the log exists while the logger has it open.
TypeOK ==
    /\ clock \in Second /\ count \in 0..Burst
    /\ pc \in {"idle", "rename", "open", "write"}
    /\ last \in Nat /\ accepted \subseteq 1..last
    /\ log \in Seq(Line) /\ exists \in BOOLEAN
    /\ rotated \in [Second -> Seq(Line)]
    /\ handle \in {"open", "closed"} /\ (handle = "open" => exists)
    /\ query \in [on : BOOLEAN, renamed : BOOLEAN, lines : Seq(Line), pos : Nat,
                  result : Seq(Line), owed : SUBSET Nat]
    /\ faults \in 0..MaxFaults

InSomeFile(n) ==
    n \in ToSet(log) \/ \E s \in Second : n \in ToSet(rotated[s])

\* An entry that Log accepted stays in the log or in a rotated file, whatever
\* fails later: no rotation overwrites the file of an earlier one.
AcceptedIsKept == \A n \in accepted : InSomeFile(n)

\* A query answers with every matching entry that was in the log when it began,
\* also when the log is rotated under it; those it leaves out are older than
\* the Limit entries it returns.
QueryIsComplete ==
    [][QueryEnds =>
          \A n \in query.owed :
              n \in ToSet(Answer) \/ (Len(Answer) = Limit /\ \A m \in ToSet(Answer) : n < m)]_vars

\* A query comes to its end, skipping what it cannot decode.
QueryReturns == query.on ~> ~query.on
=============================================================================
