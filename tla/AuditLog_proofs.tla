--------------------------- MODULE AuditLog_proofs ---------------------------
(***************************************************************************)
(* What AuditLog keeps, for every file size, burst, and number of faults.  *)
(***************************************************************************)
EXTENDS AuditLog, TLAPS

-----------------------------------------------------------------------------
\* What a rotation must know of the files: none of the second it happens in, for
\* the log cannot have filled up again since a rotation of the same second.
Typed ==
    /\ clock \in Second /\ count \in 0..Burst /\ last \in Nat
    /\ pc \in {"idle", "rename", "open", "write"}
    /\ log \in Seq(Nat) /\ rotated \in [Second -> Seq(Nat)]
    /\ accepted \subseteq 1..last
    /\ pc # "idle" => last \in 1..last

InProgress == IF pc = "idle" THEN 0 ELSE 1

NoCollision ==
    /\ \A s \in Second : s > clock => rotated[s] = NoFile
    /\ rotated[clock] # NoFile => Len(log) + InProgress <= count + 1
    /\ pc = "rename" => rotated[clock] = NoFile

IInv == Typed /\ NoCollision /\ AcceptedIsKept

-----------------------------------------------------------------------------
\* An appended line leaves the others where they are
LEMMA AppendKeeps ==
    ASSUME NEW seq \in Seq(Nat), NEW n \in Nat
    PROVE  /\ Append(seq, n) \in Seq(Nat) /\ Len(Append(seq, n)) = Len(seq) + 1
           /\ ToSet(seq) \subseteq ToSet(Append(seq, n))
           /\ n \in ToSet(Append(seq, n))
<1>1. /\ Append(seq, n) \in Seq(Nat) /\ Len(Append(seq, n)) = Len(seq) + 1
      /\ Append(seq, n)[Len(seq) + 1] = n
      /\ \A i \in 1..Len(seq) : Append(seq, n)[i] = seq[i]
  OBVIOUS
<1>2. /\ DOMAIN seq = 1..Len(seq) /\ Len(seq) \in Nat
      /\ DOMAIN Append(seq, n) = 1..(Len(seq) + 1)
  OBVIOUS
<1>3. n \in ToSet(Append(seq, n))
  BY <1>1, <1>2 DEF ToSet
<1>4. ASSUME NEW i \in DOMAIN seq
      PROVE  seq[i] \in ToSet(Append(seq, n))
  <2>1. i \in DOMAIN Append(seq, n) /\ Append(seq, n)[i] = seq[i]
    BY <1>1, <1>2
  <2> QED
    BY <2>1 DEF ToSet
<1>5. ToSet(seq) \subseteq ToSet(Append(seq, n))
  BY <1>4 DEF ToSet
<1> QED
  BY <1>1, <1>3, <1>5

\* There is no entry in a file that is not there
LEMMA NothingInNoFile == NoFile \in Seq(Nat) /\ ToSet(NoFile) = {Torn}
<1>1. NoFile \in Seq(Nat) /\ DOMAIN NoFile = {1, 2} /\ NoFile[1] = Torn /\ NoFile[2] = Torn
  BY DEF NoFile, Torn
<1> QED
  BY <1>1 DEF ToSet

\* Entries stay in some file when the log only grows
LEMMA GrowingLog ==
    ASSUME IInv, rotated' = rotated, ToSet(log) \subseteq ToSet(log')
    PROVE  \A n \in accepted : InSomeFile(n)'
  BY DEF IInv, AcceptedIsKept, InSomeFile

-----------------------------------------------------------------------------
\* A rotation moves the entries of the log, and overwrites none
LEMMA RenameInductive ==
    ASSUME IInv, RotateRenames
    PROVE  IInv'
<1>1. /\ pc = "rename" /\ pc' = "open"
      /\ rotated' = [rotated EXCEPT ![clock] = log] /\ log' = <<>>
      /\ clock' = clock /\ count' = count /\ last' = last /\ accepted' = accepted
  BY DEF RotateRenames, At, Goto
<1>2. rotated[clock] = NoFile
  BY <1>1 DEF IInv, NoCollision
<1>3. Typed'
  BY <1>1 DEF IInv, Typed
<1>4. NoCollision'
  <2>1. Len(log') = 0 /\ count \in Nat
    BY <1>1, BurstAssumption, SizeAssumption DEF IInv, Typed
  <2> QED
    BY <1>1, <2>1 DEF IInv, Typed, NoCollision, InProgress, Second
<1>5. ASSUME NEW n \in accepted
      PROVE  InSomeFile(n)'
  <2>1. n # Torn /\ clock \in Second
    BY DEF IInv, Typed, Torn
  <2>2. CASE n \in ToSet(log)
    BY <1>1, <2>1, <2>2 DEF InSomeFile, IInv, Typed
  <2>3. CASE \E s \in Second : n \in ToSet(rotated[s])
    <3>1. PICK s \in Second : n \in ToSet(rotated[s])
      BY <2>3
    <3>2. s # clock
      BY <1>2, <2>1, <3>1, NothingInNoFile
    <3>3. rotated'[s] = rotated[s]
      BY <1>1, <3>2 DEF IInv, Typed
    <3> QED
      BY <3>1, <3>3 DEF InSomeFile
  <2> QED
    BY <2>2, <2>3 DEF IInv, AcceptedIsKept, InSomeFile
<1> QED
  BY <1>1, <1>3, <1>4, <1>5 DEF IInv, AcceptedIsKept

\* When Log finds that the log has grown, no file of this second is there yet
LEMMA BeginInductive ==
    ASSUME IInv, LogBegins
    PROVE  IInv'
<1>1. /\ pc = "idle" /\ count < Burst /\ count' = count + 1 /\ last' = last + 1
      /\ pc' = IF RotationIsDue THEN "rename" ELSE "write"
      /\ clock' = clock /\ log' = log /\ rotated' = rotated /\ accepted' = accepted
  BY DEF LogBegins, At, Goto, files
<1>2. count \in Nat /\ Burst \in Nat /\ MaxFileSize \in Nat /\ Len(log) \in Nat
  BY SizeAssumption DEF IInv, Typed
<1>3. Typed'
  BY <1>1, <1>2 DEF IInv, Typed
<1>4. NoCollision'
  <2>1. ASSUME RotationIsDue
        PROVE  rotated[clock] = NoFile
    BY <1>1, <1>2, <2>1, BurstAssumption DEF IInv, NoCollision, InProgress, RotationIsDue
  <2> QED
    BY <1>1, <1>2, <2>1 DEF IInv, NoCollision, InProgress
<1>5. AcceptedIsKept'
  BY <1>1 DEF IInv, AcceptedIsKept, InSomeFile
<1> QED
  BY <1>3, <1>4, <1>5 DEF IInv

\* Lines are written at the end, by a Log that had counted itself
LEMMA WriteInductive ==
    ASSUME IInv, LogWrites \/ LogFails \/ Restart
    PROVE  IInv'
<1>1. /\ clock' = clock /\ count' = count /\ last' = last /\ rotated' = rotated
      /\ pc' = "idle" /\ pc \in {"idle", "rename", "open", "write"}
  BY DEF LogWrites, LogFails, Restart, Goto, IInv, Typed
<1>2. /\ count \in Nat /\ Len(log) \in Nat /\ last \in Nat /\ Torn \in Nat /\ log \in Seq(Nat)
  BY SizeAssumption DEF IInv, Typed, Torn
<1>3. /\ log' = log \/ (pc = "write" /\ (log' = Append(log, last) \/ log' = Append(log, Torn)))
      /\ accepted' = accepted \/ (/\ pc = "write" /\ accepted' = accepted \cup {last}
                                  /\ log' = Append(log, last))
  BY DEF LogWrites, LogFails, Restart, At
<1>4. /\ log' \in Seq(Nat) /\ ToSet(log) \subseteq ToSet(log')
      /\ Len(log') <= Len(log) + InProgress
  <2>1. CASE log' = log
    BY <1>2, <2>1 DEF InProgress
  <2>2. CASE pc = "write" /\ (log' = Append(log, last) \/ log' = Append(log, Torn))
    <3>1. PICK n \in Nat : log' = Append(log, n)
      BY <1>2, <2>2
    <3>2. /\ Append(log, n) \in Seq(Nat) /\ Len(Append(log, n)) = Len(log) + 1
          /\ ToSet(log) \subseteq ToSet(Append(log, n))
      BY <1>2, AppendKeeps
    <3>3. log' \in Seq(Nat) /\ Len(log') = Len(log) + 1 /\ ToSet(log) \subseteq ToSet(log')
      BY <3>1, <3>2, Zenon
    <3> QED
      BY <1>2, <2>2, <3>3 DEF InProgress
  <2> QED
    BY <1>3, <2>1, <2>2
<1>5. Typed'
  BY <1>1, <1>2, <1>3, <1>4 DEF IInv, Typed
<1>6. NoCollision'
  BY <1>1, <1>2, <1>4 DEF IInv, NoCollision, InProgress
<1>7. \A n \in accepted : InSomeFile(n)'
  BY <1>1, <1>4, GrowingLog
<1>8. ASSUME log' = Append(log, last)
      PROVE  last \in ToSet(log')
  <2>1. last \in ToSet(Append(log, last))
    BY <1>2, AppendKeeps
  <2> QED
    BY <1>8, <2>1, Zenon
<1>9. AcceptedIsKept'
  BY <1>3, <1>7, <1>8 DEF AcceptedIsKept, InSomeFile
<1> QED
  BY <1>5, <1>6, <1>9 DEF IInv

\* Init and every step keep IInv
LEMMA Inductive == (Init => IInv) /\ (IInv /\ [Next]_vars => IInv')
<1>1. Init => IInv
  <2> SUFFICES ASSUME Init
               PROVE  IInv
    OBVIOUS
  <2> USE DEF Init
  <2>1. Typed
    BY NothingInNoFile, BoundAssumption, SizeAssumption DEF Typed, Second
  <2>2. NoCollision
    BY BoundAssumption DEF NoCollision, Second
  <2> QED
    BY <2>1, <2>2 DEF IInv, AcceptedIsKept
<1>2. ASSUME IInv, [Next]_vars
      PROVE  IInv'
  <2>1. CASE Tick
    <3>1. /\ clock' = clock + 1 /\ clock' \in Second /\ count' = 0 /\ clock \in Nat
          /\ UNCHANGED <<logger, files>>
      BY <1>2, <2>1, BoundAssumption DEF Tick, IInv, Typed, Second
    <3>2. Typed'
      BY <1>2, <3>1, SizeAssumption DEF IInv, Typed, logger, files
    <3>3. NoCollision'
      BY <1>2, <3>1 DEF IInv, NoCollision, Second, files
    <3> QED
      BY <1>2, <3>1, <3>2, <3>3 DEF IInv, AcceptedIsKept, InSomeFile, logger, files
  <2>2. CASE LogBegins
    BY <1>2, <2>2, BeginInductive
  <2>3. CASE RotateRenames
    BY <1>2, <2>3, RenameInductive
  <2>4. CASE RotateOpens \/ RotateFails
    <3>1. /\ UNCHANGED <<clock, count, last, log, rotated, accepted>>
          /\ pc \in {"rename", "open"} /\ pc' = "write"
      BY <2>4 DEF RotateOpens, RotateFails, At, Goto, files
    <3>2. Typed'
      BY <1>2, <3>1 DEF IInv, Typed
    <3>3. NoCollision'
      BY <1>2, <3>1 DEF IInv, NoCollision, InProgress
    <3> QED
      BY <1>2, <3>1, <3>2, <3>3 DEF IInv, AcceptedIsKept, InSomeFile
  <2>5. CASE LogWrites \/ LogFails \/ Restart
    BY <1>2, <2>5, WriteInductive
  <2>6. CASE QueryOpens \/ QueryReads \/ QueryEnds \/ UNCHANGED vars
    <3>1. UNCHANGED <<clock, count, logger, files>>
      BY <2>6 DEF QueryOpens, QueryReads, QueryEnds, vars, logger, files
    <3> QED
      BY <1>2, <3>1 DEF IInv, Typed, NoCollision, InProgress, AcceptedIsKept, InSomeFile,
                        logger, files
  <2> QED
    BY <1>2, <2>1, <2>2, <2>3, <2>4, <2>5, <2>6 DEF Next, LogStep
<1> QED
  BY <1>1, <1>2

\* Every entry that Log accepted stays in the log or in a rotated file, as long as
\* a second does not bring as many entries as a file takes.
THEOREM AcceptedEntriesAreKept == Spec => []AcceptedIsKept
<1>1. (Init => IInv) /\ (IInv /\ [Next]_vars => IInv')
  BY Inductive
<1>2. IInv => AcceptedIsKept
  BY DEF IInv
<1> QED
  BY <1>1, <1>2, PTL DEF Spec
-----------------------------------------------------------------------------
\* The rest of TypeOK: a rotation under way has closed the file
Query == [on : BOOLEAN, renamed : BOOLEAN, lines : Seq(Line), pos : Nat,
          result : Seq(Line), owed : SUBSET Nat]

Handled ==
    /\ exists \in BOOLEAN /\ handle \in {"open", "closed"}
    /\ handle = "open" => exists
    /\ pc \in {"rename", "open"} => handle = "closed"

Queried == query \in Query

\* The file is open only while there is one
LEMMA HandleInductive ==
    ASSUME Typed, Handled, [Next]_vars
    PROVE  Handled'
<1>1. CASE LogBegins
  <2>1. /\ exists' = exists /\ pc' = IF RotationIsDue THEN "rename" ELSE "write"
        /\ handle' = IF RotationIsDue THEN "closed" ELSE handle
    BY <1>1 DEF LogBegins, Goto, files
  <2> QED BY <2>1 DEF Handled
<1>2. CASE RotateRenames
  <2>1. pc = "rename" /\ pc' = "open" /\ handle' = handle /\ exists' = FALSE
    BY <1>2 DEF RotateRenames, At, Goto
  <2> QED BY <2>1 DEF Handled
<1>3. CASE RotateOpens \/ Restart
  <2>1. pc' \in {"idle", "write"} /\ handle' = "open" /\ exists' = TRUE
    BY <1>3 DEF RotateOpens, Restart, Goto
  <2> QED BY <2>1 DEF Handled
<1>4. CASE RotateFails \/ LogWrites \/ LogFails
  <2>1. pc' \in {"idle", "write"} /\ handle' = handle /\ exists' = exists
    BY <1>4 DEF RotateFails, LogWrites, LogFails, Goto, files
  <2> QED BY <2>1 DEF Handled
<1>5. CASE Tick \/ QueryOpens \/ QueryReads \/ QueryEnds \/ UNCHANGED vars
  <2>1. pc' = pc /\ handle' = handle /\ exists' = exists
    BY <1>5 DEF Tick, QueryOpens, QueryReads, QueryEnds, vars, logger, files
  <2> QED BY <2>1 DEF Handled
<1> QED BY <1>1, <1>2, <1>3, <1>4, <1>5 DEF Next, LogStep

\* A query is at a place of a file, with entries of it
LEMMA QueryInductive ==
    ASSUME Typed, Queried, [Next]_vars
    PROVE  Queried'
<1>1. NoQuery \in Query
  BY DEF NoQuery, Query, Line
<1>2. log \in Seq(Line) /\ query \in Query
  BY DEF Typed, Queried, Line
<1>3. CASE RotateRenames
  <2>1. query' = query \/ query' = [query EXCEPT !.renamed = TRUE, !.lines = log]
    BY <1>3 DEF RotateRenames
  <2> QED BY <1>2, <2>1 DEF Queried, Query
<1>4. CASE QueryOpens
  <2>1. accepted \cap ToSet(log) \cap Matching \in SUBSET Nat
    BY MatchingAssumption
  <2>2. query' = [NoQuery EXCEPT !.on = TRUE, !.owed = accepted \cap ToSet(log) \cap Matching]
    BY <1>4 DEF QueryOpens
  <2> QED BY <1>1, <2>1, <2>2 DEF Queried, Query
<1>5. CASE QueryReads
  <2>1. query.pos + 1 \in Nat /\ query.result \in Seq(Line) /\ QueriedFile \in Seq(Line)
    BY <1>2 DEF Query, QueriedFile
  <2>2. query.pos + 1 <= Len(QueriedFile)
    BY <1>5 DEF QueryReads
  <2>3. QueriedFile[query.pos + 1] \in Line
    BY <1>2, <2>1, <2>2 DEF Query
  <2>4. Append(query.result, QueriedFile[query.pos + 1]) \in Seq(Line)
    BY <2>1, <2>3
  <2>5. PICK r \in Seq(Line) : query' = [query EXCEPT !.pos = query.pos + 1, !.result = r]
    BY <1>2, <1>5, <2>1, <2>4 DEF QueryReads
  <2> QED BY <1>2, <2>1, <2>5 DEF Queried, Query
<1>6. CASE QueryEnds \/ Restart
  BY <1>1, <1>6 DEF QueryEnds, Restart, Queried
<1>7. CASE Tick \/ LogBegins \/ RotateOpens \/ RotateFails \/ LogWrites \/ LogFails \/ UNCHANGED vars
  <2>1. query' = query
    BY <1>7 DEF Tick, LogBegins, RotateOpens, RotateFails, LogWrites, LogFails, vars
  <2> QED BY <2>1 DEF Queried
<1> QED BY <1>3, <1>4, <1>5, <1>6, <1>7 DEF Next, LogStep

\* Faults are bounded
LEMMA FaultsInductive ==
    ASSUME faults \in 0..MaxFaults, [Next]_vars
    PROVE  faults' \in 0..MaxFaults
  BY BoundAssumption DEF Next, LogStep, Tick, LogBegins, RotateRenames, RotateOpens, RotateFails,
     LogWrites, LogFails, Restart, QueryOpens, QueryReads, QueryEnds, Fault, vars

\* The variables keep their types, and the log exists while the logger has it open.
THEOREM TypeCorrect == Spec => []TypeOK
<1> DEFINE TypeInv == IInv /\ Handled /\ Queried /\ faults \in 0..MaxFaults
<1>1. Init => TypeInv
  <2> SUFFICES ASSUME Init PROVE TypeInv
    OBVIOUS
  <2>1. IInv
    BY Inductive
  <2>2. Handled
    BY DEF Init, Handled
  <2>3. Queried
    BY DEF Init, Queried, Query, NoQuery, Line
  <2> QED BY <2>1, <2>2, <2>3, BoundAssumption DEF Init
<1>2. TypeInv /\ [Next]_vars => TypeInv'
  <2> SUFFICES ASSUME TypeInv, [Next]_vars PROVE TypeInv'
    OBVIOUS
  <2> QED BY Inductive, HandleInductive, QueryInductive, FaultsInductive DEF IInv
<1>3. TypeInv => TypeOK
  BY DEF IInv, Typed, Handled, Queried, Query, TypeOK, Line
<1> QED
  BY <1>1, <1>2, <1>3, PTL DEF Spec
-----------------------------------------------------------------------------
\* What the answers rest on: entries stand in a file in the order of their
\* numbers, torn lines aside, and a query has collected, in that order, the
\* matching entries of the part of its file that it has read.
Ascending(file) ==
    \A i, j \in 1..Len(file) : i < j /\ file[i] # Torn /\ file[j] # Torn => file[i] < file[j]

LogIsNumbered ==
    /\ Ascending(log)
    /\ \A i \in 1..Len(log) : log[i] <= last /\ (pc # "idle" => log[i] < last)

Collected(q, file) ==
    /\ q.pos \in 0..Len(file)
    /\ \A i \in 1..q.pos :
          file[i] \in Matching => \E k \in 1..Len(q.result) : q.result[k] = file[i]
    /\ \A k \in 1..Len(q.result) : \E i \in 1..q.pos : q.result[k] = file[i] /\ file[i] # Torn
    /\ \A k, m \in 1..Len(q.result) : k < m => q.result[k] < q.result[m]

Owes(q, file) == \A n \in q.owed : n \in Matching /\ \E i \in 1..Len(file) : file[i] = n

QueryIsSound ==
    query.on => /\ Ascending(QueriedFile)
                /\ Collected(query, QueriedFile) /\ Owes(query, QueriedFile)

\* A line at the end keeps the order of a file and what a query has read of it
LEMMA LongerFile ==
    ASSUME NEW file \in Seq(Nat), NEW n \in Nat, NEW q \in Query, Ascending(file),
           n = Torn \/ \A i \in 1..Len(file) : file[i] < n
    PROVE  /\ Ascending(Append(file, n))
           /\ Collected(q, file) => Collected(q, Append(file, n))
           /\ Owes(q, file) => Owes(q, Append(file, n))
<1> DEFINE longer == Append(file, n)
<1>1. /\ longer \in Seq(Nat) /\ Len(longer) = Len(file) + 1 /\ Len(file) \in Nat
      /\ longer[Len(file) + 1] = n /\ \A i \in 1..Len(file) : longer[i] = file[i]
  OBVIOUS
<1> HIDE DEF longer
<1>2. Ascending(longer)
  <2> SUFFICES ASSUME NEW i \in 1..Len(longer), NEW j \in 1..Len(longer),
                      i < j, longer[i] # Torn, longer[j] # Torn
               PROVE  longer[i] < longer[j]
    BY DEF Ascending
  <2>1. i \in 1..Len(file) /\ longer[i] = file[i]
    <3>1. \A m \in Nat : \A x, y \in 1..(m + 1) : x < y => x \in 1..m
      OBVIOUS
    <3>2. Len(file) \in Nat /\ i \in 1..(Len(file) + 1) /\ j \in 1..(Len(file) + 1)
      BY <1>1
    <3>3. i \in 1..Len(file)
      BY <3>1, <3>2
    <3> QED BY <1>1, <3>3
  <2>2. CASE j \in 1..Len(file)
    BY <1>1, <2>1, <2>2 DEF Ascending
  <2>3. CASE j = Len(file) + 1
    <3>1. longer[j] = n
      BY <1>1, <2>3
    <3>2. file[i] < n
      BY <2>1, <3>1
    <3> QED BY <2>1, <3>1, <3>2
  <2>4. j \in 1..Len(file) \/ j = Len(file) + 1
    <3>1. \A m \in Nat : \A k \in 1..(m + 1) : k \in 1..m \/ k = m + 1
      OBVIOUS
    <3>2. Len(file) \in Nat /\ j \in 1..(Len(file) + 1)
      BY <1>1
    <3> QED BY <3>1, <3>2
  <2> QED BY <2>2, <2>3, <2>4
<1>3. ASSUME Collected(q, file) PROVE Collected(q, longer)
  <2>0. q.pos \in 0..Len(file)
    BY <1>3 DEF Collected
  <2>1. q.pos \in 0..Len(file) /\ q.pos \in 0..Len(longer)
        /\ \A i \in 1..q.pos : longer[i] = file[i]
    <3>1. \A l \in Nat : \A m \in 0..l : /\ m \in 0..(l + 1)
                                        /\ \A i \in 1..m : i \in 1..l
      OBVIOUS
    <3> QED BY <1>1, <2>0, <3>1
  <2>2. \A i \in 1..q.pos :
           longer[i] \in Matching => \E k \in 1..Len(q.result) : q.result[k] = longer[i]
    BY <1>3, <2>1 DEF Collected
  <2>3. \A k \in 1..Len(q.result) :
           \E i \in 1..q.pos : q.result[k] = longer[i] /\ longer[i] # Torn
    <3> SUFFICES ASSUME NEW k \in 1..Len(q.result)
                 PROVE  \E i \in 1..q.pos : q.result[k] = longer[i] /\ longer[i] # Torn
      OBVIOUS
    <3>1. PICK i \in 1..q.pos : q.result[k] = file[i] /\ file[i] # Torn
      BY <1>3 DEF Collected
    <3>2. longer[i] = file[i]
      BY <2>1
    <3> QED BY <3>1, <3>2
  <2>4. \A k, m \in 1..Len(q.result) : k < m => q.result[k] < q.result[m]
    BY <1>3 DEF Collected
  <2> QED BY <2>1, <2>2, <2>3, <2>4 DEF Collected
<1>4. ASSUME Owes(q, file) PROVE Owes(q, longer)
  <2> SUFFICES ASSUME NEW m \in q.owed
               PROVE  m \in Matching /\ \E i \in 1..Len(longer) : longer[i] = m
    BY DEF Owes
  <2>1. m \in Matching /\ \E i \in 1..Len(file) : file[i] = m
    BY <1>4 DEF Owes
  <2>2. PICK i \in 1..Len(file) : file[i] = m
    BY <2>1
  <2>3. i \in 1..Len(longer) /\ longer[i] = m
    BY <1>1, <2>2
  <2> QED BY <2>1, <2>3
<1> QED BY <1>2, <1>3, <1>4 DEF longer

\* Every write appends a torn line or the entry of the Log that holds the mutex
LEMMA WhatIsWritten ==
    ASSUME IInv, LogWrites \/ LogFails \/ Restart
    PROVE  \/ log' = log
           \/ pc = "write" /\ log' = Append(log, last)
           \/ pc = "write" /\ log' = Append(log, Torn)
  BY DEF LogWrites, LogFails, Restart, At

\* No step puts an entry out of order
LEMMA NumbersInductive ==
    ASSUME IInv, LogIsNumbered, [Next]_vars
    PROVE  LogIsNumbered'
<1>1. log \in Seq(Nat) /\ last \in Nat /\ Len(log) \in Nat /\ Torn = 0
  BY DEF IInv, Typed, Torn
<1>2. CASE LogWrites \/ LogFails \/ Restart
  <2>1. pc' = "idle" /\ last' = last
    BY <1>2 DEF LogWrites, LogFails, Restart, Goto
  <2>2. CASE log' = log
    BY <2>1, <2>2 DEF LogIsNumbered, Ascending
  <2>3. CASE pc = "write" /\ (log' = Append(log, last) \/ log' = Append(log, Torn))
    <3>1. \A i \in 1..Len(log) : log[i] < last
      BY <2>3 DEF LogIsNumbered
    <3>2. PICK n \in Nat : log' = Append(log, n) /\ (n = Torn \/ n = last)
      BY <1>1, <2>3
    <3>3. Ascending(Append(log, n))
      <4>1. NoQuery \in Query
        BY DEF NoQuery, Query, Line
      <4> QED BY <1>1, <3>1, <3>2, <4>1, LongerFile DEF LogIsNumbered
    <3>4. Ascending(log')
      BY <3>2, <3>3
    <3>5. \A i \in 1..Len(Append(log, n)) : Append(log, n)[i] <= last
      BY <1>1, <3>1, <3>2
    <3>6. \A i \in 1..Len(log') : log'[i] <= last'
      BY <2>1, <3>2, <3>5
    <3> QED BY <2>1, <3>4, <3>6 DEF LogIsNumbered, Ascending
  <2> QED BY <1>2, <2>2, <2>3, WhatIsWritten
<1>3. CASE RotateRenames
  <2>1. log' = <<>>
    BY <1>3 DEF RotateRenames
  <2> QED BY <2>1 DEF LogIsNumbered, Ascending
<1>4. CASE LogBegins
  <2>1. log' = log /\ last' = last + 1 /\ pc = "idle"
    BY <1>4 DEF LogBegins, At, files
  <2>2. \A i \in 1..Len(log) : log[i] \in Nat /\ log[i] < last + 1 /\ log[i] <= last + 1
    BY <1>1 DEF LogIsNumbered
  <2> QED BY <2>1, <2>2 DEF LogIsNumbered, Ascending
<1>5. CASE \/ Tick \/ RotateOpens \/ RotateFails \/ QueryOpens \/ QueryReads \/ QueryEnds
           \/ UNCHANGED vars
  <2>1. log' = log /\ last' = last /\ (pc' # "idle" => pc # "idle")
    BY <1>5 DEF Tick, RotateOpens, RotateFails, At, Goto, QueryOpens, QueryReads, QueryEnds,
                vars, logger, files
  <2> QED BY <2>1 DEF LogIsNumbered, Ascending
<1> QED BY <1>2, <1>3, <1>4, <1>5 DEF Next, LogStep

\* The line that comes next adds at most itself to what a query has collected
LEMMA ReadingOn ==
    ASSUME NEW file \in Seq(Nat), NEW q \in Query, NEW next \in Query,
           Ascending(file), Collected(q, file), q.pos + 1 <= Len(file), file[q.pos + 1] # Torn,
           next.pos = q.pos + 1,
           next.result = IF file[q.pos + 1] \in Matching
                         THEN Append(q.result, file[q.pos + 1]) ELSE q.result
    PROVE  Collected(next, file)
<1> DEFINE i == q.pos + 1
           n == file[i]
<1>1. /\ q.pos \in 0..Len(file) /\ q.pos \in Nat /\ Len(file) \in Nat
      /\ i \in Nat /\ i \in 1..Len(file) /\ n \in Nat /\ n # Torn
      /\ next.pos = i /\ q.result \in Seq(Nat) /\ Len(q.result) \in Nat
  <2>1. q.pos \in Nat /\ q.result \in Seq(Nat)
    BY DEF Query, Line
  <2>2. q.pos \in 0..Len(file)
    BY DEF Collected
  <2>3. Len(file) \in Nat /\ Len(q.result) \in Nat
    BY <2>1
  <2>4. i \in Nat /\ i \in 1..Len(file)
    BY <2>1, <2>3
  <2>5. n \in Nat
    BY <2>4
  <2> QED BY <2>1, <2>2, <2>3, <2>4, <2>5
<1>p. \A m \in Nat : /\ \A j \in 1..(m + 1) : j \in 1..m \/ j = m + 1
                     /\ \A j \in 1..m : j \in 1..(m + 1) /\ j < m + 1
  OBVIOUS
<1>2. i \in 0..Len(file) /\ \A j \in 1..i : j \in 1..q.pos \/ j = i
  BY <1>1, <1>p
<1>3. \A j \in 1..q.pos : j \in 1..i /\ j < i /\ j \in 1..Len(file)
  <2>1. \A m \in Nat : \A j \in 1..m : m <= Len(file) => j \in 1..Len(file)
    BY <1>1
  <2> QED BY <1>1, <1>p, <2>1
<1>4. \A k \in 1..Len(q.result) : q.result[k] < n
  <2> SUFFICES ASSUME NEW k \in 1..Len(q.result) PROVE q.result[k] < n
    OBVIOUS
  <2>1. PICK j \in 1..q.pos : q.result[k] = file[j] /\ file[j] # Torn
    BY DEF Collected
  <2> QED BY <1>1, <1>3, <2>1 DEF Ascending
<1>5. i \in 1..i
  BY <1>1
<1> HIDE DEF i
<1>6. CASE n \in Matching
  <2>1. /\ next.result = Append(q.result, n) /\ Len(next.result) = Len(q.result) + 1
        /\ next.result[Len(q.result) + 1] = n
        /\ \A k \in 1..Len(q.result) : next.result[k] = q.result[k]
    <3>1. next.result = Append(q.result, n)
      BY <1>6 DEF i
    <3> HIDE DEF n
    <3>2. /\ Len(Append(q.result, n)) = Len(q.result) + 1
          /\ Append(q.result, n)[Len(q.result) + 1] = n
          /\ \A k \in 1..Len(q.result) : Append(q.result, n)[k] = q.result[k]
      BY <1>1
    <3> QED BY <3>1, <3>2
  <2> HIDE DEF n
  <2>2. /\ Len(q.result) + 1 \in 1..Len(next.result)
        /\ \A k \in 1..Len(q.result) : k \in 1..Len(next.result)
        /\ \A k \in 1..Len(next.result) : k \in 1..Len(q.result) \/ k = Len(q.result) + 1
    <3>1. \A m \in Nat : /\ m + 1 \in 1..(m + 1) /\ \A k \in 1..m : k \in 1..(m + 1)
                         /\ \A k \in 1..(m + 1) : k \in 1..m \/ k = m + 1
      OBVIOUS
    <3> QED BY <1>1, <2>1, <3>1
  <2>3. ASSUME NEW j \in 1..i, file[j] \in Matching
        PROVE  \E k \in 1..Len(next.result) : next.result[k] = file[j]
    <3>1. CASE j = i
      <4>1. next.result[Len(q.result) + 1] = file[j]
        BY <2>1, <3>1 DEF n
      <4> QED BY <2>2, <4>1
    <3>2. CASE j \in 1..q.pos
      <4>1. PICK k \in 1..Len(q.result) : q.result[k] = file[j]
        BY <2>3, <3>2 DEF Collected
      <4> QED BY <2>1, <2>2, <4>1
    <3> QED BY <1>2, <3>1, <3>2
  <2>4. ASSUME NEW k \in 1..Len(next.result)
        PROVE  \E j \in 1..i : next.result[k] = file[j] /\ file[j] # Torn
    <3>1. CASE k = Len(q.result) + 1
      <4>1. next.result[k] = file[i] /\ file[i] # Torn
        BY <1>1, <2>1, <3>1 DEF n
      <4> QED BY <1>5, <4>1
    <3>2. CASE k \in 1..Len(q.result)
      <4>1. PICK j \in 1..q.pos : q.result[k] = file[j] /\ file[j] # Torn
        BY <3>2 DEF Collected
      <4> QED BY <1>3, <2>1, <3>2, <4>1
    <3> QED BY <2>2, <3>1, <3>2
  <2>5. ASSUME NEW k \in 1..Len(next.result), NEW m \in 1..Len(next.result), k < m
        PROVE  next.result[k] < next.result[m]
    <3>1. k \in 1..Len(q.result)
      <4>1. \A l \in Nat : \A x, y \in 1..(l + 1) : x < y => x \in 1..l
        OBVIOUS
      <4> QED BY <1>1, <2>1, <2>5, <4>1
    <3>2. CASE m \in 1..Len(q.result)
      <4>1. q.result[k] < q.result[m]
        BY <2>5, <3>1, <3>2 DEF Collected
      <4> QED BY <2>1, <3>1, <3>2, <4>1
    <3>3. CASE m = Len(q.result) + 1
      BY <1>4, <2>1, <3>1, <3>3
    <3> QED BY <2>2, <3>2, <3>3
  <2> QED BY <1>1, <1>2, <2>3, <2>4, <2>5 DEF Collected
<1>7. CASE n \notin Matching
  <2>1. next.result = q.result
    BY <1>7 DEF i
  <2> HIDE DEF n
  <2>2. ASSUME NEW j \in 1..i, file[j] \in Matching
        PROVE  \E k \in 1..Len(q.result) : q.result[k] = file[j]
    BY <1>2, <1>7, <2>2 DEF Collected, n
  <2>3. ASSUME NEW k \in 1..Len(q.result)
        PROVE  \E j \in 1..i : q.result[k] = file[j] /\ file[j] # Torn
    BY <1>3 DEF Collected
  <2>4. \A k, m \in 1..Len(q.result) : k < m => q.result[k] < q.result[m]
    BY DEF Collected
  <2>5. next.pos = i /\ i \in 0..Len(file)
    BY <1>1, <1>2
  <2>6. ASSUME NEW k \in 1..Len(next.result)
        PROVE  \E j \in 1..next.pos : next.result[k] = file[j] /\ file[j] # Torn
    BY <2>1, <2>3, <2>5
  <2>7. ASSUME NEW j \in 1..next.pos, file[j] \in Matching
        PROVE  \E k \in 1..Len(next.result) : next.result[k] = file[j]
    BY <2>1, <2>2, <2>5, <2>7
  <2>8. \A k, m \in 1..Len(next.result) : k < m => next.result[k] < next.result[m]
    BY <2>1, <2>4
  <2>9. next.pos \in 0..Len(file)
    BY <2>5
  <2> QED BY <2>6, <2>7, <2>8, <2>9 DEF Collected
<1> QED BY <1>6, <1>7

\* Whatever is written, renamed or read meanwhile, a query stays sound
LEMMA SoundInductive ==
    ASSUME IInv, Queried, LogIsNumbered, QueryIsSound, [Next]_vars
    PROVE  QueryIsSound'
<1>1. /\ log \in Seq(Nat) /\ last \in Nat /\ Torn \in Nat /\ query \in Query
      /\ QueriedFile \in Seq(Nat) /\ NoQuery \in Query
  BY DEF IInv, Typed, Queried, Query, QueriedFile, Line, NoQuery, Torn
<1>2. CASE RotateRenames
  <2>1. query' = IF query.on /\ ~query.renamed
                 THEN [query EXCEPT !.renamed = TRUE, !.lines = log] ELSE query
    BY <1>2 DEF RotateRenames
  <2>2. CASE query.on
    <3>1. /\ query'.on /\ query'.pos = query.pos /\ query'.result = query.result
          /\ query'.owed = query.owed /\ QueriedFile' = QueriedFile
      BY <1>1, <2>1, <2>2 DEF Query, QueriedFile
    <3>2. Ascending(QueriedFile) /\ Collected(query, QueriedFile) /\ Owes(query, QueriedFile)
      BY <2>2 DEF QueryIsSound
    <3>3. Ascending(QueriedFile')
      BY <3>1, <3>2 DEF Ascending
    <3>4. Collected(query', QueriedFile')
      BY <3>1, <3>2 DEF Collected
    <3>5. Owes(query', QueriedFile')
      BY <3>1, <3>2 DEF Owes
    <3> QED BY <3>3, <3>4, <3>5 DEF QueryIsSound, Ascending, Collected, Owes
  <2>3. CASE ~query.on
    BY <2>1, <2>3 DEF QueryIsSound
  <2> QED BY <2>2, <2>3
<1>3. CASE (LogWrites \/ LogFails) /\ query.on
  <2>1. query' = query
    BY <1>3 DEF LogWrites, LogFails
  <2>2. Ascending(QueriedFile) /\ Collected(query, QueriedFile) /\ Owes(query, QueriedFile)
    BY <1>3 DEF QueryIsSound
  <2>3. CASE QueriedFile' = QueriedFile
    BY <2>1, <2>2, <2>3 DEF QueryIsSound, Ascending, Collected, Owes
  <2>4. CASE QueriedFile' # QueriedFile
    <3>1. QueriedFile = log /\ QueriedFile' = log'
      BY <2>1, <2>4 DEF QueriedFile
    <3>2. /\ pc = "write" /\ (log' = Append(log, last) \/ log' = Append(log, Torn))
      BY <1>3, <2>4, <3>1, WhatIsWritten
    <3>3. \A i \in 1..Len(log) : log[i] < last
      BY <3>2 DEF LogIsNumbered
    <3>4. PICK n \in Nat : log' = Append(log, n) /\ (n = Torn \/ n = last)
      BY <1>1, <3>2
    <3>5. /\ Ascending(Append(log, n)) /\ Collected(query, Append(log, n))
          /\ Owes(query, Append(log, n))
      BY <1>1, <2>2, <3>1, <3>3, <3>4, LongerFile
    <3>6. QueriedFile' = Append(log, n)
      BY <3>1, <3>4
    <3>7. Ascending(QueriedFile')
      BY <3>5, <3>6
    <3>8. Collected(query', QueriedFile')
      BY <2>1, <3>5, <3>6
    <3>9. Owes(query', QueriedFile')
      BY <2>1, <3>5, <3>6
    <3> QED BY <3>7, <3>8, <3>9 DEF QueryIsSound, Ascending, Collected, Owes
  <2> QED BY <2>3, <2>4
<1>4. CASE Restart \/ QueryEnds
  <2>1. query' = NoQuery
    BY <1>4 DEF Restart, QueryEnds
  <2> QED BY <2>1 DEF QueryIsSound, NoQuery
<1>5. CASE QueryOpens
  <2>1. /\ query' = [NoQuery EXCEPT !.on = TRUE, !.owed = accepted \cap ToSet(log) \cap Matching]
        /\ log' = log
    BY <1>5 DEF QueryOpens, files
  <2>2. /\ QueriedFile' = log /\ query'.pos = 0 /\ query'.result = <<>>
        /\ query'.owed = accepted \cap ToSet(log) \cap Matching
    BY <2>1 DEF QueriedFile, NoQuery
  <2>3. Ascending(log)
    BY DEF LogIsNumbered
  <2>4. Len(log) \in Nat /\ Len(query'.result) = 0
    BY <1>1, <2>2
  <2>5. Collected(query', log)
    BY <2>2, <2>4 DEF Collected
  <2>6. ASSUME NEW n \in query'.owed PROVE n \in Matching /\ \E i \in 1..Len(log) : log[i] = n
    <3>1. n \in Matching /\ n \in ToSet(log)
      BY <2>2, <2>6
    <3> QED BY <1>1, <3>1 DEF ToSet
  <2>7. Owes(query', log)
    BY <2>6 DEF Owes
  <2> QED BY <2>2, <2>3, <2>5, <2>7 DEF QueryIsSound, Ascending, Collected, Owes
<1>6. CASE QueryReads
  <2>1. /\ query.on /\ query.pos + 1 <= Len(QueriedFile) /\ QueriedFile[query.pos + 1] # Torn
        /\ query' = [query EXCEPT !.pos = query.pos + 1,
                          !.result = IF QueriedFile[query.pos + 1] \in Matching
                                     THEN Append(@, QueriedFile[query.pos + 1]) ELSE @]
        /\ log' = log
    BY <1>6 DEF QueryReads, files
  <2>2. query' \in Query
    BY <1>6, QueryInductive DEF IInv, Queried, Next
  <2>3. /\ query'.pos = query.pos + 1 /\ query'.owed = query.owed /\ QueriedFile' = QueriedFile
        /\ query'.result = IF QueriedFile[query.pos + 1] \in Matching
                           THEN Append(query.result, QueriedFile[query.pos + 1])
                           ELSE query.result
    BY <1>1, <2>1 DEF Query, QueriedFile
  <2>4. Ascending(QueriedFile) /\ Collected(query, QueriedFile) /\ Owes(query, QueriedFile)
    BY <2>1 DEF QueryIsSound
  <2>5. Collected(query', QueriedFile)
    BY <1>1, <2>1, <2>2, <2>3, <2>4, ReadingOn
  <2>6. Ascending(QueriedFile')
    BY <2>3, <2>4
  <2>7. Collected(query', QueriedFile')
    BY <2>3, <2>5
  <2>8. Owes(query', QueriedFile')
    BY <2>3, <2>4 DEF Owes
  <2> QED BY <2>6, <2>7, <2>8 DEF QueryIsSound, Ascending, Collected, Owes
<1>7. CASE \/ Tick \/ LogBegins \/ RotateOpens \/ RotateFails \/ UNCHANGED vars
           \/ (LogWrites \/ LogFails) /\ ~query.on
  <2>1. query' = query /\ (query.on => log' = log)
    BY <1>7 DEF Tick, LogBegins, RotateOpens, RotateFails, LogWrites, LogFails, vars, files
  <2> QED BY <2>1 DEF QueryIsSound, QueriedFile, Ascending, Collected, Owes
<1> QED BY <1>2, <1>3, <1>4, <1>5, <1>6, <1>7 DEF Next, LogStep

\* What a query leaves out of the matching entries it has read is the oldest part
LEMMA AnswerIsTail ==
    ASSUME query \in Query, NEW k \in 1..Len(query.result),
           \A i, j \in 1..Len(query.result) : i < j => query.result[i] < query.result[j]
    PROVE  \/ query.result[k] \in ToSet(Answer)
           \/ Len(Answer) = Limit /\ \A m \in ToSet(Answer) : query.result[k] < m
<1> DEFINE r == query.result
           from == IF Len(r) > Limit THEN Len(r) - Limit + 1 ELSE 1
           tail == SubSeq(r, from, Len(r))
<1>1. r \in Seq(Nat) /\ Len(r) \in Nat /\ Limit \in Nat
  BY SizeAssumption DEF Query, Line
<1>2. from \in 1..(Len(r) + 1)
  BY <1>1
<1> HIDE DEF from
<1>3. /\ tail \in Seq(Nat) /\ Len(tail) = Len(r) - from + 1
      /\ \A i \in 1..(Len(r) - from + 1) : tail[i] = r[from + i - 1]
  <2>1. /\ Len(tail) = IF from <= Len(r) THEN Len(r) - from + 1 ELSE 0
        /\ \A i \in 1..(Len(r) - from + 1) : tail[i] = r[from + i - 1]
        /\ tail \in Seq(Nat)
    BY <1>1, <1>2
  <2> HIDE DEF r, tail
  <2>2. (from <= Len(r) /\ Len(tail) = Len(r) - from + 1) \/ (Len(tail) = 0 /\ Len(r) - from + 1 = 0)
    BY <1>1, <1>2, <2>1
  <2>3. Len(tail) = Len(r) - from + 1
    BY <2>2
  <2> QED BY <2>1, <2>3
<1>4. Answer = Reverse(tail)
  BY DEF Answer, from
<1> HIDE DEF tail
<1>5. /\ DOMAIN Answer = 1..(Len(r) - from + 1)
      /\ Len(Answer) = Len(r) - from + 1
      /\ \A i \in 1..(Len(r) - from + 1) : Answer[i] = tail[(Len(r) - from + 1) - i + 1]
  <2>1. Answer = [i \in 1..(Len(r) - from + 1) |-> tail[(Len(r) - from + 1) - i + 1]]
    BY <1>3, <1>4 DEF Reverse
  <2>2. Len(r) - from + 1 \in Nat
    BY <1>1, <1>2
  <2> HIDE DEF r
  <2> QED BY <2>1, <2>2
<1> HIDE DEF r
<1>6. ASSUME NEW i \in 1..(Len(r) - from + 1)
      PROVE  Answer[i] = r[Len(r) - i + 1] /\ Len(r) - i + 1 \in from..Len(r)
  <2>1. (Len(r) - from + 1) - i + 1 \in 1..(Len(r) - from + 1)
        /\ from + ((Len(r) - from + 1) - i + 1) - 1 = Len(r) - i + 1
        /\ Len(r) - i + 1 \in from..Len(r)
    BY <1>1, <1>2
  <2> QED BY <1>3, <1>5, <2>1
<1>7. k \in 1..Len(r)
  BY DEF r
<1>8. CASE k >= from
  <2>1. Len(r) - k + 1 \in 1..(Len(r) - from + 1) /\ Len(r) - (Len(r) - k + 1) + 1 = k
    BY <1>1, <1>2, <1>7, <1>8
  <2>2. Answer[Len(r) - k + 1] = r[k] /\ Len(r) - k + 1 \in DOMAIN Answer
    BY <1>5, <1>6, <2>1
  <2> QED BY <2>2 DEF ToSet, r
<1>9. CASE k < from
  <2>1. Len(r) > Limit /\ from = Len(r) - Limit + 1
    BY <1>1, <1>7, <1>9 DEF from
  <2>2. Len(Answer) = Limit
    BY <1>1, <1>5, <2>1
  <2>3. ASSUME NEW m \in ToSet(Answer) PROVE r[k] < m
    <3>1. PICK i \in 1..(Len(r) - from + 1) : Answer[i] = m
      BY <1>5 DEF ToSet
    <3>2. m = r[Len(r) - i + 1] /\ Len(r) - i + 1 \in from..Len(r)
      BY <1>6, <3>1
    <3>3. Len(r) - i + 1 \in 1..Len(r) /\ k < Len(r) - i + 1
      BY <1>1, <1>2, <1>7, <1>9, <3>2
    <3> QED BY <1>7, <3>2, <3>3 DEF r
  <2> QED BY <2>2, <2>3 DEF r
<1> QED BY <1>1, <1>2, <1>7, <1>8, <1>9

\* A query that has come to the end of its file answers with all it owes, or with
\* Limit entries that are younger than what it leaves out; for any rotations,
\* torn lines and failures meanwhile, any filter and any limit.
THEOREM QueriesAreComplete == Spec => QueryIsComplete
<1> DEFINE Inv == IInv /\ Queried /\ LogIsNumbered /\ QueryIsSound
           Ended == QueryEnds =>
                        \A n \in query.owed :
                           n \in ToSet(Answer) \/ (Len(Answer) = Limit /\ \A m \in ToSet(Answer) : n < m)
<1>1. Init => Inv
  <2> SUFFICES ASSUME Init PROVE Inv
    OBVIOUS
  <2>1. IInv
    BY Inductive
  <2>2. Queried /\ QueryIsSound
    BY DEF Init, Queried, Query, NoQuery, Line, QueryIsSound
  <2>3. LogIsNumbered
    BY DEF Init, LogIsNumbered, Ascending
  <2> QED BY <2>1, <2>2, <2>3
<1>2. Inv /\ [Next]_vars => Inv'
  <2> SUFFICES ASSUME Inv, [Next]_vars PROVE Inv'
    OBVIOUS
  <2>1. IInv'
    BY Inductive
  <2>2. Queried'
    BY QueryInductive DEF IInv
  <2>3. LogIsNumbered'
    BY NumbersInductive
  <2>4. QueryIsSound'
    BY SoundInductive
  <2> QED BY <2>1, <2>2, <2>3, <2>4
<1>3. Inv => Ended
  <2> SUFFICES ASSUME Inv, QueryEnds, NEW n \in query.owed
               PROVE  \/ n \in ToSet(Answer)
                      \/ Len(Answer) = Limit /\ \A m \in ToSet(Answer) : n < m
    OBVIOUS
  <2>1. /\ query.pos = Len(QueriedFile) /\ Collected(query, QueriedFile)
        /\ Owes(query, QueriedFile) /\ query \in Query
    BY DEF QueryEnds, QueryIsSound, Queried
  <2>2. PICK i \in 1..Len(QueriedFile) : QueriedFile[i] = n /\ n \in Matching
    BY <2>1 DEF Owes
  <2>3. PICK k \in 1..Len(query.result) : query.result[k] = n
    BY <2>1, <2>2 DEF Collected
  <2>4. \A j, m \in 1..Len(query.result) : j < m => query.result[j] < query.result[m]
    BY <2>1 DEF Collected
  <2>5. \/ query.result[k] \in ToSet(Answer)
        \/ Len(Answer) = Limit /\ \A m \in ToSet(Answer) : query.result[k] < m
    BY <2>1, <2>4, AnswerIsTail
  <2> QED BY <2>3, <2>5
<1>4. Inv => [Ended]_vars
  BY <1>3
<1> HIDE DEF Ended, Inv
<1>5. Spec => [][Ended]_vars
  BY <1>1, <1>2, <1>4, PTL DEF Spec
<1> QED
  BY <1>5 DEF QueryIsComplete, Ended
=============================================================================
