---------------------------- MODULE ProjectFiles ----------------------------
(***************************************************************************)
(* The two text files in which the agent keeps its project quotas,         *)
(* internal/quota/project.go.  /etc/projid holds lines "name:id" and       *)
(* /etc/projects holds lines "id:path"; both are edited by the same two    *)
(* helpers, AppendToFile and RemoveLineFromFile.                           *)
(*                                                                         *)
(* A file is the set of its lines and a line is [key, val], the texts left *)
(* and right of the colon.  The order of the lines is left out: no line is *)
(* written twice, and the readers index the lines by their texts.          *)
(***************************************************************************)

CONSTANTS
    Name,      \* project names
    ID,        \* project identifiers (decimal texts in the files)
    Path,      \* local directories under the NFS base path
    Within     \* <<k, t>> when text k is a proper substring of text t

Text == Name \cup ID \cup Path

ASSUME WithinAssumption == Within \subseteq ((Name \cup ID) \X Text)

ProjidLine   == [key : Name, val : ID]
ProjectsLine == [key : ID, val : Path]

Line(k, v) == [key |-> k, val |-> v]

\* strings.Contains over the text of the whole file
Contains(file, k) ==
    \E line \in file : \E t \in {line.key, line.val} :
        k = t \/ <<k, t>> \in Within

\* The search key of every call is the left part of the entry
AppendToFile(file, line) ==
    IF Contains(file, line.key) THEN file ELSE file \cup {line}

\* Drops the lines that start with "k:"
RemoveLineFromFile(file, k) == {line \in file : line.key # k}

\* No two lines with the same left part
UniqueKeys(file) == \A l, m \in file : l.key = m.key => l = m
=============================================================================
