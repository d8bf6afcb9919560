----------------------------- MODULE MCAuditLog -----------------------------
(***************************************************************************)
(* Instances of AuditLog for TLC.                                          *)
(***************************************************************************)
EXTENDS AuditLog

\* The filter rejects the second entry and every third after it
SomeEntries == {n \in 1..12 : n % 3 # 2}
=============================================================================
