--------------------------- MODULE MCHistoryStore ---------------------------
(***************************************************************************)
(* Instances of HistoryStore for TLC.                                      *)
(***************************************************************************)
EXTENDS HistoryStore

CONSTANTS p, q

\* Nothing, one directory, or both
SomeSnapshots == {<<>>, <<p>>, <<p, q>>}

OneSnapshot == {<<p>>}
=============================================================================
