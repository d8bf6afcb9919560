--------------------------- MODULE MCOrphanCleanup ---------------------------
(***************************************************************************)
(* Instances of OrphanCleanup for TLC.                                     *)
(***************************************************************************)
EXTENDS OrphanCleanup, TLC

CONSTANTS t, s, h

\* One directory with one subdirectory
OneBranch == s :> t

\* A single directory
NoBranch == <<>>
=============================================================================
