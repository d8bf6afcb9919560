----------------------------- MODULE MCFileEdits -----------------------------
(***************************************************************************)
(* Instances of FileEdits for TLC.                                         *)
(***************************************************************************)
EXTENDS FileEdits, TLC

CONSTANTS a, b, na, nb, ia, ib, da, db

\* A native volume and a CSI one
TwoVolumes ==
    (a :> [name |-> na, id |-> ia, path |-> da, csi |-> FALSE]) @@
    (b :> [name |-> nb, id |-> ib, path |-> db, csi |-> TRUE])

\* The cluster begins with the native volume, and with the CSI volume or not
InstanceInit == Init /\ a \in claimed
InstanceSpec == InstanceInit /\ [][Next]_vars /\ Fairness
=============================================================================
