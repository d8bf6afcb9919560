---------------------------- MODULE MCQuotaAgent ----------------------------
(***************************************************************************)
(* Instances of QuotaAgent for TLC.                                        *)
(***************************************************************************)
EXTENDS QuotaAgent, TLC

CONSTANTS a, b, na, nb, ia, ib, da, db

\* Two volumes with nothing in common: a native one and a CSI one
TwoVolumes ==
    (a :> [source |-> "nfs", provisioned |-> TRUE, path |-> da, name |-> na]) @@
    (b :> [source |-> "csi", provisioned |-> FALSE, path |-> db, name |-> nb])

TwoIDs == (na :> ia) @@ (nb :> ib)

OneVolume == a :> [source |-> "nfs", provisioned |-> TRUE, path |-> da, name |-> na]

OneID == na :> ia

\* The digits of ia occur in those of ib
DigitsOverlap == {<<ia, ib>>}
=============================================================================
