------------------------------ MODULE MCFabric ------------------------------
(* Instances of Fabric for TLC. *)
EXTENDS Fabric, TLC

CONSTANTS k1, g1, g2

Old == [key |-> k1, gen |-> 1, digest |-> g1, size |-> 1, strict |-> FALSE]
New == [key |-> k1, gen |-> 2, digest |-> g2, size |-> 1, strict |-> FALSE]

\* Two generations of one lineage.
Upgrade == {Old, New}
UpgradeRank == (Old :> 1 @@ New :> 2)
Plans == {<<"submit", New>>, <<"verify", Old>>}
=============================================================================
