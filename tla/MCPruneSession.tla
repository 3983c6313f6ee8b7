--------------------------- MODULE MCPruneSession ---------------------------
(* Three targets: a non-CSI one and the targets of two PVs; two LUNs.      *)
EXTENDS PruneSession, TLC

CONSTANTS t1, t2, t3, u1, u2, v1, v2

MCTids == {t1, t2, t3}
MCUuids == {u1, u2}
MCVols == {v1, v2}
MCTidVol == (t1 :> None) @@ (t2 :> v1) @@ (t3 :> v2)
MCSymmetry == Permutations(MCUuids)
=============================================================================
