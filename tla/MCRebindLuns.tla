----------------------------- MODULE MCRebindLuns -----------------------------
(* A CSI target and a recovery target, two LUNs, two ids for new targets.   *)
EXTENDS RebindLuns, TLC

CONSTANTS t1, t2, x1, x2, l1, l2

MCTids == {t1, t2}
MCNewTids == {x1, x2}
MCLuns == {l1, l2}
MCRecovery == {t2}
=============================================================================
