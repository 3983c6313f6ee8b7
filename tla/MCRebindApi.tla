---------------------------- MODULE MCRebindApi ----------------------------
(* Two CSI targets named after their LUNs and one recovery target; two ids *)
(* for replacement targets.                                                *)
EXTENDS RebindApi

CONSTANTS t1, t2, t3, x1, x2, n1, n2, nr

MCTids == {t1, t2, t3}
MCNewTids == {x1, x2}
MCNames == {n1, n2, nr}
MCRecovery == {t3}
MCTName == [t \in MCTids |-> CASE t = t1 -> n1 [] t = t2 -> n2 [] OTHER -> nr]
=============================================================================
