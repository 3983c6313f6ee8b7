--------------------------- MODULE MCCleanupApi ---------------------------
EXTENDS CleanupApi, TLC
CONSTANTS l1, l2, t1, t2, t3
MCLuns == {l1, l2}
MCTargets == {t1, t2, t3}
\* t3 is a target of some other application, not created by the CSI driver
MCCsi == {t1, t2}
MCNamedAfter == [t \in MCTargets |-> CASE t = t1 -> l1
                                       [] t = t2 -> l2
                                       [] t = t3 -> NoLun]
\* l2 and its target t2 are created during the run
MCFresh == {l2}
\* nothing is created during the run
MCNoFresh == {}
=============================================================================
