\* Can a run delete the target of a volume in use?
CONSTANTS
    l1 = l1
    l2 = l2
    t1 = t1
    t2 = t2
    t3 = t3
    NoLun = NoLun
    Failed = Failed
    Luns <- MCLuns
    Targets <- MCTargets
    Csi <- MCCsi
    NamedAfter <- MCNamedAfter
    Fresh <- MCNoFresh
    Concurrent = FALSE
SPECIFICATION Spec
INVARIANT NoActiveTargetDeleted
\* main() returns and the script exits.
CHECK_DEADLOCK FALSE
