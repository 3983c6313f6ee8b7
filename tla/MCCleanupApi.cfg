\* synology_cleanup.py against a NAS with two CSI LUNs and targets and one
\* foreign target, while the CSI driver provisions l2 (and t2).
CONSTANTS
    l1 = l1
    l2 = l2
    t1 = t1
    t2 = t2
    t3 = t3
    NoLun = NoLun
    Failed = Failed
    Luns <- MCLuns
    Targets <- MCTargets
    Csi <- MCCsi
    NamedAfter <- MCNamedAfter
    Fresh <- MCFresh
    Concurrent = TRUE
SPECIFICATION Spec
INVARIANT NoActiveLunDeleted
\* main() returns and the script exits.
CHECK_DEADLOCK FALSE
