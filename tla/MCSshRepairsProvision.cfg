\* A volume may be mid-CreateVolume (LUN, target and mapping made, no PV yet)
\* when the operator starts cleanup_orphans.py; the CSI driver does not run
\* while a script runs.
CONSTANTS
    v1 = v1
    v2 = v2
    v3 = v3
    None = None
    Vols <- MCVols
    Concurrent = FALSE
    ReadsFail = FALSE
SYMMETRY MCSymmetry
SPECIFICATION Spec
INVARIANT NoLiveLunDeleted
\* The operator stops after the three scripts.
CHECK_DEADLOCK FALSE
