\* Nothing is provisioned while a script runs; any cat and any command may fail.
CONSTANTS
    v1 = v1
    v2 = v2
    v3 = v3
    None = None
    Vols <- MCVols
    Concurrent = FALSE
    ReadsFail = TRUE
SYMMETRY MCSymmetry
SPECIFICATION Spec
INVARIANT ServedOrReported
\* The operator stops after the three scripts.
CHECK_DEADLOCK FALSE
