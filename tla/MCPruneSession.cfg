\* Nobody changes the NAS while a script runs; the cats are reliable, and
\* prune_zombies' stop and writes succeed; every other command may fail.
CONSTANTS
    t1 = t1
    t2 = t2
    t3 = t3
    u1 = u1
    u2 = u2
    v1 = v1
    v2 = v2
    None = None
    Tids <- MCTids
    Uuids <- MCUuids
    Vols <- MCVols
    TidVol <- MCTidVol
    Concurrent = FALSE
    ReadsFail = FALSE
    StopFails = FALSE
    WritesFail = FALSE
SYMMETRY MCSymmetry
SPECIFICATION Spec
INVARIANT FilesConsistentBetweenRuns
\* Both scripts have run and the operator stops.
CHECK_DEADLOCK FALSE
