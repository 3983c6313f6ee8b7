\* The lists succeed; a recovery target may hold a LUN no other target maps.
CONSTANTS
    t1 = t1
    t2 = t2
    x1 = x1
    x2 = x2
    l1 = l1
    l2 = l2
    None = None
    Tids <- MCTids
    NewTids <- MCNewTids
    Luns <- MCLuns
    Recovery <- MCRecovery
    ListsFail = FALSE
SPECIFICATION Spec
INVARIANT LunsServedOrReported
\* main() returns and the script exits.
CHECK_DEADLOCK FALSE
