\* Every map, delete and create may fail; the lists answer.
CONSTANTS
    t1 = t1
    t2 = t2
    t3 = t3
    x1 = x1
    x2 = x2
    n1 = n1
    n2 = n2
    nr = nr
    None = None
    Tids <- MCTids
    NewTids <- MCNewTids
    Names <- MCNames
    Recovery <- MCRecovery
    TName <- MCTName
    ListsFail = FALSE
SPECIFICATION Spec
INVARIANT NoSilentLoss
\* main() returns and the script exits.
CHECK_DEADLOCK FALSE
