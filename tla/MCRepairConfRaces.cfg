\* repair_iscsi_conf.py when the unawaited rm and cp may run after later
\* commands.
CONSTANTS
    b1 = b1
    b2 = b2
    r1 = r1
    NoFile = NoFile
    Blocks <- MCBlocks
    Recovery <- MCRecovery
    Leftovers <- MCLeftovers
    MaxBlocks = 3
    Overtake = TRUE
SYMMETRY MCSymmetry
SPECIFICATION Spec
INVARIANT TypeOK
\* main() returns and the script exits.
CHECK_DEADLOCK FALSE
