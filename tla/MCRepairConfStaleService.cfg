\* After "Done!", does the running service use the cleaned file?
CONSTANTS
    b1 = b1
    b2 = b2
    r1 = r1
    NoFile = NoFile
    Blocks <- MCBlocks
    Recovery <- MCRecovery
    Leftovers <- MCLeftovers
    MaxBlocks = 3
    Overtake = FALSE
SYMMETRY MCSymmetry
SPECIFICATION Spec
INVARIANT ServiceRunsFileConfig
\* main() returns and the script exits.
CHECK_DEADLOCK FALSE
