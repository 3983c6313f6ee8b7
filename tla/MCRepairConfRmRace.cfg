\* With the rm of the temp files not waited for, is the upload still whole?
CONSTANTS
    b1 = b1
    b2 = b2
    r1 = r1
    NoFile = NoFile
    Blocks <- MCBlocks
    Recovery <- MCRecovery
    Leftovers <- MCLeftovers
    MaxBlocks = 3
    Overtake = TRUE
SYMMETRY MCSymmetry
SPECIFICATION Spec
PROPERTY WritesAreWhole
\* main() returns and the script exits.
CHECK_DEADLOCK FALSE
