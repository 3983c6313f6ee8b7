--------------------------- MODULE MCRepairConf ---------------------------
EXTENDS RepairConf, TLC

CONSTANTS b1, b2, r1

MCBlocks == {b1, b2, r1}
MCRecovery == {r1}
\* an earlier run left nothing, or a one-block file
MCLeftovers == {NoFile, <<r1>>, <<b1>>}
\* b1 and b2 are both ordinary blocks
MCSymmetry == Permutations({b1, b2})
=============================================================================
