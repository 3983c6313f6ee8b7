---------------------------- MODULE MCSshRepairs ----------------------------
(* Three interchangeable volumes; the order of the target file is part of   *)
(* the state, so permuting the volumes is sound.                            *)
EXTENDS SshRepairs, TLC

CONSTANTS v1, v2, v3

MCVols == {v1, v2, v3}
MCSymmetry == Permutations(MCVols)
=============================================================================
