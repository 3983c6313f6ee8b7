------------------------ MODULE MCForceDeleteTarget ------------------------
(* Line kinds: the header of the section to remove, another header, a     *)
(* body line.                                                             *)
EXTENDS ForceDeleteTarget

CONSTANTS hX, hK, b

MCLines == {hX, hK, b}
MCHeaders == {hX, hK}
MCMatching == {hX}
=============================================================================
