--------------------------- MODULE MCBlockFilter ---------------------------
EXTENDS BlockFilter

\* hK: header kept, hX: header naming a removed uuid, b: plain line,
\* bX: "uuid=<removed>" line, bI: b indented
CONSTANTS hK, hX, b, bX, bI

MCLines == {hK, hX, b, bX, bI}
MCHeaders == {hK, hX}
MCHeaderHits == {hX}
MCBodyHits == {bX}
\* only the indented line changes when stripped
MCStrip == [l \in MCLines |-> IF l = bI THEN b ELSE l]
=============================================================================
