\* clean_conf_file with block_prefix "LUN_": headers and body lines both
\* decide removal.
CONSTANTS
    hK = hK
    hX = hX
    b = b
    bX = bX
    bI = bI
    None = None
    Lines <- MCLines
    Headers <- MCHeaders
    HeaderHits <- MCHeaderHits
    BodyHits <- MCBodyHits
    MaxLen = 5
    Strip <- MCStrip
SPECIFICATION Spec
INVARIANT TypeOK
INVARIANT FilterIsBlockwise
INVARIANT RebuildIsBlockwise
\* clean_conf_file returns: the final state has no successor.
CHECK_DEADLOCK FALSE
