\* All files of up to 4 lines; every step may fail.
CONSTANTS
    hX = hX
    hK = hK
    b = b
    Lines <- MCLines
    Headers <- MCHeaders
    Matching <- MCMatching
    MaxLen = 4
SPECIFICATION Spec
INVARIANT SectionFilterIsBlockwise
INVARIANT ServiceRunsFileConfig
\* force_delete_target() returns and the script exits.
CHECK_DEADLOCK FALSE
PROPERTY ImplementsServiceConfig
