SPECIFICATION FairSpec
CONSTANTS
    LinkRetries = 1
    SegModulus = 3
    MaxFragment = 2
    Lengths = {1, 2, 3}
    MaxFragments = 3
    Lines <- LinkLines
INVARIANTS
    WholeFragments
    InOrderOnce
    CompletedAccepted
PROPERTIES
    SendEnds
CHECK_DEADLOCK FALSE
