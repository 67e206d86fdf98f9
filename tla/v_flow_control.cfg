SPECIFICATION FairSpec
CONSTANTS
    LinkRetries = 1
    SegModulus = 3
    MaxFragment = 2
    Lengths = {2}
    MaxFragments = 1
    Lines <- Holding
PROPERTIES
    SendResumes
CHECK_DEADLOCK FALSE
