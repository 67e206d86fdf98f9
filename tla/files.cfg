SPECIFICATION FairSpec
CONSTANTS
    m1 = m1
    m2 = m2
    Masters = {m1, m2}
    Methods = {"ReadFile", "WriteFile", "DeleteFile", "FileInfo"}
    Sizes = {2, 3}
    BlockSize = 4
    Room = 2
    MasterBlock = 3
    OldSize = 3
    Credentials = {TRUE, FALSE}
    SeqModulus = 16
    MaxCalls = 2
    Disturbances = {"loses", "repeats", "late", "quiet", "fails", "expires", "shortens", "cancels", "drops"}
    MaxDisturbed = 1
INVARIANTS WriteMeansWhole ReadMeansWhole
PROPERTIES HandleReleased
CHECK_DEADLOCK FALSE
