SPECIFICATION FairSpec
CONSTANTS
    Callers = {c1}
    Calls = {"SelectAndOperate", "ScanClasses", "DirectOperateNoReply", "SyncTimeWithDelay"}
    Scans = {"scan1"}
    Secure = {TRUE, FALSE}
    StartupSteps = {"disable", "enable"}
    SeqModulus = 16
    SubmitCap = 2
    MaxTime = 1
    Disturbances = {"loses", "late", "refuses", "garbles", "sendFails", "drops", "restarts", "expires", "cancels", "stops"}
    MaxDisturbed = 2
PROPERTIES
   CallsReturn
INVARIANTS
    HeldOnce
    StartupUnderWay
    ScansKept
    PairsAdjacent
CHECK_DEADLOCK FALSE
