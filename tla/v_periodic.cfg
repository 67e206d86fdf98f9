SPECIFICATION Spec
CONSTANTS
    Callers = {c1}
    Calls = {"ScanClasses"}
    Scans = {"scan1"}
    Secure = {TRUE}
    StartupSteps = {"disable", "enable"}
    SeqModulus = 16
    SubmitCap = 2
    MaxTime = 1
    Disturbances = {"loses"}
    MaxDisturbed = 2
INVARIANTS
    PeriodicKept
CHECK_DEADLOCK FALSE
