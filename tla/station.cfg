SPECIFICATION Spec
CONSTANTS
    Class = {"c1", "c2"}
    MaxEvents = 3
    Octet = 4
    MaxOctetStringLen = 3
    Grain = 2
    MaxTxFragment = 36
    MaxUpdates = 3
    maxFreezeSchedules = 2
    Scenarios <- Devices
INVARIANTS EventsTold PointsTold
PROPERTIES DeadbandHolds FreezesOnSchedule
CHECK_DEADLOCK FALSE
