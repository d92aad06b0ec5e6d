CONSTANTS
    Absent = Absent
    Files <- SampleFiles
    StartLimitBurst = 5
    MaxAlerts = 1
    MaxFaults = 3
SPECIFICATION FairSpec
CHECK_DEADLOCK FALSE
INVARIANTS NothingLost CleanExit
PROPERTIES ShutdownCompletes Recovers
