CONSTANTS
    Publishers = {p1, p2}
    Sessions = {s1, s2}
    MaxQueue = 2
    MaxAlerts = 4
SPECIFICATION FairSpec
CHECK_DEADLOCK FALSE
INVARIANTS TypeOK StreamComplete NoStrandedAlert NewestKept
PROPERTIES AlertsReachClients
