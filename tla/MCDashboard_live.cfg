CONSTANTS
    Cameras = {c1, c2}
    None = None
    MaxCameras = 2
    ListLimit = 2
    Sockets = {k1, k2}
    MaxAlerts = 2
    MaxRestarts = 1
    MaxLosses = 1
SPECIFICATION FairSpec
CHECK_DEADLOCK FALSE
INVARIANTS TypeOK SlotsConsistent AlertsOnce
PROPERTIES Reconnects
