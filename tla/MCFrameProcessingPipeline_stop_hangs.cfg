CONSTANTS
    InferenceWorkers = 1
    CaptureThread = capturer
    QueueCapacity = 1
    Cooldown = 2
    Viewing = 0
    Forklifts = {f1}
    TrackId <- NoTracker
    HitLists <- NoAlert
    Outcomes = {"ok"}
    Throws = {}
    Skews <- Accurate
    MaxFrames = 1
    MaxTime = 0
    MaxStarts = 1
SPECIFICATION FairSpec
CHECK_DEADLOCK FALSE
PROPERTIES StopEnds
