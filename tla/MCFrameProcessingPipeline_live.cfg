CONSTANTS
    InferenceWorkers = 2
    CaptureThread = capturer
    QueueCapacity = 1
    Cooldown = 2
    Viewing = 0
    Forklifts = {f1}
    TrackId <- NoTracker
    HitLists <- NoAlert
    Outcomes = {"blank", "ok"}
    Throws = {"inferring"}
    Skews <- Accurate
    MaxFrames = 2
    MaxTime = 0
    MaxStarts = 1
SPECIFICATION FairSpec
CHECK_DEADLOCK FALSE
INVARIANTS StopQuiesces
PROPERTIES StopReturns FramesAreServed
