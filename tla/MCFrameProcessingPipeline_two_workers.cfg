CONSTANTS
    InferenceWorkers = 2
    CaptureThread = capturer
    QueueCapacity = 2
    Cooldown = 2
    Viewing = 0
    Forklifts = {f1}
    TrackId <- NoTracker
    HitLists <- AtMostOneHit
    Outcomes = {"ok"}
    Throws = {}
    Skews <- Accurate
    MaxFrames = 3
    MaxTime = 3
    MaxStarts = 1
SPECIFICATION Spec
CHECK_DEADLOCK FALSE
INVARIANTS AlertSpacing
