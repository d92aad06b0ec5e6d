CONSTANTS
    InferenceWorkers = 1
    CaptureThread = capturer
    QueueCapacity = 2
    Cooldown = 2
    Viewing = 0
    Forklifts = {f1}
    TrackId <- NoTracker
    HitLists <- AtMostOneHit
    Outcomes = {"ok"}
    Throws = {"inferring"}
    Skews <- Accurate
    MaxFrames = 3
    MaxTime = 0
    MaxStarts = 1
SPECIFICATION Spec
CHECK_DEADLOCK FALSE
INVARIANTS WorkersServe
