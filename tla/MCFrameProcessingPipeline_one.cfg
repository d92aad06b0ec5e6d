CONSTANTS
    InferenceWorkers = 1
    CaptureThread = capturer
    QueueCapacity = 2
    Cooldown = 2
    Viewing = 1
    Forklifts = {f1}
    TrackId <- NoTracker
    HitLists <- UpToTwoHits
    Outcomes = {"error", "ok"}
    Throws = {"inferring", "showing", "boxing", "stamping", "alerting"}
    Skews <- SetBack
    MaxFrames = 3
    MaxTime = 3
    MaxStarts = 2
SPECIFICATION Spec
CHECK_DEADLOCK FALSE
INVARIANTS AlertSpacing AlertsFollowFrames
PROPERTIES SuppressionJustified ImplementsService
