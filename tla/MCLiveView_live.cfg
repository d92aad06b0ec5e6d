CONSTANTS
    c1 = c1
    c2 = c2
    w1 = w1
    w2 = w2
    Cameras <- TwoCameras
    All = All
    Workers <- OneWorkerEach
    CameraOf <- Serves
    Sessions = {s1}
    Asks <- Requests
    MaxFrames = 2
SPECIFICATION FairSpec
CHECK_DEADLOCK FALSE
INVARIANTS NoUpdateMasked PlacesKept
PROPERTIES NeverBack ViewCatchesUp
