CONSTANTS
    Mode = "kRelativeToBox"
    Unit = 2
    PadX = 3
    PadY = 1
    PadRatio = 1
    Classes = {"kPerson", "kForklift", "kUnknown"}
    ModelWidth = 40
    ModelHeight = 40
    SourceWidth = 20
    SourceHeight = 20
    ConfThreshold = 35
    NmsThreshold = 45
    MaxDetections = 3
    PersonIds = {}
    ForkliftIds = {}
    Outputs <- SomeOutputs
    Scenes <- ScenesOfOutputs
SPECIFICATION PerceptionSpec
INVARIANTS NobodyOverlooked NoFalseAlarmInside KeptForCause
