SPECIFICATION FairSpec
CONSTANTS
    None = None
    Frames <- MCFrames
    Pieces <- MCPieces
    Json <- MCJson
    MaxEvents = 3
    MaxIndex = 1
    ChannelSize = 1
    PipeSize = 1
INVARIANTS
    OnlyComplete
    NoStaleSignal
PROPERTIES
    StopEnds
    NothingLeaks
CHECK_DEADLOCK FALSE
