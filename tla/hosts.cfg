SPECIFICATION Spec
CONSTANTS
    LoopSteps = {1, 2, 3, 30}
    Tabs = {1, 2}
    MaxScore = 2
    GhostCap = 2
    GhostSeen = 2
    Slots = 2
    MaxId = 4
    Displays <- SomeDisplays
    MaxLag = 5
    LAST = 6
    TARGET = 3
    STRAY = 2
    HOLD = 2
    ESCAPE = 2
    COOL = 2
    GUARD = 2
    Sessions = {1, 2}
    MaxTimers = 4
    AudioFrames <- LoudFrames
    Rates = {80, 160, 441, 480}
    Unit = 4
    TokenIds = {0, 1, 3}
    Traces <- SomeTraces
    Steps = {50, 400, 1500}
    Models = {"newell", "ovm"}
    FrameTimes = {1, 3}
    MaxTick = 2
    Slices = 4
    Boxes = {1, 2}
    BoxTexts = {"default", "edited", "invalid"}
    Demos = {"shop", "guide", "tuple"}
    MaxFetches = 2
    HEAP = 65536
    HEAP_LIMIT = 47000
    StartBytes = 1165
    StartCells = 40232
    MaxCalls = 600
    Factor = 3
    MaxClicks = 5
    MaxLate = 2
    Starts = {16384, 1048576, 1835008}
    Requests <- SomeRequests
    Limits = {16384, 20032, 300032, 1310720, 2097152, 3000000}
    Names = {"a"}
    Data <- SomeData
    Modes <- SomeModes
    Lengths = {1}
    Offsets <- SomeOffsets
    Fds = {0, 1, 2, 3, 4}
    MAX_OPEN_FDS = 4
    MIN_CAPACITY = 3
    CAPACITY_DOUBLING_MAX = 4
    MaxSize = 3
    MaxNodes = 2
    MaxOps = 5
    Embedded <- OneFile
INVARIANTS
    TypeOK
    KeysFollowInput
    InputCountsOnce
    EventsAreShownOnce
    ViewIsShared
    DebriefTellsTheEnd
    ControlsAgree
    AudioIsFaithful
    PagesComeUp
    CounterIsShown
    GrowthSuffices
PROPERTIES
    StepsTellTheState
    StepsAreSteady
    ImplementsAbstractFiles
    WhatBeginsEnds
CHECK_DEADLOCK FALSE
