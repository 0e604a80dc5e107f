SPECIFICATION Spec
CONSTANTS
    Sessions = {1}
    MaxTimers = 3
    Frames = {}
    Rates = {160}
    Unit = 4
INVARIANT MicrophoneIdleIsIdle
CHECK_DEADLOCK FALSE
