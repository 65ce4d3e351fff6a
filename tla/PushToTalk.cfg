SPECIFICATION PushToTalkSpec
CONSTANTS
    None = None
    MaxGeneration = 4
INVARIANTS
    MicrophoneOff
    ArmedIsKnown
PROPERTIES
    CancelledIsDropped
    AlwaysSettles
CHECK_DEADLOCK FALSE
