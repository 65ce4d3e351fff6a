SPECIFICATION SseSpec
CONSTANTS
    Clients = {c1, c2}
    Streams = {s1, s2}
    NoClient = NoClient
    BufferSize = 3
    MaxWorld = 5
    MaxRestarts = 1
INVARIANTS
    InSync
    ExactlyTheMissed
PROPERTIES
    ViewNeverGoesBack
    DeadStreamsAreReleased
CHECK_DEADLOCK FALSE
