SPECIFICATION WorldSpec
CONSTANTS
    Ids = {"session", "other"}
    Sessions = {"session"}
    Signals <- MCSignals
    Absent = Absent
    NoItem = NoItem
    PollGrace = 1
    HeartbeatGrace = 1
    QuietAfter = 1
    StaleAfter = 2
    LostAfter = 3
    TickEvery = 2
    Cap = 1
    MaxTime = 6
INVARIANTS
    OwnershipHolds
    NeverShownWorse
    ShownLiveIsFresh
    RankedView
PROPERTY
    ReportChangesOnlyBySignal
CHECK_DEADLOCK FALSE
