SPECIFICATION VoiceSpec
CONSTANTS
    Items = {"pr", "task"}
    Offers <- MCOffers
    Confirming <- MCConfirming
    ConfirmTtl = 0
    ElevateFreeform = TRUE
    None = None
    Clients = {"a", "b"}
    Handlers = {h1, h2}
    Says <- MCSays
    MaxSessions = 1
    SessionTtl = 0
    MaxRetries = 1
    MaxNow = 1
INVARIANTS
    DispatchesWereApproved
    OneEffectPerGeneration
    CancelHolds
SYMMETRY MCSymmetry
CHECK_DEADLOCK FALSE
