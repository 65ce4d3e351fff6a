SPECIFICATION HubClientSpec
CONSTANTS
    Hubs = {"home", "lab", "wrong"}
    Refusing = {"wrong"}
    Items = {"i1", "i2"}
    Ranked <- MCRanked
    Calls = {c1, c2}
    None = None
    Patience = 1
    MaxGeneration = 4
    MaxVersion = 1
    MaxTrouble = 2
INVARIANTS
    LiveIsHonest
    OneConversation
PROPERTIES
    ViewFollowsPairing
    Reconnects
CHECK_DEADLOCK FALSE
