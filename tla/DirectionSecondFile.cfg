SPECIFICATION SafetySpec
CONSTANTS
    Callers = {c1, c2}
    Intents = {i1, i2}
    Capacity = 1
    NoCaller = NoCaller
    Gated = {i1}
    Dispatches = {i2}
    Pids = {p1, p2}
    MaxTrouble = 2
INVARIANT
    RetryNeverProducesSecondFile
CHECK_DEADLOCK FALSE
