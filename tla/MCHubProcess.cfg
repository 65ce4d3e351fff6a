CONSTANTS
    Absent = Absent
    None = None
    Broken = Broken
    EnvToken = EnvToken
    DefaultPort = 4317
    NoEndpoints = NoEndpoints
    Sidecars = {s1, s2}
    Commands = {c1}
    Keys <- MCKeys
    Environments <- MCEnvironments
    Flags <- MCFlags
    MaxCrashes = 1

SPECIFICATION ProcessSpec
INVARIANTS TokenIsShared DesktopHasItsHub
PROPERTY LaunchesSettle
