CONSTANTS
    Sessions = {s1, s2}
    None = None
    Blank = Blank
    Texts <- MCTexts
    MaxReports = 2
    MaxBreaks = 2

SPECIFICATION OpencodeSpec
INVARIANT HeardIsShown
PROPERTY FollowsTheServer

CHECK_DEADLOCK FALSE
