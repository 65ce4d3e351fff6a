SPECIFICATION GithubSpec
CONSTANTS
    Pulls = {"own", "other"}
    Heads = {"h1", "h2", "h3"}
    Lasting = {"other"}
    Pictures <- MCPictures
    Checks <- MCChecks
    Allowlist = FALSE
    Concurrency = 2
    Missing = Missing
    MaxFailures = 1
    MaxChanges = 1
PROPERTIES
    ReadingsAreOfThisPoll
    SettledPullsAreShown
    OldHeadsAreSwept
CHECK_DEADLOCK FALSE
