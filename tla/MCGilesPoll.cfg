SPECIFICATION GilesSpec
CONSTANTS
    Tasks = {"t1", "t2"}
    Views <- MCViews
    NoTask = NoTask
    MaxTrouble = 1
INVARIANTS
    ShownIsOffered
PROPERTIES
    DismissedOnlyIfUnlisted
    ReportedTasksDepart
    SettledTasksAreShown
CHECK_DEADLOCK FALSE
