CONSTANTS
    Areas = {"entry", "package"}
    Entry = "entry"
    MaxEdits = 2
    MaxRebuilds = 5
    Backends = {"notify", "polling"}
    BuildsMayFail = TRUE
SPECIFICATION Spec
CHECK_DEADLOCK FALSE
INVARIANTS
    FailedBuildIsWatched
