\* Enough edits to disturb a rebuild twice, and a limit that rebuilds reach.
CONSTANTS
    Areas = {"entry", "package"}
    Entry = "entry"
    MaxEdits = 3
    MaxRebuilds = 2
    Backends = {"notify", "polling"}
    BuildsMayFail = TRUE
SPECIFICATION FairSpec
CHECK_DEADLOCK FALSE
INVARIANTS
    NoLostWakeup
    StaleOnlyThroughKnownGaps
    RebuildsBoundedBySignals
PROPERTIES
    SignalledEditIsBuilt
