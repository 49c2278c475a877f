\* Two edits around three builds, with one tab and one event stream: a build is
\* published during each step of a page load.
CONSTANTS
    Areas = {"entry"}
    Entry = "entry"
    MaxEdits = 2
    MaxRebuilds = 2
    Backends = {"notify"}
    BuildsMayFail = FALSE
    Tabs = {t1}
    MaxBuilds = 3
    MaxStreams = 1
    Stalls = FALSE
SPECIFICATION FairDevSpec
CHECK_DEADLOCK FALSE
PROPERTIES
    ImplementsLiveReload
    SignalledEditIsShown
