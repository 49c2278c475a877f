\* One tab with two streams, so that an old stream's handler can outlive the
\* reload it caused; three builds, so that a reload meets a full channel.
CONSTANTS
    Tabs = {t1}
    MaxBuilds = 3
    MaxStreams = 2
    Stalls = TRUE
SPECIFICATION FairSpec
CHECK_DEADLOCK FALSE
INVARIANTS
    NoReloadIsLost
    SettledTabIsCurrent
    ReloadsBoundedByBuilds
    PagesAreRecent
    RegistryMatchesHandlers
PROPERTIES
    ClosedStreamsAreForgotten
    BuildReachesTab
