\* Two builders share a folder of three paths, one of them unmanaged and a
\* beginning of another; two mishaps of any kind disturb three builds.
CONSTANTS
    Paths = {"page.html", "about.html", "page"}
    Managed = {"page.html", "about.html"}
    Rank <- MCRank
    Beginnings <- MCBeginnings
    Builders = {"html", "generic"}
    MaxBuilds = 3
    MaxMishaps = 2
    Mishaps = {"fail", "crash", "damage"}
SPECIFICATION Spec
CHECK_DEADLOCK FALSE
INVARIANTS
    CurrentOutputsSurvive
    ManifestClaimsOwnArtifacts
    NoStaleArtifacts
PROPERTIES
    OnlyOwnArtifactsAreRemoved
