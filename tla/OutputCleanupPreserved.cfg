\* The manifest is damaged once among three builds.
CONSTANTS
    Paths = {"page.html", "about.html"}
    Managed = {"page.html", "about.html"}
    Rank <- MCRank
    Beginnings <- MCBeginnings
    Builders = {"html"}
    MaxBuilds = 3
    MaxMishaps = 1
    Mishaps = {"damage"}
SPECIFICATION Spec
CHECK_DEADLOCK FALSE
INVARIANTS
    PreservedUntilManifestIsValid
