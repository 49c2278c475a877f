CONSTANTS
    ModuleCount = 4
    MaxFacts = 4
    Observations <- MCObservations
SPECIFICATION GraphSpec
INVARIANTS
    GraphTypeOK
    ProvidersComeFirst
    ModulesCompileOnce
    CyclesAreReported
    WavesAreEarliest
    EdgesKeepTheirFirstLocation
