CONSTANTS
    ModuleCount = 4
    Observations <- MCObservations
    Entries = {0, 2, 3}
    PathRank <- MCPathRank
    String <- MCString
    BuildTable <- MCBuildTable
    ModuleText <- MCModuleText
SPECIFICATION Spec
INVARIANTS
    ProvidersFinishFirst
    IdsKeepTheirStrings
    BuildIsDeterministic
    EveryModuleIsCompiled
