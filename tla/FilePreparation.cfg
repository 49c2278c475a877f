\* Six files at most, the thresholds scaled down so that every strategy runs
\* and three chunks hold two files each.
CONSTANTS
    String = {"a", "b", "c", "d"}
    BaseTable <- MCBaseTable
    FileText <- MCFileText
    MaxFiles = 6
    MaxThreads = 3
    AlwaysSerial = 1
    AlwaysParallel = 4
    TasksPerThread = 1
    MinChunkSize = 2
SPECIFICATION Spec
INVARIANTS
    IdsKeepTheirStrings
    PlansAreAccepted
    ChunksAmortizeTasks
    PreparationIsDeterministic
