\* Modules of four headers in two files.
CONSTANTS
    Inputs <- MCInputs
    Import = {Imported}
    File = {"a", "b"}
    Undeclared = Undeclared
    Missing = Missing
    PublicExport = PublicExport
    Unbound = Unbound
    External = External
    Hidden = Hidden
    Unknown = Unknown
SPECIFICATION Spec
INVARIANTS
    UsesComeFirst
    ReportsAreExact
    RecursionIsBounded
    CyclesLeaveTheFile
CHECK_DEADLOCK FALSE
