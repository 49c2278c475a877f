SPECIFICATION FullSpec
CONSTANTS
    Locals <- MCLocals
    Params <- MCParams
    Mutable <- MCMutable
    Temps <- MCTemps
    Programs <- MCPrograms
    x = x
    y = y
    c = c
    m = m
    t = t
    None = None
    MaxHops = 9
INVARIANTS
    StateSound
    FutureUseMatchesPaths
    EdgesAreCovered
    NoUseAfterTransfer
    AliasesStayExclusive
