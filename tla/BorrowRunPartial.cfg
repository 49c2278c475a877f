SPECIFICATION FullSpec
CONSTANTS
    Locals <- MCLocals
    Params <- MCParams
    Mutable <- MCMutable
    Temps <- MCTemps
    Programs <- Diamonds
    x = x
    y = y
    c = c
    m = m
    t = t
    None = None
    MaxHops = 9
INVARIANT ViewsStayExclusive
