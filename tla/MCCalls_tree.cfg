CONSTANTS
    None = None
    f = f
    g = g
    s1 = s1
    s2 = s2
    MaxCalls = 3
    Fibers = {f, g}
    Streaming = {g}
    Durable = {f}
    Cost <- CostOfTwo
    OwnSink <- OwnSinkOfG
    Sinks = {s1, s2}
    Roots <- Contexts
    Limits = {1}
    Spent = {1}
    Patience = 1
    MaxTime = 1
SPECIFICATION FairSpec
CHECK_DEADLOCK FALSE
INVARIANT TypeOK
INVARIANT BudgetBoundsDepth
INVARIANT CoherentTrace
PROPERTY AdmittedInTime
PROPERTY EveryCallReturns
PROPERTY StreamsUnwind
