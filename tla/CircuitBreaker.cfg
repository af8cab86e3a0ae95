\* Two callers, so that an outcome recorded late meets every state; as many
\* objects as callers, since the caller that allocates one holds none.
CONSTANTS
    c1 = c1
    c2 = c2
    o1 = o1
    o2 = o2
    Callers = {c1, c2}
    Objects = {o1, o2}
    None = None
    FailureThreshold = 2
    SuccessThreshold = 2
    Timeout = 1
SPECIFICATION FairSpec
INVARIANTS CountersMatchHistory
PROPERTIES TripsOnlyOnStreak ClosesOnlyAfterProbes OpenIsTemporary
