\* Two servers with one worker each and room for one job; two tasks that come
\* to any server, by any route, in the same millisecond; one crash.
CONSTANTS
    home = a
    first = t1
    Servers = {a, b}
    Tasks = {t1, t2}
    Ids = {1}
    IdOf <- SameId
    Arrivals <- FirstAtHome
    MaxConcurrent = 1
    ChanCap = 1
    MaxCrashes = 1
    None = None
SPECIFICATION ForwardingFairSpec
INVARIANTS ResultsAreTrue RunTwiceOnlyAfterFailure
PROPERTIES EveryRequestAnswered
CHECK_DEADLOCK FALSE
