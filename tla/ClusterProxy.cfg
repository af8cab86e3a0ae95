\* Three requests, so that one can be put between two others and one cancelled;
\* a queue of two or three, so that one may be refused or all fit; a history of
\* two, so that records are evicted and their order shows.  The system stops when all have been served.
CONSTANTS
    r1 = r1
    r2 = r2
    r3 = r3
    n1 = n1
    Reqs = {r1, r2, r3}
    Nodes = {n1}
    None = None
    Priorities = {0, 1}
    MaxSizes = {2, 3}
    MaxHistory = 2
SYMMETRY Symmetry
SPECIFICATION Spec
CHECK_DEADLOCK FALSE
INVARIANTS QueueOrdered QueueContents CallsAreVisible HistoryExact HistoryTellsOutcome
