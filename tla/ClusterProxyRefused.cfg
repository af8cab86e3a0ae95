CONSTANTS
    r1 = r1
    r2 = r2
    n1 = n1
    Reqs = {r1, r2}
    Nodes = {n1}
    None = None
    Priorities = {1}
    MaxSizes = {1}
    MaxHistory = 2
SPECIFICATION Spec
CHECK_DEADLOCK FALSE
PROPERTIES RefusedOnlyWhenFull
