\* Two agents, so that one registers or crashes while CheckStale is at the other.
CONSTANTS
    n1 = n1
    n2 = n2
    Nodes = {n1, n2}
    None = None
    HeartbeatTimeout = 1
    MaxTries = 2
SPECIFICATION FairSpec
INVARIANTS PointersValid
PROPERTIES OnlyNewsRevives SilentNodesLeave
