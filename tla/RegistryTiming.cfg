\* The constants of the code, in seconds, and one agent: others matter to it only
\* through the lock a sweep holds.
CONSTANTS
    n1 = n1
    Nodes = {n1}
    None = None
    HeartbeatTimeout = 10
    MaxTries = 5
    Interval = 3
SPECIFICATION TimedSpec
INVARIANTS StaysInRotation
