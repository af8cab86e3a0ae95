\* Four jobs for two workers and a channel of two: the channel fills, and
\* both workers race for its head.  Two of the jobs share an ID, and a worker
\* may overwrite or delete the entry of the other.  The system stops when the
\* process is gone.
CONSTANTS
    j1 = j1
    j2 = j2
    j3 = j3
    j4 = j4
    w1 = w1
    w2 = w2
    Jobs = {j1, j2, j3, j4}
    Ids = {j1, j3, j4}
    IdOf <- SharedId
    Workers = {w1, w2}
    ChanCap = 2
    None = None
SPECIFICATION FairSpec
INVARIANTS OnePlacePerJob RunningMapExact NoJobCutShort
PROPERTIES ImplementsPool NeverVanishes AcceptedJobsFinish SignalEndsProcess
CHECK_DEADLOCK FALSE
