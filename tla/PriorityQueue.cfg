\* Three jobs on two levels, two of them with one ID, and two workers: one takes
\* the job the other was woken for.  Priority 4 is out of range.  The system stops when every job is
\* gone and every worker sleeps.
CONSTANTS
    j1 = j1
    j2 = j2
    j3 = j3
    w1 = w1
    w2 = w2
    Jobs = {j1, j2, j3}
    Ids = {j1, j3}
    Original = j1
    Twin = j2
    IdOf <- SharedId
    Requested = {0, 4}
    Workers = {w1, w2}
    None = None
SYMMETRY Symmetry
SPECIFICATION Spec
INVARIANTS JobsConserved NoLostWakeup
PROPERTIES BestClaimFirst
CHECK_DEADLOCK FALSE
