\* Up to four messages to one session from two clients at a time, so that two
\* compressions may overlap and a message may be overtaken, with an archive, a
\* delete, a failed statement and a crash.  More than four messages are
\* compressed when two are kept.
CONSTANTS
    r1 = r1
    r2 = r2
    Reqs = {r1, r2}
    Budgets <- EventBudgets
    RecentMessageKeep = 2
    None = None
SPECIFICATION Spec
SYMMETRY Interchangeable
INVARIANTS NothingForgotten Traceable DeletedStaysDeleted
PROPERTIES ArchivedStays
CHECK_DEADLOCK FALSE
