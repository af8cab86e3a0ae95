\* Two audited requests and any number of others of one address, a rate of
\* two, a table with room for one of two clients, one failed insert, one
\* restart.
CONSTANTS
    Addrs = {a}
    Rate = 2
    Window = 1
    None = None
    Requests = {r1, r2}
    MaxFails = 1
    Clients = {c1, c2}
    MaxClients = 1
    StaleAfter = 1
    Absent = Absent
    MaxTime = 3
    MaxAdmitted = 4
    MaxRestarts = 1
SPECIFICATION Spec
INVARIANTS RateBounded RefusedOnlyOverRate RequestComesFirst ActiveClientsStay NothingSlipsThrough FlushIsComing
SYMMETRY Alike
CHECK_DEADLOCK FALSE
