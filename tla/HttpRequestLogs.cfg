\* Four requests, two of them for the page, a ring of two, and one user
\* beside the anonymous one.
SPECIFICATION Spec
CONSTANTS
    Requests = {q1, q2, p1, p2}
    PageRequests = {p1, p2}
    Users = {u1, anonymous}
    Capacity = 2
INVARIANTS
    TypeOK
    LogIsEndOfHistory
    PageIsRecentPast
CHECK_DEADLOCK FALSE
