SPECIFICATION Spec
CONSTANTS
    h1 = h1
    h2 = h2
    c1 = c1
    e1 = e1
    e2 = e2
    Cfs = {c1}
    Emails = {e1, e2}
    Givens <- OrgGiven
    Slots = {h1}
    Tries = 2
    Parts = 1
    Flagged = 0
    MaxMessages = 2
    MaxRequests = 0
    MaxFaults = 0
INVARIANTS OneDefault
CHECK_DEADLOCK FALSE
