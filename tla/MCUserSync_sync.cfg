SPECIFICATION FairSpec
CONSTANTS
    h1 = h1
    h2 = h2
    c1 = c1
    e1 = e1
    e2 = e2
    Cfs = {c1}
    Emails = {e1}
    Givens <- AnyGiven
    Slots = {h1, h2}
    Tries = 2
    Parts = 2
    Flagged = 2
    MaxMessages = 2
    MaxRequests = 1
    MaxFaults = 2
INVARIANTS TypeOK  
 
CHECK_DEADLOCK FALSE
