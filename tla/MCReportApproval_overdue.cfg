SPECIFICATION FairSpec
CONSTANTS
    r1 = r1
    r2 = r2
    own = own
    shared = shared
    q1 = q1
    q2 = q2
    k1 = k1
    k2 = k2
    org = org
    Places <- SharedPlaces
    Organization <- OneOrganization
    Found <- WithZero
    Reports = {r1}
    Infos = {own, shared}
    Requests = {q1, q2}
    Crons = {k1}
    Kinds = {"approve", "assign", "overdue", "overdueCron"}
    MaxRequests = 4
    MaxFaults = 1
    MaxMitigations = 0
    Ageing = {r1}
INVARIANTS TemporaryExpires
PROPERTIES DecisionsStand ExpiredEnds
CHECK_DEADLOCK FALSE
