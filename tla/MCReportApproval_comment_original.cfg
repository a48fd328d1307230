SPECIFICATION FairSpec
CONSTANTS
    r1 = r1
    r2 = r2
    own = own
    shared = shared
    q1 = q1
    q2 = q2
    k1 = k1
    k2 = k2
    org = org
    Places <- SharedPlaces
    Organization <- OneOrganization
    Found <- AllHigh
    Reports = {r1, r2}
    Infos = {shared}
    Requests = {q1}
    Crons = {k1}
    Kinds = {"approve"}
    MaxRequests = 2
    MaxFaults = 0
    MaxMitigations = 0
    Ageing = {}
PROPERTIES RevertsToOriginal
CHECK_DEADLOCK FALSE
