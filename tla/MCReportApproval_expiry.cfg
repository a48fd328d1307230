SPECIFICATION Spec
CONSTANTS
    r1 = r1
    r2 = r2
    own = own
    shared = shared
    q1 = q1
    q2 = q2
    k1 = k1
    k2 = k2
    org = org
    Places <- SharedPlaces
    Organization <- OneOrganization
    Found <- AllHigh
    Reports = {r1, r2}
    Infos = {shared}
    Requests = {q1, q2}
    Crons = {k1}
    Kinds = {"approve", "shipment", "assign"}
    MaxRequests = 2
    MaxFaults = 1
    MaxMitigations = 1
    Ageing = {}
INVARIANTS TypeOK StatusKept MitigationExplained TemporaryCovered
SYMMETRY SlotSymmetry
CHECK_DEADLOCK FALSE
