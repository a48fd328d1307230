SPECIFICATION Spec
CONSTANTS
    r1 = r1
    r2 = r2
    q1 = q1
    q2 = q2
    k1 = k1
    k2 = k2
    j1 = j1
    j2 = j2
    j3 = j3
    j4 = j4
    Reports = {r1}
    Jobs = {j1, j2}
    Requests = {q1, q2}
    Crons = {k1}
    Batches = 2
    Choices = {"Complaint", "Ready to Proceed"}
    MaxStarts = 2
    MaxFaults = 1
    MaxPauses = 1
    MaxCallbacks = 2
INVARIANTS TypeOK TransientExplained  ChainTold 
SYMMETRY Symmetry
