SPECIFICATION FairSpec
CONSTANTS
    r1 = r1
    r2 = r2
    q1 = q1
    q2 = q2
    k1 = k1
    k2 = k2
    j1 = j1
    j2 = j2
    j3 = j3
    j4 = j4
    Reports = {r1, r2}
    Jobs = {j1, j2}
    Requests = {q1}
    Crons = {k1}
    Batches = 1
    Choices = {}
    MaxStarts = 2
    MaxFaults = 1
    MaxPauses = 0
    MaxCallbacks = 0
INVARIANTS ScheduledIsTaken
PROPERTIES WritingEnds
