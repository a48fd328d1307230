SPECIFICATION FairSpec
CONSTANTS
    i1 = i1
    i2 = i2
    w1 = w1
    w2 = w2
    s1 = s1
    s2 = s2
    Items = {i1}
    Servers = {s1, s2}
    Workers = {w1, w2}
    Retries = 1
    Attempts = 3
    MaxFaults = 3
    MaxAdds = 1
    Home <- TwoHomes
INVARIANTS TypeOK DuplicatesExplained ProcessingExplained
PROPERTIES ImplementsLog Logged
CHECK_DEADLOCK FALSE
