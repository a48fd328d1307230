SPECIFICATION FairSpec
CONSTANTS
    s1 = s1
    s2 = s2
    c1 = c1
    c2 = c2
    imp = imp
    ask = ask
    warn = warn
    other = other
    places = places
    deforestation = deforestation
    Servers = {s1, s2}
    Calls = {c1, c2}
    Home <- TwoHomes
    Jobs = {imp, warn}
    Limit = 1
    Services = {places, deforestation}
    Service <- MCService
    Command <- MCCommand
    Batches <- MCBatches
    Attempts <- MCAttempts
    Priority <- MCPriority
    Delayed = {warn}
    MaxLosses = 1
    MaxPollErrors = 0
    MaxFails = 3
    MaxRequests = 0
    MaxAnswers = 0
INVARIANTS RetriesBounded
PROPERTIES PendingIsTaken
CHECK_DEADLOCK FALSE
