SPECIFICATION Spec
CONSTANTS
    s1 = s1
    s2 = s2
    c1 = c1
    c2 = c2
    imp = imp
    ask = ask
    warn = warn
    other = other
    places = places
    deforestation = deforestation
    Servers = {s1}
    Calls = {c1, c2}
    Home <- OneHome
    Jobs = {imp, ask}
    Limit = 1
    Services = {places, deforestation}
    Service <- MCService
    Command <- MCCommand
    Batches <- MCBatches
    Attempts <- NoAttempts
    Priority <- MCPriority
    Delayed = {}
    MaxLosses = 1
    MaxPollErrors = 1
    MaxFails = 2
    MaxRequests = 1
    MaxAnswers = 2
INVARIANTS TypeOK OrphansAreLost HoldAwaitsCallback NoLostWakeup SingleFlight
PROPERTIES NothingUndone
SYMMETRY CallSymmetry
CHECK_DEADLOCK FALSE
