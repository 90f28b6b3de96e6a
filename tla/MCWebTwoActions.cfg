CONSTANTS
    s1 = s1
    s2 = s2
    a1 = a1
    a2 = a2
    r1 = r1
    o = o
    Sessions = {s1}
    Origin <- OneOrigin
    Processes = {}
    None = None
    Attempts = {a1, a2, a3}
    Acts <- FirstActs
    Requests = {r1}
    Asks <- BothAsk
    MaxReviews = 0
    MaxLosses = 0
    MaxDeaths = 0
    MaxFaults = 1
SPECIFICATION Spec
INVARIANT OneAction
CHECK_DEADLOCK FALSE
