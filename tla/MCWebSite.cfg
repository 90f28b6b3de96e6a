CONSTANTS
    s1 = s1
    s2 = s2
    a1 = a1
    a2 = a2
    r1 = r1
    o = o
    Sessions = {s1, s2}
    Origin <- OneOrigin
    Processes = {p1}
    None = None
    Attempts = {a1}
    Acts <- FirstActs
    Requests = {r1}
    Asks <- BothAsk
    MaxReviews = 1
    MaxLosses = 1
    MaxDeaths = 1
    MaxFaults = 1
SPECIFICATION Spec
INVARIANTS UnsettledFenced ReservationReturned
PROPERTIES HistoryReviewed WithdrawnStays
CHECK_DEADLOCK FALSE
