CONSTANTS
    e1 = e1
    e2 = e2
    i1 = i1
    i2 = i2
    i3 = i3
    i4 = i4
    Events = {e1, e2}
    Inputs = {i1, i2, i3, i4}
    EventOf <- FileEvents
    Kinds = {k1}
    None = None
    MaxBuilds = 1
    MaxChanges = 1
    MaxDeaths = 1
SPECIFICATION Spec
INVARIANT ConsentPerBuild
PROPERTIES DecisionTakenUp
