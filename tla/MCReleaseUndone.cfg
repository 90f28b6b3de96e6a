CONSTANTS
    t1 = t1
    d1 = d1
    d2 = d2
    d3 = d3
    Deployments = {d1, d2, d3}
    Targets = {t1}
    TargetOf <- OneTarget
    None = None
    MaxKills = 1
SYMMETRY Interchangeable
SPECIFICATION Spec
INVARIANT RollbackStays
