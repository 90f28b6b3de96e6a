CONSTANTS
    t1 = t1
    d1 = d1
    d2 = d2
    d3 = d3
    Deployments = {d1, d2, d3}
    Targets = {t1}
    TargetOf <- OneTarget
    None = None
    MaxKills = 2
SYMMETRY Interchangeable
SPECIFICATION Spec
INVARIANTS PointerResolves PassMeansRestored
PROPERTY ImplementsOrder
