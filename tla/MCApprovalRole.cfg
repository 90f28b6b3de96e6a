CONSTANTS
    Servers = {m1}
    Posts = {t1, t2}
    Verdicts = {approve, reject}
    None = None
    MaxPages = 2
    MaxSecond = 0
    AuditRequired = TRUE
SYMMETRY Interchangeable
SPECIFICATION Spec
INVARIANTS NonceSingleUse SentMeansMailed DecisionsAuthenticated
CHECK_DEADLOCK FALSE
