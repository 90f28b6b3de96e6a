CONSTANTS
    Servers = {m1}
    Posts = {t1}
    Verdicts = {approve, reject}
    None = None
    MaxPages = 2
    MaxSecond = 0
    AuditRequired = FALSE
SPECIFICATION FairSpec
INVARIANT UnsentIsKnown
CHECK_DEADLOCK FALSE
