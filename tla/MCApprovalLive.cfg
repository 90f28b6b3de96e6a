CONSTANTS
    Servers = {m1}
    Posts = {t1}
    Verdicts = {approve, reject}
    None = None
    MaxPages = 2
    MaxSecond = 1
    AuditRequired = TRUE
SPECIFICATION FairSpec
INVARIANTS MailedIsRecorded SentMeansMailed DecisionsAuthenticated
PROPERTY FirstDecisionMailed
CONSTRAINT OneBoundAtATime
CHECK_DEADLOCK FALSE
