SPECIFICATION Spec
CONSTANTS
    Rounds = {1}
    Submitted = {1}
    Unsigned = {1}
    Claimed = {0, 2}
    Testers = {t1, t2}
    Inputs = {1}
    MaxCopies = 1
    MaxJobs = 1
    MaxFaults = 0
INVARIANTS NotifiedIsProven SentIsBuilt
PROPERTY FrozenStays
CHECK_DEADLOCK FALSE
