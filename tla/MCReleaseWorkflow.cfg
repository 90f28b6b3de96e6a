SPECIFICATION FairSpec
CONSTANTS
    Rounds = {1, 2}
    Submitted = {1}
    Unsigned = {1}
    Claimed = {0, 3}
    Testers = {t1}
    Inputs = {1}
    MaxCopies = 1
    MaxJobs = 2
    MaxFaults = 1
INVARIANTS NotifiedIsProven SentIsBuilt
PROPERTIES PassReachesTester RequestReachesGate
CHECK_DEADLOCK FALSE
