CONSTANTS
    Deployments <- ThreeStages
    Targets <- ThreeStages
    TargetOf <- OwnTarget
    None = None
    MaxKills = 1
    MaxDeaths = 1
    MaxChanges = 2
SPECIFICATION FairSpec
CHECK_DEADLOCK FALSE
INVARIANTS VerifiedIsLive RolledBackIsRestored
    ReportMailedOnce
PROPERTIES Settles MismatchEnds
