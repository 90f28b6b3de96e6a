CONSTANTS
    Deployments <- ThreeStages
    Targets <- ThreeStages
    TargetOf <- OwnTarget
    None = None
    MaxKills = 0
    MaxDeaths = 1
    MaxChanges = 0
SPECIFICATION FairSpec
CHECK_DEADLOCK FALSE
PROPERTY MismatchRollsBack
