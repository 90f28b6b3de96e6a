CONSTANTS
    Roles = {a}
    Required = {a}
    Verdicts = {"APPROVE", "HOLD"}
    Scope = "PRODUCTION_RELEASE"
    None = None
    MaxReplies = 2
    MaxArrivals = 2
    MaxReminders = 1
    MaxDeaths = 0
SPECIFICATION Spec
INVARIANT LaterDecisionStands
CHECK_DEADLOCK FALSE
