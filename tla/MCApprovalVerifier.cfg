CONSTANTS
    Roles = {a, b}
    Required = {a}
    Verdicts = {"APPROVE", "REJECT"}
    Scope = "PRODUCTION_RELEASE"
    None = None
    MaxReplies = 2
    MaxArrivals = 2
    MaxReminders = 1
    MaxDeaths = 1
SPECIFICATION FairSpec
INVARIANTS ReceiptChain WithdrawalFlagged
PROPERTIES ImplementsQuorum DriftCloses RepliesProcessed VerifiedHandedOver
CHECK_DEADLOCK FALSE
