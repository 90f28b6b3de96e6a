CONSTANTS
    Roles = {a, b}
    Required = {a, b}
    Verdicts = {"APPROVE", "REJECT"}
    Scope = "PRODUCTION_RELEASE"
    None = None
    MaxReplies = 3
    MaxArrivals = 3
    MaxReminders = 1
    MaxDeaths = 1
SYMMETRY Interchangeable
SPECIFICATION Spec
INVARIANTS ReceiptChain WithdrawalFlagged
PROPERTIES ImplementsQuorum DriftCloses
CHECK_DEADLOCK FALSE
