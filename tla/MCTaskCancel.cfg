CONSTANTS
    Clients = {c1}
SPECIFICATION TaskSpec
PROPERTY FinishedStays
CHECK_DEADLOCK FALSE
