CONSTANTS
    Clients = {c1}
SPECIFICATION TaskSpec
INVARIANT CancelStopsScript
CHECK_DEADLOCK FALSE
