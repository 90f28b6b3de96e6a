CONSTANTS
    Clients = {c1, c2}
SPECIFICATION FairTaskSpec
INVARIANT CleanupAfterExit
PROPERTY StatusSettles
CHECK_DEADLOCK FALSE
