CONSTANTS
    Requests = {p, q, o}
    Setups = {p, q, o}
    Attempts = {}
    None = None
    MaxUses = 1
    MaxActive = 2
SYMMETRY Alike
SPECIFICATION Spec
INVARIANT HoldWhilePending
CHECK_DEADLOCK FALSE
