CONSTANTS
    Requests = {p, q, w}
    Setups = {p, q}
    Attempts = {a, b}
    None = None
    MaxUses = 2
    MaxActive = 2
SYMMETRY Alike
SPECIFICATION Spec
INVARIANTS BudgetKept RevocationLasts WritesFenced
PROPERTIES NoLateWrite
CHECK_DEADLOCK FALSE
