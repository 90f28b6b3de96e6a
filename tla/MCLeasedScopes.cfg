CONSTANTS
    Requesters = {q1, q2}
    Procs = {p1, p2}
    Ops = {"acquire", "release", "operate", "recover"}
    Hosts = {h1}
    Services = {s1}
    h1 = h1
    s1 = s1
    Parent <- OneParent
    None = None
    NoProc = NoProc
SYMMETRY Interchangeable
SPECIFICATION Spec
PROPERTY ImplementsAccess
