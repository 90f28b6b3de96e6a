CONSTANTS
    Requesters = {q1, q2}
    Procs = {p1, p2}
    Ops = {"acquire", "release"}
    Hosts = {h1}
    Services = {}
    h1 = h1
    s1 = s1
    Parent <- NoParent
    None = None
    NoProc = NoProc
SPECIFICATION QuietSpec
INVARIANT OwnersAreLeased
