CONSTANTS
    Requesters = {q1, q2}
    Procs = {p1, p2}
    Ops = {"status", "request", "cancel", "acquire", "claim", "renew", "recover", "release", "operate"}
    Hosts = {h1}
    Services = {}
    h1 = h1
    s1 = s1
    Parent <- NoParent
    None = None
    NoProc = NoProc
SPECIFICATION FairSpec
PROPERTIES OwnershipEnds ImplementsQueue ImplementsAccess SilentOwnerYields
