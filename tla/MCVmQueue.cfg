CONSTANTS
    Requesters = {q1, q2, q3}
    Hosts = {h1}
    Services = {s1, s2}
    h1 = h1
    s1 = s1
    s2 = s2
    Parent <- MCParent
    None = None
SPECIFICATION FairQueueSpec
PROPERTIES NoOvertaking HostServed
