SPECIFICATION Spec
CONSTANTS
    c1 = c1
    o1 = o1
    o2 = o2
    f1 = f1
    s1 = s1
    Clients = {c1}
    Orgs = {o1, o2}
    Flows = {f1}
    Slots = {s1}
    PersistDelay = 1
    PushDelay = 2
    Off = Off
    Null = Null
INVARIANT FlowsStayInTheirOrganization
