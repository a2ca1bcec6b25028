SPECIFICATION Spec
CONSTANTS
    a = a
    b = b
    Orgs = {a, b}
    Slots = {s1, s2}
    Numbers = {1, 2}
    AskedPlaces = {1}
    Scenes <- MCCrossing
    None = None
    Milestones = {m1, m2, m3}
SYMMETRY Symmetric
CHECK_DEADLOCK FALSE
INVARIANT WorkspacesAreIsolated
