SPECIFICATION MCSpec
CONSTANTS
    u1 = u1
    u2 = u2
    a = a
    b = b
    t1 = t1
    t2 = t2
    s1 = s1
    Users = {u1, u2}
    Orgs = {a, b}
    Member0 <- TwoAndNone
    Tabs = {t1, t2}
    Slots = {s1}
    MaxTokens = 2
    MaxActs = 3
    NoUser = NoUser
    NoOrg = NoOrg
INVARIANTS StoresAgree SignOutSticks
PROPERTY SignedOutTabsLeave
CHECK_DEADLOCK FALSE
