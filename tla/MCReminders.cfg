SPECIFICATION Spec
CONSTANTS
    s1 = s1
    n1 = n1
    t1 = t1
    t2 = t2
    u1 = u1
    Scans = {s1}
    Nudges = {n1}
    Tasks = {t1, t2}
    Users = {u1}
    Take = 1
    Deadlines = {4}
    DaysBefore = {0, 1, 4}
    Channels = {"none", "email"}
    MailFails = TRUE
    MaxTime = 4
    Day = 1
    StaleAfter = 1
    Horizon = 2
    Null = Null
INVARIANTS TypeOK DueTasksAreReminded
PROPERTY RemindersAreSpaced
CONSTRAINT OffIsZero
SYMMETRY Symmetry
