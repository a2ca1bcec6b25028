\* Links are mailed; two requests in flight.
SPECIFICATION MCSpec
CONSTANTS
    i1 = i1
    i2 = i2
    l1 = l1
    l2 = l2
    r1 = r1
    r2 = r2
    NoId = NoId
    NoLink = NoLink
    Ids = {i1, i2}
    Links = {l1, l2}
    Reqs = {r1, r2}
    MailConfigured = TRUE

INVARIANT ResetLinkOnlyForVerified
PROPERTIES KeepsPromise EventuallyVerified
