\* A founded or a legacy organization, two requests in flight.
SPECIFICATION MCSpec
CONSTANTS
    u1 = u1
    u2 = u2
    o1 = o1
    o2 = o2
    r1 = r1
    r2 = r2
    NoOrg = NoOrg
    Users = {u1, u2}
    Orgs = {o1, o2}
    LegacyOrgs = {o2}
    MaxTeam = 2
    Teams <- MCTeams
    Reqs = {r1, r2}
    GlobalManagers = {}
SYMMETRY Symmetry
ACTION_CONSTRAINT LegacyTeams
INVARIANTS
    TypeOK
    SessionOrgIsMembership
    TeamMembersAreOrgMembers
    SkipIsSound
    OneDefaultTeam
    OneOwner
    UndisturbedRequestRepairs
PROPERTY RoleChangesAuthorised
