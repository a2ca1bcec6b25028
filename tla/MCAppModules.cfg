\* Two updates in flight; two acts of people anywhere in the app.
SPECIFICATION AppSpec
CONSTANTS
    r1 = r1
    r2 = r2
    a = a
    b = b
    Fields <- MCFields
    Values = {a, b}
    Default = a
    Modules <- MCModules
    Required <- MCRequired
    Packs <- MCPacks
    Core = "core"
    PackModules <- MCPackModules
    Reqs = {r1, r2}
    ModuleLists <- MCLists
    Goals <- MCGoals
    MaxActs = 2
    MaxHops = 10
SYMMETRY Symmetry
INVARIANTS
    AppTypeOK
    PackMatchesModules
    PendingOwnerIsAsked
    NothingLostWithoutOverlap
    RedirectsEnd
    RestsWhereItShould
CHECK_DEADLOCK FALSE
