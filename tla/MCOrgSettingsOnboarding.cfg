\* A new organization: a branding update read before the onboarding is written after it.
SPECIFICATION NewSpec
CONSTANTS
    r1 = r1
    r2 = r2
    a = a
    b = b
    Fields <- MCFields
    Values = {a, b}
    Default = a
    Modules <- MCModules
    Required <- MCRequired
    Packs <- MCPacks
    Core = "core"
    PackModules <- MCPackModules
    Reqs = {r1, r2}
SYMMETRY Symmetry
PROPERTY OnboardingStaysComplete
