\* Every entry of the cache, every field of a form.
SPECIFICATION BrowserSpec
CONSTANTS
    MaxSaves = 2
    Sent <- MCSent
    MaxTries = 2
    Tries <- MCTries
INVARIANTS
    BrowserTypeOK
    SavesAreShown
    OwnSavesAreSeen
    GuessesAreRevoked
    SavedAsShown
    PassedFormsAreAccepted
    TypedIsKept
CHECK_DEADLOCK FALSE
