\* Two workers whose cycles may outlast the lease: what the database alone guarantees.
CONSTANTS
    Workers = {w1, w2}
    Candidates = {k1}
    MaxDay = 1
    Profiles = {"earnings"}
    Overlap = TRUE
    MaxCrashes = 0
    MaxClears = 0
    Free = Free
    Dead = Dead
SYMMETRY Symmetry
SPECIFICATION Spec
INVARIANTS
    OneEntryPerDay
    LedgerMatchesAttempts
PROPERTIES
    EntryNeedsArmedAuthorization
