\* Expected violation: of two overlapping cycles, one books the other's submitted run as NO_TRADE.
CONSTANTS
    Workers = {w1, w2}
    Candidates = {k1}
    MaxDay = 1
    Profiles = {"earnings"}
    Overlap = TRUE
    MaxCrashes = 0
    MaxClears = 0
    Free = Free
    Dead = Dead
SPECIFICATION Spec
INVARIANTS
    LiveEntryIsTracked
