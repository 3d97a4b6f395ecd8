\* One strategy date, one worker, two candidates, both profiles, a crash.
CONSTANTS
    Workers = {w1}
    Candidates = {k1, k2}
    MaxDay = 1
    Profiles = {"earnings", "intraday"}
    Overlap = FALSE
    MaxCrashes = 1
    MaxClears = 1
    Free = Free
    Dead = Dead
SPECIFICATION Spec
INVARIANTS
    TypeOK
    OneEntryPerDay
    LedgerMatchesAttempts
    KillLeavesNothingArmed
