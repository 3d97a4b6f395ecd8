\* Two strategy dates under fairness: carry-over of runs from date to date.
CONSTANTS
    Workers = {w1}
    Candidates = {k1}
    MaxDay = 2
    Profiles = {"earnings"}
    Overlap = FALSE
    MaxCrashes = 1
    MaxClears = 0
    Free = Free
    Dead = Dead
SPECIFICATION FairSpec
INVARIANTS
    LiveEntryIsTracked
    OneExposure
PROPERTIES
    EntryNeedsArmedAuthorization
    ImplementsAttemptedRun
    ScreeningEnds
