\* Every interleaving of worker, broker, operator and calendar with one crash, one
\* fault and one operator kill: what must never happen.
CONSTANTS
    MaxExits = 2
    MaxSeq = 1
    MaxKills = 1
    MaxCrashes = 1
    MaxFaults = 1
SPECIFICATION Spec
INVARIANTS
    TypeOK
    OneWorkingOrder
    ExitOrdersReduce
    FinishedRunsAreFlat
    ClosedChainsTellTheTruth
PROPERTY
    ImplementsExposure
    ImplementsAttemptedRun
\* A finished run is left alone: the system may stop.
CHECK_DEADLOCK FALSE
