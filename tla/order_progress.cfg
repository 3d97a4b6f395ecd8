\* The process lives and its calls are answered: what must happen.
CONSTANTS
    MaxExits = 2
    MaxSeq = 1
    MaxKills = 1
    MaxCrashes = 0
    MaxFaults = 0
SPECIFICATION FairSpec
PROPERTIES ExitIsPlaced UnfilledIsCanceled
\* A finished run is left alone: the system may stop.
CHECK_DEADLOCK FALSE
