\* Expected violation: a crash between the exit intent and its chain.
CONSTANTS
    MaxExits = 1
    MaxSeq = 1
    MaxKills = 0
    MaxCrashes = 1
    MaxFaults = 0
SPECIFICATION FairSpec
PROPERTY ExitIsPlaced
\* A finished run is left alone: the system may stop.
CHECK_DEADLOCK FALSE
