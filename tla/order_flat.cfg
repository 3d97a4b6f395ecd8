\* Expected violation: a replacement that loses the race against a fill.
CONSTANTS
    MaxExits = 1
    MaxSeq = 1
    MaxKills = 0
    MaxCrashes = 0
    MaxFaults = 0
SPECIFICATION FairSpec
PROPERTY FlatIsBooked
\* A finished run is left alone: the system may stop.
CHECK_DEADLOCK FALSE
