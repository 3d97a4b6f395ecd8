\* One crash and one fault: what recovery must still achieve.
CONSTANTS
    MaxExits = 1
    MaxSeq = 1
    MaxKills = 0
    MaxCrashes = 1
    MaxFaults = 1
SPECIFICATION FairSpec
PROPERTIES UnfilledIsNotForgotten FillIsBooked ExitResumes
\* A finished run is left alone: the system may stop.
CHECK_DEADLOCK FALSE
