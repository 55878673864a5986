CONSTANTS
    Books <- MCBooks
    MaxOrdersPerChunk = 2
    MaxEvents = 2
    MaxPlaced = 3
    MaxResumes = 2
    MaxFaults = 2
    MaxTimers = 4
SPECIFICATION FairSpec
INVARIANTS
    WorkIsArmed
PROPERTIES
    WorkGetsDone
    TimersRunDry
