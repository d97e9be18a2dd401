SPECIFICATION FairSpec
CONSTANTS
    N = 3
    Body <- DrainBody
    WithId = {2, 3}
    KeyOK = {1, 3}
    ParsesFrom <- LateThird
    HandledFrom <- LateThird
    Writes <- GoodWrites
    Versions = 2
    MaxFaults = 1
    MaxCrashes = 1
PROPERTIES QueueDrains
