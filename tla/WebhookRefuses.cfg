SPECIFICATION Spec
CONSTANTS
    N = 3
    Body <- PoisonBody
    WithId = {1, 2, 3}
    KeyOK = {1, 2, 3}
    ParsesFrom <- AllFirst
    HandledFrom <- AllFirst
    Writes <- GoodWrites
    Versions = 1
    MaxFaults = 0
    MaxCrashes = 0
INVARIANTS NeverRefused
