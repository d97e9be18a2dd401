SPECIFICATION Spec
CONSTANTS
    N = 4
    Body <- FaultBody
    WithId = {1, 3, 4}
    KeyOK = {1, 2, 3, 4}
    ParsesFrom <- FourFirst
    HandledFrom <- FourFirst
    Writes <- FaultWrites
    Versions = 1
    MaxFaults = 1
    MaxCrashes = 1
INVARIANTS TypeOK NormalizedOnce Preserved PassedIsNormalized WholeOrCut
PROPERTIES InQueueOrder ImplementsJournal
