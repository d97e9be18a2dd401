SPECIFICATION Spec
CONSTANTS
    N = 4
    Body <- MixedBody
    WithId = {1, 2, 4}
    KeyOK = {1, 2, 4}
    ParsesFrom <- MixedParses
    HandledFrom <- MixedHandled
    Writes <- MixedWrites
    Versions = 2
    MaxFaults = 0
    MaxCrashes = 0
INVARIANTS ReplayCatchesUp
