SPECIFICATION Spec
CONSTANTS
    Names = {m1}
    d1 = d1
    Devices = {d1}
    Specs <- MCSpecs
    None = None
    MaxCreations = 2
    MaxGeneration = 2
    MaxDeletions = 1
    MaxDepartures = 1
    MaxCrashes = 1
    MaxFaults = 1
CHECK_DEADLOCK FALSE
INVARIANTS TypeOK ReadyMeansTargeted TargetFilesOwned
PROPERTY ImplementsContract
