SPECIFICATION Spec
CONSTANTS
    Names = {n1}
    Uids = {1}
    Walks = {w1}
    None = None
    Empty = Empty
    Garbage = Garbage
    MaxGeneration = 2
    MaxRotations = 1
    MaxDeletions = 0
    MaxCrashes = 0
    MaxFaults = 0
    MaxPodFailures = 0
CHECK_DEADLOCK FALSE
INVARIANT ReadyMeansGenerated
