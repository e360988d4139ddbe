SPECIFICATION ESpec
CONSTANTS
    Names = {n1}
    Uids = {1}
    Walks = {w1, w2}
    None = None
    Empty = Empty
    Garbage = Garbage
    MaxGeneration = 4
    MaxRotations = 0
    MaxDeletions = 0
    MaxCrashes = 0
    MaxFaults = 0
    MaxPodFailures = 0
CHECK_DEADLOCK FALSE
INVARIANT ExporterServesMerged
SYMMETRY Symmetry
