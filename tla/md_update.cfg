SPECIFICATION Spec
CONSTANTS
    Names = {n1}
    Uids = {1}
    Walks = {w1, w2}
    None = None
    Empty = Empty
    Garbage = Garbage
    MaxGeneration = 3
    MaxRotations = 1
    MaxDeletions = 0
    MaxCrashes = 1
    MaxFaults = 1
    MaxPodFailures = 1
CHECK_DEADLOCK FALSE
SYMMETRY Symmetry
INVARIANTS TypeOK ReadyMeansConverged ReloadNotForgotten SettledAtRest
PROPERTY CurrentJobKept
