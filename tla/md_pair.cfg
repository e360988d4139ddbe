SPECIFICATION Spec
CONSTANTS
    Names = {n1}
    Uids = {1, 2}
    Walks = {w1}
    None = None
    Empty = Empty
    Garbage = Garbage
    MaxGeneration = 2
    MaxRotations = 0
    MaxDeletions = 1
    MaxCrashes = 1
    MaxFaults = 0
    MaxPodFailures = 0
CHECK_DEADLOCK FALSE
INVARIANTS GeneratorFilesOwned DeletionLeavesNothing
PROPERTIES FinalizerGuardsCleanup ImplementsContract
