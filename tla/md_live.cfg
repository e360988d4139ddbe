SPECIFICATION EFairSpec
CONSTANTS
    Names = {n1}
    Uids = {1}
    Walks = {w1}
    None = None
    Empty = Empty
    Garbage = Garbage
    MaxGeneration = 2
    MaxRotations = 0
    MaxDeletions = 1
    MaxCrashes = 1
    MaxFaults = 1
    MaxPodFailures = 0
CHECK_DEADLOCK FALSE
INVARIANT RolledOutServes
PROPERTIES DevicesConverge DeletionCompletes ReadyIsServed DeletedNotServed
