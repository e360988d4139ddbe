SPECIFICATION Spec
CONSTANTS
    r1 = r1
    r2 = r2
    Names = {r1, r2}
    None = None
    Partial = Partial
    Short = Short
    Broken = {3}
    Keyless = {4}
    Specs <- MCSpecs
    MaxCreations = 2
    MaxUpdates = 1
    MaxDeletions = 0
    MaxVersions = 4
    MaxFaults = 0
SYMMETRY MCSymmetry
CHECK_DEADLOCK FALSE
INVARIANTS TypeOK  ConfigMapFollowed SettledAtRest ReadyAcyclic
