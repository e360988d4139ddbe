SPECIFICATION Spec
CONSTANTS
    r1 = r1
    r2 = r2
    Names = {r1, r2}
    None = None
    Partial = Partial
    Short = Short
    Broken = {2}
    Keyless = {}
    Specs <- MCGraphSpecs
    MaxCreations = 2
    MaxUpdates = 0
    MaxDeletions = 1
    MaxVersions = 0
    MaxFaults = 0
CHECK_DEADLOCK FALSE
INVARIANT MissingParentUnused
