SPECIFICATION FamilyFairSpec
CONSTANTS
    r1 = r1
    r2 = r2
    Names = {r1, r2}
    None = None
    Partial = Partial
    Short = Short
    Broken = {}
    Keyless = {}
    Specs <- MCFamilySpecs
    MaxCreations = 2
    MaxUpdates = 0
    MaxDeletions = 1
    MaxVersions = 0
    MaxFaults = 1
CHECK_DEADLOCK FALSE
INVARIANTS RulesOwned ReadyMeansLoaded
PROPERTIES ImplementsContract ResourcesConverge
