SPECIFICATION OFairSpec
CONSTANTS
    Names = {m1}
    d1 = d1
    ns1 = ns1
    ns2 = ns2
    Devices = {d1}
    Specs <- MCSpecs
    None = None
    MaxCreations = 1
    MaxGeneration = 1
    MaxDeletions = 1
    MaxDepartures = 0
    MaxCrashes = 0
    MaxFaults = 0
    Namespaces = {ns1, ns2}
    Unset = Unset
    Blank = Blank
    Wrong = Wrong
    Right = Right
    AllNamespaces = AllNamespaces
    Environments <- MCEnvironments
    MaxUpgrades = 1
    MaxOutages = 1
    MaxKills = 1
CHECK_DEADLOCK FALSE
INVARIANTS OTypeOK RunsConfigured AllFaultsReported
PROPERTIES OperatorComesUp MeasurementsServed DeletionSurvivesRestart
