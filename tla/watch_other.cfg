SPECIFICATION FairSpec
CONSTANTS
    ns1 = ns1
    ns2 = ns2
    Namespaces = {ns1, ns2}
    Unset = Unset
    Blank = Blank
    Wrong = Wrong
    Right = Right
    AllNamespaces = AllNamespaces
    Environments <- MCInstalled
    MaxUpgrades = 0
    MaxOutages = 1
    MaxKills = 1
CHECK_DEADLOCK FALSE
PROPERTY OtherNamespaceWatched
