SPECIFICATION FairSpec
CONSTANTS
    Names = {r1, r2, r3}
    None = None
    ParentLists <- MCParentLists
CHECK_DEADLOCK FALSE
INVARIANTS TypeOK ResultExact
PROPERTY Terminates
