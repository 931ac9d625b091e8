SPECIFICATION FairSpec
CONSTANTS
    PackageType = {"composer", "go", "npm", "pip"}
    Version = {"v1", "v2", "v3", "other"}
    Scans <- TwoScans
    PerPage = 2
    MaxFaults = 1
INVARIANTS
    TypeOK
    ResultIsBest
    FoundIsNamed
    StoredUnderItsType
PROPERTIES
    EveryBranchAnswered
CHECK_DEADLOCK FALSE
