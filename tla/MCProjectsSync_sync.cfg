SPECIFICATION FairSpec
CONSTANTS
    main = main  dev = dev
    go = go  npm = npm
    c1 = c1  c2 = c2
    Project = {1, 2, 3, 4}
    Name = {main, dev}
    PackageType = {go, npm}
    DefaultBranch <- AllMain
    FirstListing <- Listing321
    FirstLanguages <- SomeTypes
    LaterLanguages <- LaterTypes
    PerPage = 2
    Slots = 2
    Call = {c1}
    CallProject = {1}
    CallName = {dev}
    MaxEvents = 1
INVARIANTS
    TypeOK
    UniqueUnlessRaced
    NeverHidden
PROPERTIES
    SyncedInTheEnd
    SignalEnds
